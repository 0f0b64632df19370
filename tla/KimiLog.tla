------------------------------- MODULE KimiLog ------------------------------
(***************************************************************************)
(* internal/session/kimi.go: the wire log of Kimi Code (parseKimiWire,     *)
(* writeKimiWireLog) and the context and wire logs of the legacy Python    *)
(* Kimi (readKimiLegacyThread, writeKimiLegacyAt).                         *)
(*                                                                         *)
(* A wire record is [type, parts]: "message" of the user, "part" of the    *)
(* assistant, "call", "result", "revision" of a plan. A legacy record is   *)
(* "user", "assistant", "tool" or, in the wire log, "display" of a plan;   *)
(* the wire log also tells which calls failed.                             *)
(***************************************************************************)
EXTENDS Transcript

Wire(type, parts) == [type |-> type, parts |-> parts]

KimiRecord(r) ==
    CASE r.type = "message"            -> MessageOf("user", Known(r.parts))
      [] r.type \in {"part", "call"}   -> MessageOf("assistant", Known(r.parts))
      [] r.type = "result"             -> MessageOf("tool", Known(r.parts))
      [] r.type = "revision"           -> PlansOf(r.parts)
      [] OTHER                         -> <<>>

KimiRead(log) == FlattenSeq([i \in DOMAIN log |-> KimiRecord(log[i])])

(* A user's message is cut at the results in it; its media is the user's,   *)
(* whatever call it answers.                                                *)
KimiUser(e) ==
    Grouped(e.parts, LAMBDA p : p.kind # "result", Plain,
            LAMBDA p : <<Wire("result", <<p>>)>>, LAMBDA parts : Wire("message", parts))

(* Mutant: an assistant's unanswered calls are forgotten. *)
KimiForgets(e, answered) ==
    [i \in DOMAIN e.parts |-> Wire(IF IsCall(e.parts[i]) THEN "call" ELSE "part", <<e.parts[i]>>)]

(* An assistant's parts are records of their own, and what it left          *)
(* unanswered is answered after them.                                       *)
KimiAssistant(e, answered) ==
    LET lost == SelectSeq(e.parts, LAMBDA p : IsCall(p) /\ p.call \notin answered)
    IN     [i \in DOMAIN e.parts |-> Wire(IF IsCall(e.parts[i]) THEN "call" ELSE "part", <<e.parts[i]>>)]
        \o [i \in DOMAIN lost |-> Wire("result", <<Interrupted(lost[i].call)>>)]

KimiEvent(e, answered) ==
    CASE e.role = "plan"      -> <<Wire("revision", e.parts)>>
      [] e.role = "user"      -> KimiUser(e)
      [] e.role = "assistant" -> KimiAssistant(e, answered)
      [] OTHER                -> [i \in DOMAIN e.parts |-> Wire("result", <<e.parts[i]>>)]

KimiWrite(h) == EachEvent(h, LAMBDA e : KimiEvent(e, Answered(h)))

-----------------------------------------------------------------------------
(* The legacy layout. context.jsonl has no plans and no errors: both are    *)
(* read from wire.jsonl afterwards, plans in order behind everything else,  *)
(* errors by call and for results only.                                     *)

Failures(log) ==
    {c \in {log[i].parts[1].call : i \in {j \in DOMAIN log : log[j].type = "tool"}} :
        Last(SelectSeq(log, LAMBDA r : r.type = "tool" /\ r.parts[1].call = c)).parts[1].err}

LegacyPart(p, failed) ==
    [p EXCEPT !.err = p.kind = "result" /\ p.call \in failed]

LegacyMessage(r, failed) ==
    LET parts == Known(r.parts) IN
    IF r.type \notin {"user", "assistant", "tool"} THEN <<>>
    ELSE MessageOf(r.type, [i \in DOMAIN parts |-> LegacyPart(parts[i], failed)])

LegacyRead(log) ==
    LET plans == SelectSeq(log, LAMBDA r : r.type = "display")
    IN     FlattenSeq([i \in DOMAIN log |-> LegacyMessage(log[i], Failures(log))])
        \o [i \in DOMAIN plans |-> PlanEvent(plans[i].parts[1].body)]

(* A message of one block is written as its text. *)
LegacySaid(parts) ==
    IF Len(parts) > 1 THEN parts ELSE SelectSeq(parts, LAMBDA p : p.kind # "media")

LegacyUser(e) ==
    Grouped(e.parts, LAMBDA p : p.kind # "result", Plain,
            LAMBDA p : <<Wire("tool", <<p>>)>>, LAMBDA parts : Wire("user", LegacySaid(parts)))

(* Mutant: the interruption is written before the message it answers. *)
LegacyLostFirst(e, answered) ==
    LET lost == SelectSeq(e.parts, LAMBDA p : IsCall(p) /\ p.call \notin answered)
    IN  [i \in DOMAIN lost |-> Wire("tool", <<Interrupted(lost[i].call)>>)]
        \o <<Wire("assistant", e.parts)>>

(* What an assistant said comes before what it called. *)
LegacyAssistant(e, answered) ==
    LET said  == SelectSeq(e.parts, LAMBDA p : ~IsCall(p))
        calls == SelectSeq(e.parts, IsCall)
        lost  == SelectSeq(calls, LAMBDA p : p.call \notin answered)
    IN  <<Wire("assistant", said \o calls)>>
        \o [i \in DOMAIN lost |-> Wire("tool", <<Interrupted(lost[i].call)>>)]

LegacyEvent(e, answered) ==
    CASE e.role = "plan"      -> <<Wire("display", e.parts)>>
      [] e.role = "user"      -> LegacyUser(e)
      [] e.role = "assistant" -> LegacyAssistant(e, answered)
      [] OTHER                -> [i \in DOMAIN e.parts |-> Wire("tool", <<e.parts[i]>>)]

LegacyWrite(h) == EachEvent(h, LAMBDA e : LegacyEvent(e, Answered(h)))
=============================================================================
