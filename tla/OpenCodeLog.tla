---------------------------- MODULE OpenCodeLog -----------------------------
(***************************************************************************)
(* internal/session/opencode.go: an `opencode export` read                 *)
(* (readOpenCodeThread, openCodeOutputParts) and one written for           *)
(* `opencode import` (writeOpenCodeThread).                                *)
(*                                                                         *)
(* A message is [type, parts], its type the role. A tool part is its call, *)
(* followed by its result once its state is completed or error.            *)
(***************************************************************************)
EXTENDS Transcript

Exported(type, parts) == [type |-> type, parts |-> parts]

(* Runs of text, reasoning and files become one event; a plan, a call and a *)
(* result each one of their own.                                            *)
OpenCodeAlone(p) ==
    CASE p.kind = "tagged" -> <<PlanEvent(p.body)>>
      [] IsCall(p)         -> <<Event("assistant", <<p>>)>>
      [] OTHER             -> <<Event("tool", <<p>>)>>

OpenCodeMessage(r) ==
    IF r.type \notin {"user", "assistant"} THEN <<>>
    ELSE Grouped(Known(r.parts),
                 LAMBDA p : ~ProposedPlan(r.type, p) /\ ~IsCall(p) /\ ~Answers(p),
                 LAMBDA p : p, OpenCodeAlone,
                 LAMBDA parts : Event(r.type, parts))

OpenCodeRead(log) == FlattenSeq([i \in DOMAIN log |-> OpenCodeMessage(log[i])])

-----------------------------------------------------------------------------
(* Writing. A call carries the last answer recorded for it, wherever that   *)
(* is; an error keeps only its text.                                        *)

LastAnswer(h, c) ==
    LET mine == Where(h, LAMBDA p : Answers(p) /\ p.call = c)
    IN  At(h, CHOOSE p \in mine : \A q \in mine : ~Before(p, q))

OpenCodeState(p) == IF p.kind = "media" /\ p.err THEN Part("result", p.call, "blank", TRUE) ELSE p

OpenCodePart(h, p) ==
    CASE IsCall(p)          -> <<p, IF p.call \in Answered(h) THEN OpenCodeState(LastAnswer(h, p.call))
                                    ELSE Interrupted(p.call)>>
      [] p.kind = "result"  -> <<>>
      [] p.kind = "media"   -> <<Plain(p)>>
      [] OTHER              -> <<p>>

OpenCodeEvent(h, e) ==
    LET parts == FlattenSeq([i \in DOMAIN e.parts |-> OpenCodePart(h, e.parts[i])])
    IN  CASE e.role = "plan"                     -> <<Exported("assistant", <<AsText(e.parts[1])>>)>>
          [] e.role = "tool" \/ parts = <<>>     -> <<>>
          [] OTHER                               -> <<Exported(e.role, parts)>>

OpenCodeWrite(h) == EachEvent(h, LAMBDA e : OpenCodeEvent(h, e))
=============================================================================
