------------------------------ MODULE CodexLog ------------------------------
(***************************************************************************)
(* internal/session/codex.go: a Codex rollout read (readCodexThread,       *)
(* readCodexResponse, codexOutputParts) and written (writeCodexThread).    *)
(*                                                                         *)
(* An item is [type, parts]: "user" and "assistant" messages, "call",      *)
(* "output", "reasoning", "plan_update" and items it skips.                *)
(***************************************************************************)
EXTENDS Transcript

Item(type, parts) == [type |-> type, parts |-> parts]

CodexMessage(r) ==
    LET said  == SelectSeq(r.parts, LAMBDA p : p.kind # "other" /\ ~ProposedPlan(r.type, p))
        plans == SelectSeq(r.parts, LAMBDA p : ProposedPlan(r.type, p))
    IN  MessageOf(r.type, said) \o PlansOf(plans)

(* An output of nothing but blocks it cannot read still answers its call;   *)
(* every part of an output names the call.                                  *)
CodexOutput(r) ==
    LET read  == Known(r.parts)
        blank == Part("result", r.parts[1].call, "blank", r.parts[1].err)
    IN  <<Event("tool", IF read = <<>> THEN <<blank>> ELSE read)>>

CodexItem(r) ==
    CASE r.type \in {"user", "assistant"}  -> CodexMessage(r)
      [] r.type \in {"call", "reasoning"}  -> <<Event("assistant", r.parts)>>
      [] r.type = "output"                 -> CodexOutput(r)
      [] r.type = "plan_update"            -> PlansOf(r.parts)
      [] OTHER                             -> <<>>

CodexRead(log) == FlattenSeq([i \in DOMAIN log |-> CodexItem(log[i])])

-----------------------------------------------------------------------------
(* Writing. Only the media of a tool's message is written as its output.    *)

CodexGathers(e, p) == p.kind \in Content \/ (p.kind = "media" /\ ~(e.role = "tool" /\ p.call # None))
CodexNative(p) ==
    CASE p.kind = "reasoning" -> [p EXCEPT !.kind = "text"]
      [] p.kind = "media"     -> Plain(p)
      [] OTHER                -> p
CodexAlone(p, answered) ==
    IF ~IsCall(p) THEN <<Item("output", <<p>>)>>
    ELSE <<Item("call", <<p>>)>>
         \o (IF p.call \in answered THEN <<>> ELSE <<Item("output", <<Interrupted(p.call)>>)>>)

(* Mutant: the open message is not sent before a call or an output. *)
CodexEventLate(e, answered) ==
    LET Own(p) == ~CodexGathers(e, p)
        own  == SelectSeq(e.parts, Own)
        rest == SelectSeq(e.parts, LAMBDA p : ~Own(p))
    IN  IF e.role = "plan" THEN <<Item("assistant", <<AsText(e.parts[1])>>)>>
        ELSE FlattenSeq([i \in DOMAIN own |-> CodexAlone(own[i], answered)])
             \o (IF rest = <<>> THEN <<>> ELSE <<Item(e.role, [i \in DOMAIN rest |-> CodexNative(rest[i])])>>)

CodexEvent(e, answered) ==
    IF e.role = "plan" THEN <<Item("assistant", <<AsText(e.parts[1])>>)>>
    ELSE Grouped(e.parts, LAMBDA p : CodexGathers(e, p), CodexNative,
                 LAMBDA p : CodexAlone(p, answered),
                 LAMBDA parts : Item(IF e.role = "tool" THEN "user" ELSE e.role, parts))

CodexWrite(h) == EachEvent(h, LAMBDA e : CodexEvent(e, Answered(h)))
=============================================================================
