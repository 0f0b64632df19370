----------------------------- MODULE ClaudeLog ------------------------------
(***************************************************************************)
(* internal/session/claude.go: a Claude transcript read into canonical     *)
(* events (claudeStream.record) and canonical events written as one        *)
(* (writeClaudeEvents, claudeBlocks).                                      *)
(*                                                                         *)
(* A record is [type, parts]. Messages have type "user" or "assistant";    *)
(* a block of a tool_result's content is a part of its own, which is how   *)
(* the reader leaves it, and an "other" part is a block it cannot read.    *)
(* Reading folds over the records: ev the events so far, waiting the       *)
(* prompts typed and not consumed, plan the last plan seen.                *)
(***************************************************************************)
EXTENDS Transcript

Claude(type, parts) == [type |-> type, parts |-> parts]

Say(s, parts) == [s EXCEPT !.ev = Append(@, Event("user", parts))]

(* removePending: the first one with that text, or the first of all. *)
Consume(waiting, text) ==
    LET hit(q) == text = None \/ q = text IN RemoveFirstMatch(waiting, hit)

(* A message's plans follow it: a tagged text leaves it, the call of an     *)
(* exit from plan mode stays.                                               *)
ClaudeMessage(s, r) ==
    LET parts == SelectSeq(r.parts, LAMBDA p : p.kind # "other" /\ ~ProposedPlan(r.type, p))
        plans == SelectSeq(r.parts, LAMBDA p : p.kind = "exit" \/ ProposedPlan(r.type, p))
        role  == IF OnlyAnswers(parts) THEN "tool" ELSE r.type
    IN  [s EXCEPT !.ev   = @ \o MessageOf(role, parts) \o PlansOf(plans),
                  !.plan = IF plans = <<>> THEN @ ELSE Last(plans).body]

(* The queue operations; an empty prompt is not queued. *)
ClaudeQueue(s, r) ==
    LET text == r.parts[1].body IN
    CASE r.type = "enqueue" -> IF text = None THEN s ELSE [s EXCEPT !.waiting = Append(@, text)]
      [] OTHER              -> [s EXCEPT !.waiting = Consume(@, text)]

(* Mutant: a queued command does not consume its prompt. *)
QueuedTwice(s, r) == IF r.type = "planref" THEN s ELSE Say(s, r.parts)

(* The attachments that carry conversation. *)
ClaudeAttachment(s, r) ==
    LET body == r.parts[1].body IN
    CASE r.type = "queued"  -> Say([s EXCEPT !.waiting = Consume(@, body)], r.parts)
      [] r.type = "planref" -> IF body = s.plan THEN s
                               ELSE [s EXCEPT !.ev = Append(@, PlanEvent(body)), !.plan = body]
      [] OTHER              -> Say(s, r.parts)

ClaudeRecord(s, r) ==
    CASE r.type \in {"user", "assistant"}            -> ClaudeMessage(s, r)
      [] r.type \in {"enqueue", "dequeue", "remove"} -> ClaudeQueue(s, r)
      [] r.type \in {"queued", "planref", "file"}    -> ClaudeAttachment(s, r)
      [] OTHER                                       -> s

(* flushPending: what was typed and never consumed ends the history. *)
Pending(s) == [i \in DOMAIN s.waiting |-> Event("user", <<Part("text", None, s.waiting[i], FALSE)>>)]

(* The session's plan file, unless the transcript ends with that plan. It   *)
(* is the last record here.                                                 *)
PlanFile(s, log) ==
    LET file == SelectSeq(log, LAMBDA r : r.type = "planfile" /\ r.parts[1].body # s.plan)
    IN  [i \in DOMAIN file |-> PlanEvent(file[i].parts[1].body)]

ClaudeRead(log) ==
    LET s == FoldLeft(ClaudeRecord, [ev |-> <<>>, waiting |-> <<>>, plan |-> None], log)
    IN  s.ev \o Pending(s) \o PlanFile(s, log)

-----------------------------------------------------------------------------
(* Writing. Reasoning becomes assistant text: its signature is bound to a   *)
(* provider.                                                                *)

ClaudeNative(p) ==
    CASE p.kind = "reasoning" -> [p EXCEPT !.kind = "text"]
      [] p.kind = "media"     -> Plain(p)
      [] OTHER                -> p
ClaudeSpoken(e, p) == \/ IsCall(p) \/ p.kind = "reasoning"
                      \/ e.role = "assistant" /\ p.kind \in {"text", "tagged", "media"}

ClaudeEvent(e, answered) ==
    LET mine  == SelectSeq(e.parts, LAMBDA p : ClaudeSpoken(e, p))
        yours == SelectSeq(e.parts, LAMBDA p : ~ClaudeSpoken(e, p))
        lost  == SelectSeq(mine, LAMBDA p : IsCall(p) /\ p.call \notin answered)
        unless(seq, r) == IF seq = <<>> THEN <<>> ELSE <<r>>
    IN  IF e.role = "plan" THEN <<Claude("assistant", <<AsText(e.parts[1])>>)>>
        ELSE    unless(mine, Claude("assistant", [i \in DOMAIN mine |-> ClaudeNative(mine[i])]))
             \o unless(yours, Claude("user", yours))
             \o unless(lost, Claude("user", [i \in DOMAIN lost |-> Interrupted(lost[i].call)]))

ClaudeWrite(h) ==
    LET plans == SelectSeq(h, LAMBDA e : e.role = "plan")
    IN     EachEvent(h, LAMBDA e : ClaudeEvent(e, Answered(h)))
        \o (IF plans = <<>> THEN <<>> ELSE <<Claude("planfile", Last(plans).parts)>>)

=============================================================================
