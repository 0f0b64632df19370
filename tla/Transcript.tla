----------------------------- MODULE Transcript -----------------------------
(***************************************************************************)
(* The canonical event model of internal/session/types.go: what a reader   *)
(* makes of a recorded session and what every writer is given.             *)
(*                                                                         *)
(* A part has a kind, the tool call it belongs to ("" for none), a body    *)
(* (an opaque token; equal tokens are equal contents) and an error flag.   *)
(* A "tagged" part is a text in <proposed_plan> marks, and an "exit" part  *)
(* a call of ExitPlanMode, whose input holds the plan it proposes. An      *)
(* event has a role and parts; a plan is an event of its own.              *)
(***************************************************************************)
EXTENDS Naturals, Sequences, SequencesExt

None == ""
Part(kind, call, body, err) == [kind |-> kind, call |-> call, body |-> body, err |-> err]
Event(role, parts) == [role |-> role, parts |-> parts]
PlanEvent(body) == Event("plan", <<Part("plan", None, body, FALSE)>>)

Content == {"text", "tagged", "reasoning"}

(* proposedPlan, as the readers that look for plans in assistant text use it. *)
ProposedPlan(role, p) == p.kind = "tagged" /\ role = "assistant"
AsText(plan) == [plan EXCEPT !.kind = "tagged"]
PlansOf(parts) == [i \in DOMAIN parts |-> PlanEvent(parts[i].body)]
MessageOf(role, parts) == IF parts = <<>> THEN <<>> ELSE <<Event(role, parts)>>

IsCall(p) == p.kind \in {"call", "exit"}

(* A result, or media recorded as one, answers a call. *)
Answers(p) == p.kind = "result" \/ (p.kind = "media" /\ p.call # None)

(* hasOnlyToolResults: such a message is the tool's, whoever recorded it. *)
OnlyAnswers(parts) == parts # <<>> /\ \A i \in DOMAIN parts : Answers(parts[i])

(* Media as it is written where no call is named. *)
Plain(p) == [p EXCEPT !.call = None, !.err = FALSE]

(* What a reader keeps of a message's blocks: the others are skipped with a *)
(* warning.                                                                 *)
Known(parts) == SelectSeq(parts, LAMBDA p : p.kind # "other")

(* A writer's own result for a call that has none. *)
Interrupted(c) == Part("result", c, "interrupted", TRUE)

-----------------------------------------------------------------------------
(* Places in a stream, and their order. *)

Places(h) == UNION {{<<i, j>> : j \in DOMAIN h[i].parts} : i \in DOMAIN h}
At(h, p) == h[p[1]].parts[p[2]]
Before(p, q) == p[1] < q[1] \/ (p[1] = q[1] /\ p[2] < q[2])
Where(h, Test(_)) == {p \in Places(h) : Test(At(h, p))}

CallPlaces(h) == Where(h, IsCall)
Calls(h) == {At(h, p).call : p \in CallPlaces(h)}
Answered(h) == {At(h, p).call : p \in Where(h, Answers)}
Dangling(h) == Calls(h) \ Answered(h)

(* What validateEvents lets a message of this role hold. *)
Allowed(role, p) ==
    CASE p.kind \in Content -> /\ p.body # None
                               /\ role # "tool"
                               /\ p.kind = "reasoning" => role = "assistant"
      [] IsCall(p)          -> role = "assistant" /\ p.call # None
      [] p.kind = "result"  -> role # "assistant" /\ p.call # None
      [] p.kind = "media"   -> p.body # None /\ (role = "tool" => p.call # None)
      [] p.kind = "plan"    -> role = "plan" /\ p.body # None
      [] OTHER              -> FALSE

(* Session.Validate, for one stream: what no writer is given otherwise. *)
Valid(h) ==
    /\ h # <<>>
    /\ \A i \in DOMAIN h : h[i].role \in {"user", "assistant", "tool", "plan"} /\ h[i].parts # <<>>
    /\ \A p \in Places(h) : Allowed(h[p[1]].role, At(h, p))
    /\ \A p, q \in CallPlaces(h) : At(h, p).call = At(h, q).call => p = q
    /\ \A p \in Where(h, Answers) :
          \E q \in CallPlaces(h) : At(h, q).call = At(h, p).call /\ Before(q, p)
    /\ \A p, q \in Places(h) :
          /\ At(h, p).kind = "result" /\ At(h, q).kind = "result"
          /\ At(h, p).call = At(h, q).call
          => p[1] = q[1]

-----------------------------------------------------------------------------
(* Helpers of the writers: maximal runs of the parts a native message takes *)
(* together. Each part is either gathered into the open message or sent as  *)
(* records of its own, which closes the message first.                      *)

Flush(s, Close(_)) == IF s.open = <<>> THEN s.out ELSE Append(s.out, Close(s.open))

Grouped(parts, Gathers(_), Native(_), Alone(_), Close(_)) ==
    LET add(s, p) == IF Gathers(p) THEN [s EXCEPT !.open = Append(@, Native(p))]
                     ELSE [out |-> Flush(s, Close) \o Alone(p), open |-> <<>>]
    IN  Flush(FoldLeft(add, [out |-> <<>>, open |-> <<>>], parts), Close)

(* The records of every event, in order. *)
EachEvent(h, Records(_)) == FlattenSeq([i \in DOMAIN h |-> Records(h[i])])

=============================================================================
