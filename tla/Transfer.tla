------------------------------ MODULE Transfer ------------------------------
(***************************************************************************)
(* A session recorded by one harness and moved from harness to harness:    *)
(* every move reads the native log, validates what it read and writes it   *)
(* in the target's form (Manager.Teleport without its files, which are     *)
(* module Publish's subject).                                              *)
(***************************************************************************)
EXTENDS ClaudeLog, CodexLog, OpenCodeLog, KimiLog

CONSTANTS
    Recorded,    \* the records each harness may add to a log of its own
    MaxRecords,  \* bound: records of the original log
    MaxHops      \* bound: moves of one session

Harnesses == {"claude", "codex", "opencode", "kimi", "legacy"}
ASSUME TransferAssumption ==
    /\ MaxRecords \in Nat \ {0} /\ MaxHops \in Nat
    /\ DOMAIN Recorded = Harnesses

VARIABLES
    home,     \* the harness that holds the session
    log,      \* its native log
    first,    \* the canonical history of the original, once it is moved
    route,    \* the harnesses it was moved to
    refused   \* a move was refused because the history it read is invalid

vars == <<home, log, first, route, refused>>

Read(a, l) ==
    CASE a = "claude"   -> ClaudeRead(l)
      [] a = "codex"    -> CodexRead(l)
      [] a = "opencode" -> OpenCodeRead(l)
      [] a = "kimi"     -> KimiRead(l)
      [] a = "legacy"   -> LegacyRead(l)

Write(a, h) ==
    CASE a = "claude"   -> ClaudeWrite(h)
      [] a = "codex"    -> CodexWrite(h)
      [] a = "opencode" -> OpenCodeWrite(h)
      [] a = "kimi"     -> KimiWrite(h)
      [] a = "legacy"   -> LegacyWrite(h)

Now == Read(home, log)

(* Both Kimis are one agent; only Codex may be moved to itself. *)
Agent(a) == IF a = "legacy" THEN "kimi" ELSE a
MayMove(a, b) == Agent(a) # Agent(b) \/ Agent(b) = "codex"

(* What a harness adds to its log: calls that are new, answers to calls it  *)
(* recorded and has not answered, the end of a prompt that waits.           *)
Opened(l) == {At(l, p).call : p \in CallPlaces(l)}
Closed(l) == {At(l, p).call : p \in Where(l, LAMBDA q : Answers(q) \/ q.kind = "other")}
Typed(l, types) == Len(SelectSeq(l, LAMBDA r : r.type \in types))
Waits == Typed(log, {"enqueue"}) > Typed(log, {"dequeue", "remove", "queued"})
Coherent(r) == (r.type \in {"dequeue", "remove", "queued"} => Waits) /\ \A i \in DOMAIN r.parts :
    LET p == r.parts[i] IN
    CASE IsCall(p)               -> p.call \notin Opened(log)
      [] p.call # None           -> p.call \in Opened(log) \ Closed(log)
      [] OTHER                   -> TRUE

-----------------------------------------------------------------------------
Init ==
    /\ home \in Harnesses
    /\ log = <<>> /\ first = <<>> /\ route = <<>> /\ refused = FALSE

(* The harness records a turn, until the session is moved. *)
Record ==
    /\ route = <<>> /\ ~refused /\ Len(log) < MaxRecords
    /\ \E r \in Recorded[home] : Coherent(r) /\ log' = Append(log, r)
    /\ UNCHANGED <<home, first, route, refused>>

Move(b) ==
    /\ MayMove(home, b) /\ ~refused /\ Len(route) < MaxHops
    /\ Valid(Now)
    /\ home' = b /\ log' = Write(b, Now)
    /\ first' = IF route = <<>> THEN Now ELSE first
    /\ route' = Append(route, b)
    /\ UNCHANGED refused

(* Validate fails: nothing is written. *)
Refuse ==
    /\ ~refused /\ Len(route) < MaxHops
    /\ log # <<>> /\ ~Valid(Now)
    /\ refused' = TRUE
    /\ UNCHANGED <<home, log, first, route>>

Next == Record \/ Refuse \/ \E b \in Harnesses : Move(b)
Spec == Init /\ [][Next]_vars

-----------------------------------------------------------------------------
(* Properties *)

Bodies(h, Test(_)) ==
    FlattenSeq([i \in DOMAIN h |-> LET some == SelectSeq(h[i].parts, LAMBDA p : Test(p))
                                   IN  [j \in DOMAIN some |-> some[j].body]])
Flat(h) == [i \in DOMAIN h |-> [h[i] EXCEPT !.parts =
              SelectSeq(@, LAMBDA p : ~ProposedPlan(h[i].role, p) /\ p.kind # "plan")]]
Says(p) == p.kind \in Content
Tells(p) == Says(p) \/ IsCall(p)
Moved == route # <<>>
Through(b) == \E i \in DOMAIN route : route[i] = b

(* What the user and the assistant said, and the calls between, are told in *)
(* the recorded order after any number of moves (codex.go:575,              *)
(* opencode.go:156); the legacy Kimi log tells an event's calls after its   *)
(* text (kimi.go:1596), and keeps the two orders.                           *)
StoryKept == Moved =>
    /\ Bodies(Flat(Now), Says) = Bodies(Flat(first), Says)
    /\ Bodies(Now, IsCall) = Bodies(first, IsCall)
    /\ ~Through("legacy") => Bodies(Flat(Now), Tells) = Bodies(Flat(first), Tells)

(* The answers of a call. *)
AnswersTo(h, c) == {At(h, p) : p \in Where(h, LAMBDA q : Answers(q) /\ q.call = c)}

(* The readers leave a picture that a user's own message records as a       *)
(* call's result in that message; Codex and Kimi then write it as the       *)
(* user's.                                                                  *)
InUsersMessage(h, c) == \E p \in Places(h) :
    h[p[1]].role = "user" /\ At(h, p).kind = "media" /\ At(h, p).call = c

(* After a move every call is answered: by what the source recorded for it, *)
(* and by an interruption if the source recorded nothing (types.go:192,     *)
(* docs/sessions.md:244).  A failed call has failed and a successful one    *)
(* has succeeded wherever the session is read, its pictures aside           *)
(* (kimi.go:1058).                                                          *)
EveryCallKeepsItsAnswer == Moved =>
    /\ \A c \in Calls(first) :
          LET was == {p.body : p \in AnswersTo(first, c)}
              is  == {p.body : p \in AnswersTo(Now, c)}
          IN  IF was = {} THEN is = {"interrupted"}
              ELSE InUsersMessage(first, c) \/ (is # {} /\ is \subseteq was \cup {"blank"})
    /\ \A p \in Where(Now, LAMBDA q : q.kind = "result" /\ q.body # "interrupted") :
          \A q \in AnswersTo(first, At(Now, p).call) : q.err = At(Now, p).err

TwoTexts(h) == \E p, q \in Places(h) :
    /\ p # q /\ At(h, p).kind = "result" /\ At(h, q).kind = "result"
    /\ At(h, p).call = At(h, q).call

(* What was moved can be moved on: the target's own log reads back as a     *)
(* valid history (types.go:190), unless a result had two texts, which the   *)
(* targets record as two results, or nothing was left of it (see MediaKept). *)
MovesOn == Moved =>
    Valid(Now) \/ TwoTexts(first) \/ (Through("legacy") /\ Now = <<>>)

(* A prompt typed ahead is in the history once, waiting or consumed, until  *)
(* the user takes it back (claude.go:136).                                  *)
PromptsKept == home = "claude" /\ ~Moved =>
    Len(SelectSeq(Bodies(Now, Says), LAMBDA b : b = "q")) =
        Typed(log, {"enqueue"}) - Typed(log, {"dequeue", "remove"})

(* Inline media stays with the session (README.md:236). Violated: the       *)
(* legacy Kimi writer writes a message of one block as its text             *)
(* (kimi.go:1539).                                                          *)
MediaKept == Moved =>
    LET media(h) == {At(h, p).body : p \in Where(h, LAMBDA q : q.kind = "media")}
    IN  media(first) \subseteq media(Now)

(* Violated: Codex and Kimi write a picture of a user's own message as the  *)
(* user's, and its call then has no answer (codex.go:598).                  *)
NoCallLeftOpen == Moved => Dangling(Now) = {}

(* Violated: of a result's two texts the targets but Claude make two        *)
(* results, which Validate refuses (kimi.go:1302).                          *)
MovesOnAlways == Moved => Now = <<>> \/ Valid(Now)
=============================================================================
