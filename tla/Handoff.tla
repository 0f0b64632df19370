------------------------------ MODULE Handoff -------------------------------
(***************************************************************************)
(* A request that would have to wait too long is refused, the proxy leaves *)
(* a resume ticket for its lane, and `agentswap run` waits for the reset   *)
(* and resumes the session (internal/proxy writeTicket, internal/supervisor). *)
(*                                                                         *)
(* Time is relative: a ticket carries the ticks left until its reset and   *)
(* the ticks since it was written, a supervisor the ticks since it started *)
(* its child.  Ages saturate at MaxAge, above every reset.                 *)
(***************************************************************************)
EXTENDS Naturals

CONSTANTS
    Runs,         \* supervised sessions
    Bare,         \* clients nobody supervises
    LaneOf,       \* the lane each of them talks to
    MaxResumes,   \* --max-resumes
    Grace,        \* freshnessGrace
    Resets,       \* ticks until the reset a refused client is told of
    MaxAge,       \* bound: ages saturate here
    Events        \* "again": a session that ended is run again;
                  \* "disk": a ticket may fail to be written or removed

Lanes == {"anthropic", "openai"}
Clients == Runs \cup Bare

ASSUME HandoffAssumption ==
    /\ Runs \cap Bare = {} /\ LaneOf \in [Clients -> Lanes]
    /\ MaxResumes \in Nat /\ Grace \in Nat /\ MaxAge \in Nat
    /\ Resets \subseteq 1 .. MaxAge
    /\ Events \subseteq {"again", "disk"}

VARIABLES
    ticket,       \* pending/<lane>.json: whether it is there and whole, and its times
    handler,      \* the proxy's handler of a client that it is refusing
    pc,           \* supervisor.Run: where it stands
    attempt, ran, \* attempt, and ticks since started
    best,         \* PendingSince: the soonest ticket so far
    timer,        \* ticks left of the wait
    told, due     \* history: whether a child has been refused since it was started,
                  \* and ticks left until the last reset it was told of

supervisors == <<pc, attempt, ran, best, timer>>
history == <<told, due>>
vars == <<ticket, handler, supervisors, history>>

Min(m, n) == IF m <= n THEN m ELSE n
Down(n) == IF n > 0 THEN n - 1 ELSE 0
Older(n) == Min(n + 1, MaxAge)

Ages == 0 .. MaxAge
NoTicket == [file |-> "none", left |-> 0, age |-> 0]
Torn     == [file |-> "torn", left |-> 0, age |-> 0]
Written(d) == [file |-> "whole", left |-> d, age |-> 0]
Aged(t) == [file |-> "whole", left |-> Down(t.left), age |-> Older(t.age)]
Tickets  == [file : {"none", "torn", "whole"}, left : Ages, age : Ages]

(* A handler that is at no ticket, or the reset it is writing down and     *)
(* whether the file it opened is still the one in the directory.           *)
Idle == [left |-> 0, linked |-> FALSE]
Handlers == [left : Ages, linked : BOOLEAN]
Unseen == [lane |-> "anthropic", left |-> 0]

Init ==
    /\ ticket = [l \in Lanes |-> NoTicket]
    /\ handler = [c \in Clients |-> Idle]
    /\ pc = [s \in Runs |-> "idle"]
    /\ attempt = [s \in Runs |-> 0] /\ ran = [s \in Runs |-> 0]
    /\ best = [s \in Runs |-> Unseen] /\ timer = [s \in Runs |-> 0]
    /\ told = [s \in Runs |-> FALSE] /\ due = [s \in Runs |-> 0]

-----------------------------------------------------------------------------
(* The proxy.  ErrParkTooLong: the ticket, and then the 503.  WriteFile    *)
(* truncates the file and then writes it.                                  *)
Talks(c) == c \in Runs => pc[c] = "running"

Refuses(c) ==
    /\ Talks(c) /\ handler[c] = Idle
    /\ \E d \in Resets : handler' = [handler EXCEPT ![c] = [left |-> d, linked |-> TRUE]]
    /\ ticket' = [ticket EXCEPT ![LaneOf[c]] = Torn]
    /\ UNCHANGED <<supervisors, history>>

(* A file that was removed meanwhile takes the ticket with it; one that    *)
(* another handler filled meanwhile may keep the tail of a longer ticket.  *)
Fills(c, l) ==
    \/ handler[c].linked /\ ticket' = [ticket EXCEPT ![l] = Written(handler[c].left)]
    \/ handler[c].linked /\ ticket[l].file = "whole" /\ ticket' = [ticket EXCEPT ![l] = Torn]
    \/ ~handler[c].linked /\ UNCHANGED ticket
    \/ "disk" \in Events /\ UNCHANGED ticket

(* The answer reaches the client.                                          *)
Answers(c) ==
    /\ handler[c] # Idle
    /\ Fills(c, LaneOf[c])
    /\ handler' = [handler EXCEPT ![c] = Idle]
    /\ IF c \in Runs
       THEN told' = [told EXCEPT ![c] = TRUE] /\ due' = [due EXCEPT ![c] = handler[c].left]
       ELSE UNCHANGED history
    /\ UNCHANGED supervisors

-----------------------------------------------------------------------------
(* supervisor.Run.  Each attempt starts a child, and its clock.            *)
Starts(s, n) ==
    /\ pc' = [pc EXCEPT ![s] = "running"]
    /\ attempt' = [attempt EXCEPT ![s] = n]
    /\ ran' = [ran EXCEPT ![s] = 0]
    /\ told' = [told EXCEPT ![s] = FALSE] /\ due' = [due EXCEPT ![s] = 0]

(* A session that is run again is not run again within the grace.          *)
Launch(s) ==
    /\ \/ pc[s] = "idle"
       \/ /\ "again" \in Events /\ pc[s] = "done"
          /\ \A l \in Lanes : ticket[l].file = "whole" => ticket[l].age > Grace
    /\ Starts(s, 0)
    /\ best' = [best EXCEPT ![s] = Unseen]
    /\ UNCHANGED <<ticket, handler, timer>>

(* The child ends, having seen the answer to what it asked.                *)
ChildExits(s) ==
    /\ pc[s] = "running" /\ handler[s] = Idle
    /\ pc' = [pc EXCEPT ![s] = "ended"]
    /\ UNCHANGED <<ticket, handler, attempt, ran, best, timer, history>>

(* mutant: one resume short.                                               *)
LimitAlmost(s) == attempt[s] + 1 >= MaxResumes
Limit(s) == attempt[s] >= MaxResumes

AtLimit(s) ==
    /\ pc[s] = "ended" /\ Limit(s)
    /\ pc' = [pc EXCEPT ![s] = "done"]
    /\ UNCHANGED <<ticket, handler, attempt, ran, best, timer, history>>

(* PendingSince: one lane's ticket and then the other's.  A ticket counts  *)
(* if it was written in this attempt and its reset is ahead.               *)
(* mutants: whenever it was written; no grace for coarse timestamps.       *)
CountsWhenever(s, l) == ticket[l].file = "whole" /\ ticket[l].left > 0
CountsWithoutGrace(s, l) ==
    /\ ticket[l].file = "whole"
    /\ ticket[l].age < ran[s]
    /\ ticket[l].left > 0
Counts(s, l) ==
    /\ ticket[l].file = "whole"
    /\ ticket[l].age <= ran[s] + Grace
    /\ ticket[l].left > 0

Sooner(s, l) ==
    IF Counts(s, l) /\ (best[s].left = 0 \/ ticket[l].left < best[s].left)
    THEN [lane |-> l, left |-> ticket[l].left]
    ELSE best[s]

LooksAtAnthropic(s) ==
    /\ pc[s] = "ended" /\ ~Limit(s)
    /\ best' = [best EXCEPT ![s] = Sooner(s, "anthropic")]
    /\ pc' = [pc EXCEPT ![s] = "looking"]
    /\ UNCHANGED <<ticket, handler, attempt, ran, timer, history>>

(* mutant: the wait is the time since the ticket was written.              *)
WaitSince(s) == ticket[Sooner(s, "openai").lane].age
WaitFor(s) == Sooner(s, "openai").left

LooksAtOpenAI(s) ==
    /\ pc[s] = "looking"
    /\ best' = [best EXCEPT ![s] = Sooner(s, "openai")]
    /\ IF Sooner(s, "openai").left = 0
       THEN pc' = [pc EXCEPT ![s] = "done"] /\ UNCHANGED timer
       ELSE /\ pc' = [pc EXCEPT ![s] = "waiting"]
            /\ timer' = [timer EXCEPT ![s] = WaitFor(s)]
    /\ UNCHANGED <<ticket, handler, attempt, ran, history>>

(* ConsumeTicket removes whatever is there by now, and the session goes on *)
(* whether or not it could.                                                *)
Consumes(l) ==
    \/ /\ ticket' = [ticket EXCEPT ![l] = NoTicket]
       /\ handler' = [c \in Clients |-> IF LaneOf[c] = l
                                         THEN [left |-> handler[c].left, linked |-> FALSE]
                                         ELSE handler[c]]
    \/ "disk" \in Events /\ UNCHANGED <<ticket, handler>>

Resumes(s) ==
    /\ pc[s] = "waiting" /\ timer[s] = 0
    /\ Consumes(best[s].lane)
    /\ Starts(s, attempt[s] + 1)
    /\ best' = [best EXCEPT ![s] = Unseen]
    /\ UNCHANGED timer

(* Ctrl-C.                                                                 *)
Interrupted(s) ==
    /\ pc[s] \in {"running", "waiting"} /\ handler[s] = Idle
    /\ pc' = [pc EXCEPT ![s] = "done"]
    /\ timer' = [timer EXCEPT ![s] = 0]
    /\ UNCHANGED <<ticket, handler, attempt, ran, best, history>>

-----------------------------------------------------------------------------
(* A tick is far longer than a file operation.                             *)
Tick ==
    /\ \A s \in Runs : pc[s] \notin {"ended", "looking"}
    /\ \A c \in Clients : handler[c] = Idle
    /\ ticket' = [l \in Lanes |-> IF ticket[l].file = "whole"
                                  THEN Aged(ticket[l]) ELSE ticket[l]]
    /\ ran' = [s \in Runs |-> Older(ran[s])]
    /\ timer' = [s \in Runs |-> Down(timer[s])]
    /\ due' = [s \in Runs |-> Down(due[s])]
    /\ UNCHANGED <<handler, pc, attempt, best, told>>

Supervise(s) == AtLimit(s) \/ LooksAtAnthropic(s) \/ LooksAtOpenAI(s) \/ Resumes(s)

Next ==
    \/ \E c \in Clients : Refuses(c) \/ Answers(c)
    \/ \E s \in Runs : Launch(s) \/ ChildExits(s) \/ Supervise(s) \/ Interrupted(s)
    \/ Tick

Spec == Init /\ [][Next]_vars

(* Handlers and supervisors run, and time passes whatever clients ask.     *)
FairSpec ==
    /\ Spec
    /\ \A s \in Runs : WF_vars(Supervise(s))
    /\ \A c \in Clients : WF_vars(Answers(c))
    /\ SF_vars(Tick)

-----------------------------------------------------------------------------
(* Properties.                                                             *)

\* The variables have their types; a supervisor waits only for a ticket.
TypeOK ==
    /\ ticket \in [Lanes -> Tickets] /\ handler \in [Clients -> Handlers]
    /\ pc \in [Runs -> {"idle", "running", "ended", "looking", "waiting", "done"}]
    /\ attempt \in [Runs -> 0 .. MaxResumes] /\ ran \in [Runs -> Ages]
    /\ best \in [Runs -> [lane : Lanes, left : Ages]] /\ timer \in [Runs -> Ages]
    /\ told \in [Runs -> BOOLEAN] /\ due \in [Runs -> Ages]
    /\ \A s \in Runs : pc[s] = "waiting" => best[s].left > 0

\* A session is resumed only if it was itself refused: the ticket it acts on
\* belongs to this run (ticket.go PendingSince).
ResumeMeansRefused ==
    [][\A s \in Runs : pc[s] = "waiting" /\ pc'[s] = "running" => told[s]]_vars

\* It is resumed only when the reset it was told of has passed: sooner, the
\* first request would be refused again (ticket.go Ticket.Until, run.go Run).
NeverResumedEarly ==
    [][\A s \in Runs : pc[s] = "waiting" /\ pc'[s] = "running" => due[s] = 0]_vars

\* A supervisor that finds no ticket and gives up leaves no session behind that
\* was refused and has its reset ahead (run.go: "the CLI exited for its own reasons").
GivesUpOnOwnExit ==
    [][\A s \in Runs : pc[s] = "looking" /\ pc'[s] = "done" => due[s] = 0]_vars

\* A session that ended over a refusal is resumed, unless it has been resumed
\* as often as allowed or its user stops waiting (run.go Run).
RefusedIsResumed ==
    \A s \in Runs :
        (pc[s] = "ended" /\ due[s] > 0 /\ attempt[s] < MaxResumes)
            ~> \/ pc[s] = "running" /\ attempt[s] > 0
               \/ pc[s] = "done" /\ best[s].left > 0
=============================================================================
