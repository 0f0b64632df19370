--------------------------- MODULE HandoffProofs ----------------------------
(***************************************************************************)
(* Theorems about Handoff, for any sessions, resets, grace and limit.      *)
(***************************************************************************)
EXTENDS Handoff, TLAPS

-----------------------------------------------------------------------------
\* The clocks stay within their bounds.
LEMMA Clocks ==
  /\ \A n \in Ages : Older(n) \in Ages /\ Down(n) \in Ages /\ n <= Older(n)
  /\ 0 \in Ages /\ \A d \in Resets : d \in Ages /\ d > 0
<1> USE HandoffAssumption DEF Ages, Older, Down, Min
<1> QED OBVIOUS

\* What a ticket file may hold at any moment is a ticket.
LEMMA TicketsAreTyped ==
  /\ NoTicket \in Tickets /\ Torn \in Tickets /\ \A d \in Ages : Written(d) \in Tickets
  /\ \A t \in Tickets : Aged(t) \in Tickets
  BY Clocks DEF Aged, Tickets, NoTicket, Torn, Written

\* The soonest ticket so far is one of this lane, or the one before.
LEMMA SoonerIsTyped ==
  ASSUME TypeOK, NEW s \in Runs, NEW l \in Lanes
  PROVE  Sooner(s, l) \in [lane : Lanes, left : Ages]
<1>1. ticket[l] \in Tickets
  BY DEF TypeOK
<1> QED BY <1>1 DEF TypeOK, Sooner, Tickets

\* A supervisor that looks or waits has a resume left.
Typed == TypeOK /\ \A s \in Runs : pc[s] \in {"looking", "waiting"} => attempt[s] < MaxResumes

\* Every step keeps the types.
LEMMA TypedKept == Typed /\ [Next]_vars => Typed'
<1> SUFFICES ASSUME Typed, [Next]_vars PROVE Typed'
  OBVIOUS
<1> USE DEF Typed, TypeOK, supervisors, history
<1>0. /\ {"anthropic", "openai"} = Lanes /\ Runs \subseteq Clients
      /\ \A c \in Clients : LaneOf[c] \in Lanes
      /\ MaxResumes \in Nat
  BY HandoffAssumption DEF Lanes, Clients
<1>1. ASSUME NEW c \in Clients, Refuses(c) PROVE Typed'
  <2>1. handler' \in [Clients -> Handlers]
    BY <1>1, Clocks DEF Refuses, Handlers
  <2>2. ticket' \in [Lanes -> Tickets]
    BY <1>0, <1>1, TicketsAreTyped DEF Refuses
  <2> QED BY <1>1, <2>1, <2>2 DEF Refuses
<1>2. ASSUME NEW c \in Clients, Answers(c) PROVE Typed'
  <2>1. handler[c].left \in Ages /\ Idle \in Handlers
    BY Clocks DEF Handlers, Idle
  <2>2. handler' \in [Clients -> Handlers]
    BY <1>2, <2>1 DEF Answers
  <2>3. ticket' \in [Lanes -> Tickets]
    <3>1. PICK t \in Tickets : ticket' = ticket \/ ticket' = [ticket EXCEPT ![LaneOf[c]] = t]
      <4>1. Written(handler[c].left) \in Tickets /\ Torn \in Tickets
        BY <2>1, TicketsAreTyped
      <4> QED BY <1>2, <4>1 DEF Answers, Fills
    <3> QED BY <1>0, <3>1
  <2>4. told' \in [Runs -> BOOLEAN] /\ due' \in [Runs -> Ages]
    BY <1>2, <2>1 DEF Answers
  <2> QED BY <1>2, <2>2, <2>3, <2>4 DEF Answers
<1>3. ASSUME NEW s \in Runs, Launch(s) PROVE Typed'
  BY <1>0, <1>3, Clocks DEF Launch, Starts, Unseen
<1>4. ASSUME NEW s \in Runs, ChildExits(s) \/ AtLimit(s) PROVE Typed'
  BY <1>4 DEF ChildExits, AtLimit
<1>5. ASSUME NEW s \in Runs, Interrupted(s) PROVE Typed'
  BY <1>5, Clocks DEF Interrupted
<1>6. ASSUME NEW s \in Runs, LooksAtAnthropic(s) PROVE Typed'
  <2>1. Sooner(s, "anthropic") \in [lane : Lanes, left : Ages]
    BY <1>0, SoonerIsTyped
  <2>2. attempt[s] < MaxResumes
    BY <1>0, <1>6 DEF LooksAtAnthropic, Limit
  <2> QED BY <1>6, <2>1, <2>2 DEF LooksAtAnthropic
<1>7. ASSUME NEW s \in Runs, LooksAtOpenAI(s) PROVE Typed'
  <2>1. Sooner(s, "openai") \in [lane : Lanes, left : Ages]
    BY <1>0, SoonerIsTyped
  <2>2. CASE Sooner(s, "openai").left = 0
    BY <1>7, <2>1, <2>2 DEF LooksAtOpenAI
  <2>3. CASE Sooner(s, "openai").left # 0
    <3>1. Sooner(s, "openai").left > 0
      BY <2>1, <2>3 DEF Ages
    <3> QED BY <1>7, <2>1, <2>3, <3>1 DEF LooksAtOpenAI, WaitFor
  <2> QED BY <2>2, <2>3
<1>8. ASSUME NEW s \in Runs, Resumes(s) PROVE Typed'
  <2>1. ticket' \in [Lanes -> Tickets]
    BY <1>0, <1>8, TicketsAreTyped DEF Resumes, Consumes
  <2>2. handler' \in [Clients -> Handlers]
    <3>1. \A c \in Clients : [left |-> handler[c].left, linked |-> FALSE] \in Handlers
      BY DEF Handlers
    <3> QED BY <1>8, <3>1 DEF Resumes, Consumes
  <2>3. attempt[s] + 1 \in 0 .. MaxResumes
    BY <1>0, <1>8 DEF Resumes
  <2> QED BY <1>0, <1>8, <2>1, <2>2, <2>3, Clocks DEF Resumes, Starts, Unseen
<1>9. CASE Tick
  <2>1. ticket' \in [Lanes -> Tickets]
    BY <1>9, TicketsAreTyped DEF Tick
  <2>2. ran' \in [Runs -> Ages] /\ timer' \in [Runs -> Ages] /\ due' \in [Runs -> Ages]
    BY <1>9, Clocks DEF Tick
  <2> QED BY <1>9, <2>1, <2>2 DEF Tick
<1>10. CASE UNCHANGED vars
  BY <1>10 DEF vars
<1> QED BY <1>1, <1>2, <1>3, <1>4, <1>5, <1>6, <1>7, <1>8, <1>9, <1>10 DEF Next, Supervise

\* They hold at first.
LEMMA TypedAtFirst == Init => Typed
<1> SUFFICES ASSUME Init PROVE Typed
  OBVIOUS
<1>1. Idle \in Handlers /\ Unseen \in [lane : Lanes, left : Ages]
  BY Clocks DEF Idle, Handlers, Unseen, Lanes
<1>2. 0 \in 0 .. MaxResumes
  BY HandoffAssumption
<1> QED BY <1>1, <1>2, Clocks, TicketsAreTyped DEF Init, Typed, TypeOK

\* Every reachable state is well typed, a supervisor waits only for a ticket and
\* resumes no more than it may (ticket.go, run.go Run).
THEOREM HandoffTyped == Spec => []TypeOK
<1>1. Typed => TypeOK
  BY DEF Typed
<1> QED BY <1>1, TypedAtFirst, TypedKept, PTL DEF Spec

-----------------------------------------------------------------------------
\* One session, whose tickets nobody else writes or consumes: once it was
\* refused, its lane's ticket is about that refusal, and what it has found or
\* waits for is that ticket; a ticket from before its start is too old to count.
Told(s) == told[s] /\ pc[s] \in {"running", "ended", "looking", "waiting"}

OwnTicket(s) ==
    LET t == ticket[LaneOf[s]]
    IN  /\ \A l \in Lanes \ {LaneOf[s]} : ticket[l] = NoTicket
        /\ pc[s] = "idle" => t = NoTicket
        /\ t.left > 0 => t.file = "whole" /\ t.left + t.age <= MaxAge
        /\ handler[s] # Idle =>
             handler[s].linked /\ handler[s].left > 0 /\ t = Torn /\ pc[s] = "running"
        /\ Told(s) /\ handler[s] = Idle => t.left = due[s] /\ t.age <= ran[s]
        /\ ~told[s] /\ pc[s] \in {"running", "ended", "looking"} /\ t.left > 0 => t.age > ran[s] + Grace

OwnWait(s) ==
    /\ due[s] > 0 => told[s]
    /\ pc[s] \in {"running", "ended"} => best[s] = Unseen
    /\ pc[s] = "looking" /\ best[s].left > 0 => best[s].left = due[s] /\ told[s] /\ best[s].lane = LaneOf[s]
    /\ pc[s] = "looking" /\ LaneOf[s] = "anthropic" => best[s].left = due[s]
    /\ pc[s] = "waiting" => told[s] /\ timer[s] = due[s] /\ best[s].lane = LaneOf[s]

Solitary(s) == Typed /\ OwnTicket(s) /\ OwnWait(s)

\* Nobody else writes or consumes tickets, and the disk does not fail.
OnItsOwn(s) == Runs = {s} /\ Bare = {} /\ "disk" \notin Events

\* A session on its own counts its lane's ticket exactly if it was refused and
\* the reset is ahead, and never another lane's.
LEMMA CountsOwn ==
  ASSUME NEW s \in Runs, Solitary(s), pc[s] \in {"ended", "looking"}, NEW l \in Lanes
  PROVE  /\ Counts(s, l) <=> l = LaneOf[s] /\ due[s] > 0
         /\ Counts(s, l) => ticket[l].left = due[s]
         /\ due[s] \in Nat /\ (due[s] > 0 => told[s])
<1>1. /\ s \in Clients /\ LaneOf[s] \in Lanes /\ Grace \in Nat
      /\ ticket[l] \in Tickets /\ due[s] \in Ages /\ ran[s] \in Ages
  BY HandoffAssumption DEF Clients, Solitary, Typed, TypeOK
<1>2. handler[s] = Idle
  BY DEF Solitary, OwnTicket
<1>3. CASE l # LaneOf[s]
  BY <1>1, <1>3 DEF Solitary, OwnTicket, OwnWait, Counts, NoTicket, Ages
<1>4. CASE l = LaneOf[s] /\ told[s]
  <2>1. ticket[l].left = due[s] /\ ticket[l].age <= ran[s] /\ (ticket[l].left > 0 => ticket[l].file = "whole")
    BY <1>2, <1>4 DEF Solitary, OwnTicket, Told
  <2> QED BY <1>1, <1>4, <2>1 DEF Counts, Tickets, Ages
<1>5. CASE l = LaneOf[s] /\ ~told[s]
  <2>1. ticket[l].left > 0 => ticket[l].age > ran[s] + Grace
    BY <1>5 DEF Solitary, OwnTicket
  <2>2. ~(due[s] > 0)
    BY <1>5 DEF Solitary, OwnWait
  <2>3. ~Counts(s, l)
    BY <1>1, <2>1 DEF Counts, Tickets, Ages
  <2> QED BY <1>1, <2>2, <2>3 DEF Ages
<1> QED BY <1>3, <1>4, <1>5

\* Every step of a session on its own keeps the invariant.
LEMMA SolitaryKept ==
  ASSUME NEW s, OnItsOwn(s), Solitary(s), [Next]_vars
  PROVE  Solitary(s)'
<1> DEFINE l == LaneOf[s]
           t == ticket[l]
<1>0. Typed'
  BY TypedKept DEF Solitary
<1>1. /\ Runs = {s} /\ Clients = {s} /\ l \in Lanes /\ Grace \in Nat /\ MaxAge \in Nat
      /\ "disk" \notin Events /\ Idle \in Handlers
  BY HandoffAssumption, Clocks DEF OnItsOwn, Clients, Idle, Handlers
<1>2. /\ ticket \in [Lanes -> Tickets] /\ handler \in [Clients -> Handlers] /\ handler[s] \in Handlers
      /\ pc \in [Runs -> {"idle", "running", "ended", "looking", "waiting", "done"}]
      /\ t \in Tickets /\ ran \in [Runs -> Ages] /\ ran[s] \in Ages
      /\ best \in [Runs -> [lane : Lanes, left : Ages]] /\ best[s] \in [lane : Lanes, left : Ages]
      /\ timer \in [Runs -> Ages] /\ told \in [Runs -> BOOLEAN]
      /\ due \in [Runs -> Ages] /\ due[s] \in Ages
  BY <1>1 DEF Solitary, Typed, TypeOK
<1>3. OwnTicket(s) /\ OwnWait(s)
  BY DEF Solitary
<1> SUFFICES OwnTicket(s)' /\ OwnWait(s)'
  BY <1>0 DEF Solitary
<1> USE DEF supervisors, history
<1>4. ASSUME Refuses(s) PROVE OwnTicket(s)' /\ OwnWait(s)'
  <2>1. PICK d \in Resets : handler' = [handler EXCEPT ![s] = [left |-> d, linked |-> TRUE]]
    BY <1>4 DEF Refuses
  <2>2. /\ handler'[s] = [left |-> d, linked |-> TRUE] /\ d > 0 /\ handler'[s] # Idle
        /\ ticket' = [ticket EXCEPT ![l] = Torn] /\ pc[s] = "running"
    BY <1>1, <1>2, <1>4, <2>1, Clocks DEF Refuses, Talks, Idle
  <2>3. OwnTicket(s)'
    BY <1>1, <1>2, <1>3, <1>4, <2>2 DEF Refuses, OwnTicket, Told, Torn
  <2> QED BY <1>3, <1>4, <2>3 DEF Refuses, OwnWait
<1>5. ASSUME Answers(s) PROVE OwnTicket(s)' /\ OwnWait(s)'
  <2>1. handler[s].linked /\ handler[s].left > 0 /\ t = Torn /\ pc[s] = "running"
    BY <1>3, <1>5 DEF Answers, OwnTicket
  <2>2. ticket' = [ticket EXCEPT ![l] = Written(handler[s].left)] /\ handler'[s] = Idle
    BY <1>1, <1>2, <1>5, <2>1 DEF Answers, Fills, Torn
  <2>3. /\ ticket'[l] = Written(handler[s].left) /\ pc' = pc /\ ran' = ran /\ best' = best /\ timer' = timer
        /\ told'[s] = TRUE /\ due'[s] = handler[s].left /\ handler[s].left \in Ages
        /\ \A m \in Lanes \ {l} : ticket'[m] = ticket[m]
    BY <1>1, <1>2, <1>5, <2>2 DEF Answers, Handlers
  <2>4. OwnTicket(s)'
    BY <1>1, <1>2, <1>3, <2>1, <2>2, <2>3 DEF OwnTicket, Told, Written, Ages
  <2> QED BY <1>3, <2>1, <2>3, <2>4 DEF OwnWait
<1>6. ASSUME Launch(s) PROVE OwnTicket(s)' /\ OwnWait(s)'
  <2>1. /\ ticket' = ticket /\ handler' = handler /\ pc'[s] = "running" /\ ran'[s] = 0
        /\ told'[s] = FALSE /\ due'[s] = 0 /\ best'[s] = Unseen
    BY <1>1, <1>2, <1>6 DEF Launch, Starts
  <2>2. handler[s] = Idle
    BY <1>3, <1>6 DEF Launch, OwnTicket
  <2>3. t.left > 0 => t.age > Grace
    BY <1>1, <1>3, <1>6 DEF Launch, OwnTicket, NoTicket
  <2> QED BY <1>1, <1>3, <2>1, <2>2, <2>3 DEF OwnTicket, OwnWait, Told
<1>7. ASSUME ChildExits(s) \/ AtLimit(s) \/ Interrupted(s) PROVE OwnTicket(s)' /\ OwnWait(s)'
  <2>1. /\ UNCHANGED <<ticket, handler, ran, best, history>> /\ handler[s] = Idle
        /\ pc'[s] = "done" \/ (pc[s] = "running" /\ pc'[s] = "ended")
    <3>1. UNCHANGED <<ticket, handler, ran, best, history>>
      BY <1>7 DEF ChildExits, AtLimit, Interrupted
    <3>2. pc[s] \in {"running", "ended", "waiting"} /\ handler[s] = Idle
      BY <1>3, <1>7 DEF ChildExits, AtLimit, Interrupted, OwnTicket
    <3>3. pc'[s] = "done" \/ (pc[s] = "running" /\ pc'[s] = "ended")
      BY <1>1, <1>2, <1>7 DEF ChildExits, AtLimit, Interrupted
    <3> QED BY <3>1, <3>2, <3>3
  <2> QED BY <1>3, <2>1 DEF OwnTicket, OwnWait, Told
<1>8. ASSUME LooksAtAnthropic(s) PROVE OwnTicket(s)' /\ OwnWait(s)'
  <2>1. /\ UNCHANGED <<ticket, handler, ran, timer, history>> /\ pc[s] = "ended" /\ pc'[s] = "looking"
        /\ best'[s] = Sooner(s, "anthropic") /\ best[s] = Unseen
    BY <1>1, <1>2, <1>3, <1>8 DEF LooksAtAnthropic, OwnWait
  <2>2. /\ Counts(s, "anthropic") <=> "anthropic" = l /\ due[s] > 0
        /\ Counts(s, "anthropic") => ticket["anthropic"].left = due[s]
        /\ due[s] \in Nat /\ (due[s] > 0 => told[s])
    BY <1>1, <2>1, CountsOwn DEF Lanes
  <2>3. OwnTicket(s)'
    BY <1>3, <2>1 DEF OwnTicket, Told
  <2>4. OwnWait(s)'
    BY <1>3, <2>1, <2>2 DEF OwnWait, Sooner, Unseen
  <2> QED BY <2>3, <2>4
<1>9. ASSUME LooksAtOpenAI(s) PROVE OwnTicket(s)' /\ OwnWait(s)'
  <2>1. /\ UNCHANGED <<ticket, handler, ran, history>> /\ pc[s] = "looking"
        /\ best'[s] = Sooner(s, "openai")
        /\ \/ pc'[s] = "done"
           \/ pc'[s] = "waiting" /\ Sooner(s, "openai").left # 0 /\ timer'[s] = Sooner(s, "openai").left
    BY <1>1, <1>2, <1>9 DEF LooksAtOpenAI, WaitFor
  <2>2. /\ Counts(s, "openai") <=> "openai" = l /\ due[s] > 0
        /\ Counts(s, "openai") => ticket["openai"].left = due[s]
        /\ due[s] \in Nat /\ (due[s] > 0 => told[s])
    BY <1>1, <2>1, CountsOwn DEF Lanes
  <2>3. OwnTicket(s)'
    BY <1>3, <2>1 DEF OwnTicket, Told
  <2>4. Sooner(s, "openai").left # 0 => /\ Sooner(s, "openai").left = due[s]
                                        /\ told[s] /\ Sooner(s, "openai").lane = l
    BY <1>2, <1>3, <2>1, <2>2 DEF OwnWait, Sooner, Ages
  <2> QED BY <1>3, <2>1, <2>2, <2>3, <2>4 DEF OwnWait
<1>10. ASSUME Resumes(s) PROVE OwnTicket(s)' /\ OwnWait(s)'
  <2>1. /\ pc'[s] = "running" /\ told'[s] = FALSE /\ due'[s] = 0 /\ best'[s] = Unseen
        /\ pc[s] = "waiting"
    BY <1>1, <1>2, <1>10 DEF Resumes, Starts
  <2>2. best[s].lane = l /\ handler[s] = Idle
    BY <1>3, <2>1 DEF OwnWait, OwnTicket
  <2>3. ticket' = [ticket EXCEPT ![l] = NoTicket] /\ handler'[s] = Idle
    <3>1. Consumes(l) /\ s \in Clients
      BY <1>1, <1>10, <2>2 DEF Resumes
    <3>2. /\ ticket' = [ticket EXCEPT ![l] = NoTicket]
          /\ handler' = [c \in Clients |-> IF LaneOf[c] = l THEN [left |-> handler[c].left, linked |-> FALSE]
                                                          ELSE handler[c]]
      BY <1>1, <3>1 DEF Consumes
    <3>3. handler'[s] = [left |-> handler[s].left, linked |-> FALSE]
      BY <3>1, <3>2
    <3>4. Idle.left = 0
      BY DEF Idle
    <3>5. handler'[s] = [left |-> 0, linked |-> FALSE]
      BY <2>2, <3>3, <3>4
    <3> QED BY <3>2, <3>5 DEF Idle
  <2>4. OwnTicket(s)'
    BY <1>1, <1>2, <1>3, <2>1, <2>3 DEF OwnTicket, Told, NoTicket
  <2> QED BY <2>1, <2>4 DEF OwnWait
<1>11. ASSUME Tick PROVE OwnTicket(s)' /\ OwnWait(s)'
  <2>1. /\ UNCHANGED <<handler, pc, best, told>> /\ handler[s] = Idle /\ pc[s] \notin {"ended", "looking"}
        /\ ran'[s] = Older(ran[s]) /\ timer'[s] = Down(timer[s]) /\ due'[s] = Down(due[s])
    BY <1>1, <1>11 DEF Tick
  <2>2. /\ \A m \in Lanes \ {l} : ticket'[m] = NoTicket
        /\ t.file # "whole" => ticket'[l] = t
        /\ t.file = "whole" => ticket'[l].file = "whole" /\ ticket'[l].left = Down(t.left) /\ ticket'[l].age = Older(t.age)
    <3>1. \A m \in Lanes : ticket'[m] = IF ticket[m].file = "whole" THEN Aged(ticket[m]) ELSE ticket[m]
      BY <1>11 DEF Tick
    <3>2. \A m \in Lanes \ {l} : ticket[m] = NoTicket /\ ticket[m].file # "whole"
      BY <1>3 DEF OwnTicket, NoTicket
    <3>3. \A m \in Lanes \ {l} : ticket'[m] = NoTicket
      BY <3>1, <3>2
    <3>4. ticket'[l] = IF t.file = "whole" THEN Aged(t) ELSE t
      BY <1>1, <3>1
    <3>5. t.file = "whole" => ticket'[l] = [file |-> "whole", left |-> Down(t.left), age |-> Older(t.age)]
      BY <3>4 DEF Aged
    <3> QED BY <3>3, <3>4, <3>5
  <2>3. OwnTicket(s)'
    <3>1. /\ t.file \in {"none", "torn", "whole"} /\ t.left \in Nat /\ t.age \in Nat /\ t.age <= MaxAge
          /\ ran[s] \in Nat /\ ran[s] <= MaxAge /\ due[s] \in Nat
      BY <1>1, <1>2 DEF Tickets, Ages
    <3>2. ticket'[l].left > 0 => /\ t.left > 0 /\ t.file = "whole" /\ ticket'[l].file = "whole"
                                 /\ t.left + t.age <= MaxAge /\ ticket'[l].left = t.left - 1
                                 /\ ticket'[l].age = t.age + 1
      BY <1>1, <1>3, <2>2, <3>1 DEF OwnTicket, Down, Older, Min
    <3>3. ASSUME Told(s) PROVE ticket'[l].left = due'[s] /\ ticket'[l].age <= ran'[s]
      <4>1. t.left = due[s] /\ t.age <= ran[s] /\ (t.left > 0 => t.file = "whole")
        BY <1>3, <2>1, <3>3 DEF OwnTicket
      <4> QED BY <1>1, <2>1, <2>2, <3>1, <4>1 DEF Down, Older, Min
    <3>4. ran'[s] <= ran[s] + 1 /\ ran'[s] \in Nat
      BY <1>1, <2>1, <3>1 DEF Older, Min
    <3>5. ~told[s] /\ pc[s] = "running" /\ ticket'[l].left > 0 => ticket'[l].age > ran'[s] + Grace
      BY <1>1, <1>3, <3>1, <3>2, <3>4 DEF OwnTicket
    <3>6. pc[s] = "idle" => ticket'[l] = NoTicket
      BY <1>3, <2>2 DEF OwnTicket, NoTicket
    <3> QED BY <1>1, <1>2, <2>1, <2>2, <3>1, <3>2, <3>3, <3>5, <3>6 DEF OwnTicket, Told
  <2>4. OwnWait(s)'
    BY <1>2, <1>3, <2>1 DEF OwnWait, Down, Ages
  <2> QED BY <2>3, <2>4
<1>12. ASSUME UNCHANGED vars PROVE OwnTicket(s)' /\ OwnWait(s)'
  BY <1>3, <1>12 DEF vars, OwnTicket, OwnWait, Told
<1> QED BY <1>1, <1>4, <1>5, <1>6, <1>7, <1>8, <1>9, <1>10, <1>11, <1>12 DEF Next, Supervise, OnItsOwn

\* It holds at first.
LEMMA SolitaryAtFirst == ASSUME NEW s, OnItsOwn(s), Init PROVE Solitary(s)
<1>1. s \in Runs /\ s \in Clients /\ LaneOf[s] \in Lanes
  BY HandoffAssumption DEF OnItsOwn, Clients
<1>2. \A l \in Lanes : ticket[l] = NoTicket
  BY DEF Init
<1>3. handler[s] = Idle /\ pc[s] = "idle" /\ told[s] = FALSE /\ due[s] = 0
  BY <1>1 DEF Init
<1>4. OwnTicket(s)
  BY <1>1, <1>2, <1>3 DEF OwnTicket, Told, NoTicket
<1> QED BY <1>3, <1>4, TypedAtFirst DEF Solitary, OwnWait

\* What the supervisor of a session on its own does follows from it.
LEMMA SolitarySteps ==
  ASSUME NEW s, OnItsOwn(s), Solitary(s), Next
  PROVE  /\ pc[s] = "waiting" /\ pc'[s] = "running" => told[s] /\ due[s] = 0
         /\ pc[s] = "looking" /\ pc'[s] = "done" => due[s] = 0
<1>1. /\ Runs = {s} /\ Clients = {s}
      /\ pc \in [Runs -> {"idle", "running", "ended", "looking", "waiting", "done"}]
  BY DEF OnItsOwn, Clients, Solitary, Typed, TypeOK
<1>2. ASSUME pc[s] = "waiting", pc'[s] = "running" PROVE told[s] /\ due[s] = 0
  <2>1. Resumes(s)
    BY <1>1, <1>2 DEF Next, Supervise, Refuses, Answers, Launch, ChildExits, AtLimit,
                      LooksAtAnthropic, LooksAtOpenAI, Interrupted, Tick, supervisors
  <2> QED BY <1>2, <2>1 DEF Resumes, Solitary, OwnWait
<1>3. ASSUME pc[s] = "looking", pc'[s] = "done" PROVE due[s] = 0
  <2>1. LooksAtOpenAI(s)
    BY <1>1, <1>3 DEF Next, Supervise, Refuses, Answers, Launch, ChildExits, AtLimit,
                      LooksAtAnthropic, Resumes, Interrupted, Tick, supervisors
  <2>2. Sooner(s, "openai").left = 0
    BY <1>1, <1>3, <2>1 DEF LooksAtOpenAI
  <2>3. /\ Counts(s, "openai") <=> "openai" = LaneOf[s] /\ due[s] > 0
        /\ Counts(s, "openai") => ticket["openai"].left = due[s]
        /\ due[s] \in Nat
    BY <1>1, <1>3, CountsOwn DEF Lanes
  <2>4. LaneOf[s] \in Lanes /\ (LaneOf[s] = "anthropic" => best[s].left = due[s])
    BY <1>1, <1>3, HandoffAssumption DEF Solitary, OwnWait
  <2>5. CASE LaneOf[s] = "anthropic"
    BY <2>2, <2>3, <2>4, <2>5 DEF Sooner
  <2>6. CASE LaneOf[s] = "openai"
    BY <1>1, <2>2, <2>3, <2>6 DEF Sooner, Solitary, Typed, TypeOK, Ages
  <2> QED BY <2>4, <2>5, <2>6 DEF Lanes
<1> QED BY <1>2, <1>3

\* A session whose tickets nobody else writes or consumes is resumed only if it
\* was refused, not before the reset it was told of, and is not given up on while
\* that reset is ahead, for any resets, grace and limit (ticket.go, run.go Run).
THEOREM ResumedRightly ==
  ASSUME NEW r
  PROVE  OnItsOwn(r) /\ Spec => ResumeMeansRefused /\ NeverResumedEarly /\ GivesUpOnOwnExit
<1> SUFFICES ASSUME OnItsOwn(r)
             PROVE  Spec => ResumeMeansRefused /\ NeverResumedEarly /\ GivesUpOnOwnExit
  OBVIOUS
<1> DEFINE IInv == Solitary(r)
<1>1. Init => IInv
  BY SolitaryAtFirst
<1>2. IInv /\ [Next]_vars => IInv'
  BY SolitaryKept
<1>3. Runs = {r}
  BY DEF OnItsOwn
<1>4. IInv /\ [Next]_vars =>
        [\A s \in Runs : pc[s] = "waiting" /\ pc'[s] = "running" => told[s]]_vars
  BY <1>3, SolitarySteps
<1>5. IInv /\ [Next]_vars =>
        [\A s \in Runs : pc[s] = "waiting" /\ pc'[s] = "running" => due[s] = 0]_vars
  BY <1>3, SolitarySteps
<1>6. IInv /\ [Next]_vars =>
        [\A s \in Runs : pc[s] = "looking" /\ pc'[s] = "done" => due[s] = 0]_vars
  BY <1>3, SolitarySteps
<1> HIDE DEF IInv
<1> QED BY <1>1, <1>2, <1>4, <1>5, <1>6, PTL
        DEF Spec, ResumeMeansRefused, NeverResumedEarly, GivesUpOnOwnExit

-----------------------------------------------------------------------------
(* Any number of sessions and clients on one lane, resets that never move  *)
(* earlier, a disk that fails: whoever wrote the ticket that a session     *)
(* finds, it is no sooner than the reset the session was told of.          *)
OneLaneForAll == \A c, e \in Clients : LaneOf[c] = LaneOf[e]

\* A client that is being refused is told of no earlier reset than any session
\* was, and of the same as those who are being refused at that moment.
Begins(c) == handler[c] = Idle /\ handler'[c] # Idle
NoEarlierReset == \A c \in Clients : Begins(c) =>
    /\ \A s \in Runs : due[s] <= handler'[c].left
    /\ \A e \in Clients : handler[e] # Idle => handler[e].left = handler'[c].left

\* A ticket written while a handler is at work is that handler's, or one like
\* it: no tick passes, and the handler emptied the file when it began.
TicketOf(c) ==
    LET t == ticket[LaneOf[c]]
    IN  /\ \A l \in Lanes \ {LaneOf[c]} : ticket[l].file = "none"
        /\ handler[c] # Idle =>
             /\ c \in Runs => pc[c] = "running"
             /\ \A e \in Clients : handler[e] # Idle => handler[e].left = handler[c].left
             /\ \A s \in Runs : due[s] <= handler[c].left
             /\ t.file = "whole" => t.left = handler[c].left

\* What a session finds and waits for is no sooner than what it was told.
NoSooner(s) ==
    LET t == ticket[LaneOf[s]]
    IN  /\ t.file = "whole" => t.left >= due[s]
        /\ pc[s] \in {"running", "ended"} => best[s] = Unseen
        /\ pc[s] = "looking" /\ best[s].left > 0 => best[s].left >= due[s]
        /\ pc[s] = "waiting" => timer[s] >= due[s]

Patient == Typed /\ (\A c \in Clients : TicketOf(c)) /\ (\A s \in Runs : NoSooner(s))

\* A session that looks at a lane finds nothing sooner than what it was told.
LEMMA SoonerIsNoSooner ==
  ASSUME Patient, NEW s \in Runs, pc[s] \in {"ended", "looking"}, NEW l \in Lanes,
         Sooner(s, l).left > 0
  PROVE  Sooner(s, l).left >= due[s]
<1>1. s \in Clients /\ TicketOf(s) /\ NoSooner(s)
  BY DEF Patient, Clients
<1>2. ASSUME Counts(s, l) PROVE ticket[l].left >= due[s]
  BY <1>1, <1>2 DEF Counts, TicketOf, NoSooner
<1>3. best[s].left > 0 => best[s].left >= due[s]
  BY <1>1 DEF NoSooner, Unseen
<1> QED BY <1>2, <1>3 DEF Sooner

\* Every step keeps it.
LEMMA PatientKept ==
  ASSUME OneLaneForAll, Patient, [Next /\ NoEarlierReset]_vars
  PROVE  Patient'
<1>0. Typed' /\ Typed
  BY TypedKept DEF Patient
<1>1. /\ Runs \subseteq Clients /\ MaxAge \in Nat /\ \A c \in Clients : LaneOf[c] \in Lanes
      /\ \A d \in Resets : d \in Ages /\ d > 0
  BY HandoffAssumption, Clocks DEF Clients, Ages
<1>2. /\ ticket \in [Lanes -> Tickets] /\ handler \in [Clients -> Handlers]
      /\ pc \in [Runs -> {"idle", "running", "ended", "looking", "waiting", "done"}]
      /\ best \in [Runs -> [lane : Lanes, left : Ages]] /\ timer \in [Runs -> Ages]
      /\ told \in [Runs -> BOOLEAN] /\ due \in [Runs -> Ages]
  BY <1>0 DEF Typed, TypeOK
<1>3. (\A c \in Clients : TicketOf(c)) /\ (\A s \in Runs : NoSooner(s))
  BY DEF Patient
<1>4. \A c, e \in Clients : LaneOf[c] = LaneOf[e]
  BY DEF OneLaneForAll
<1> SUFFICES (\A c \in Clients : TicketOf(c)') /\ (\A s \in Runs : NoSooner(s)')
  BY <1>0 DEF Patient
<1> USE DEF supervisors, history
<1>5. ASSUME NEW c \in Clients, Refuses(c), NoEarlierReset
      PROVE  (\A e \in Clients : TicketOf(e)') /\ (\A s \in Runs : NoSooner(s)')
  <2>1. PICK d \in Resets : handler' = [handler EXCEPT ![c] = [left |-> d, linked |-> TRUE]]
    BY <1>5 DEF Refuses
  <2>2. /\ ticket' = [ticket EXCEPT ![LaneOf[c]] = Torn] /\ Torn.file = "torn"
        /\ UNCHANGED <<pc, best, timer, due>> /\ (c \in Runs => pc[c] = "running")
    BY <1>5 DEF Refuses, Talks, Torn
  <2>3. \A e \in Clients : ticket'[LaneOf[e]].file = "torn"
    BY <1>1, <1>2, <1>4, <2>2
  <2>4. /\ handler'[c].left = d /\ \A e \in Clients \ {c} : handler'[e] = handler[e]
        /\ \A s \in Runs : due[s] <= d
        /\ \A e \in Clients : handler[e] # Idle => handler[e].left = d
    <3>1. handler'[c] = [left |-> d, linked |-> TRUE] /\ handler[c] = Idle
      BY <1>2, <1>5, <2>1 DEF Refuses
    <3>2. Begins(c) /\ handler'[c].left = d
      BY <3>1 DEF Begins, Idle
    <3> QED BY <1>2, <1>5, <2>1, <3>2 DEF NoEarlierReset
  <2>5. \A l \in Lanes : \A e \in Clients : l # LaneOf[e] => ticket'[l].file = "none"
    BY <1>1, <1>2, <1>3, <1>4, <2>2 DEF TicketOf
  <2>6. ASSUME NEW e \in Clients PROVE TicketOf(e)'
    <3>1. handler'[e] # Idle => handler'[e].left = d
      BY <2>4
    <3>2. \A f \in Clients : handler'[f] # Idle => handler'[f].left = d
      BY <2>4
    <3>3. e \in Runs /\ handler'[e] # Idle => pc'[e] = "running"
      BY <1>3, <2>2, <2>4 DEF TicketOf
    <3> QED BY <2>2, <2>3, <2>4, <2>5, <3>1, <3>2, <3>3 DEF TicketOf
  <2>7. \A s \in Runs : NoSooner(s)'
    BY <1>1, <1>3, <2>2, <2>3 DEF NoSooner
  <2> QED BY <2>6, <2>7
<1>6. ASSUME NEW c \in Clients, Answers(c)
      PROVE  (\A e \in Clients : TicketOf(e)') /\ (\A s \in Runs : NoSooner(s)')
  <2> DEFINE d == handler[c].left
  <2>1. /\ handler[c] # Idle /\ (c \in Runs => pc[c] = "running")
        /\ \A e \in Clients : handler[e] # Idle => handler[e].left = d
        /\ \A s \in Runs : due[s] <= d
        /\ ticket[LaneOf[c]].file = "whole" => ticket[LaneOf[c]].left = d
        /\ UNCHANGED <<pc, best, timer>> /\ handler' = [handler EXCEPT ![c] = Idle]
    BY <1>3, <1>6 DEF Answers, TicketOf
  <2>2. \A s \in Runs : due'[s] = due[s] \/ (s = c /\ due'[s] = d)
    BY <1>2, <1>6 DEF Answers
  <2>3. /\ \A l \in Lanes \ {LaneOf[c]} : ticket'[l] = ticket[l]
        /\ ticket'[LaneOf[c]].file = "whole" => ticket'[LaneOf[c]].left = d \/ ticket' = ticket
    BY <1>1, <1>2, <1>6, <2>1 DEF Answers, Fills, Written, Torn
  <2>4. /\ ticket'[LaneOf[c]].file = "whole" => ticket'[LaneOf[c]].left = d
        /\ d \in Nat /\ \A s \in Runs : due'[s] <= d
    BY <1>2, <2>1, <2>2, <2>3 DEF Handlers, Ages
  <2>5. ASSUME NEW e \in Clients PROVE TicketOf(e)'
    <3>1. \A f \in Clients : handler'[f] # Idle => f # c /\ handler[f] # Idle /\ handler'[f].left = d
      BY <1>2, <2>1
    <3>2. e \in Runs /\ handler'[e] # Idle => pc'[e] = "running"
      BY <1>3, <2>1, <3>1 DEF TicketOf
    <3>3. \A l \in Lanes \ {LaneOf[e]} : ticket'[l].file = "none"
      BY <1>3, <1>4, <2>3 DEF TicketOf
    <3>4. LaneOf[e] = LaneOf[c]
      BY <1>4
    <3> QED BY <2>4, <3>1, <3>2, <3>3, <3>4 DEF TicketOf
  <2>6. ASSUME NEW s \in Runs PROVE NoSooner(s)'
    <3>1. LaneOf[s] = LaneOf[c] /\ due'[s] \in Nat
      BY <1>1, <1>2, <1>4, <2>2, <2>4 DEF Ages
    <3>2. due'[s] # due[s] => pc'[s] = "running"
      BY <2>1, <2>2
    <3> QED BY <1>3, <2>1, <2>4, <3>1, <3>2 DEF NoSooner
  <2> QED BY <2>5, <2>6
<1>7. ASSUME NEW s \in Runs, NEW n, Starts(s, n), best' = [best EXCEPT ![s] = Unseen], UNCHANGED timer,
             pc[s] # "running",
             \A e \in Clients : handler'[e] # Idle => handler[e] # Idle /\ handler'[e].left = handler[e].left,
             \A l \in Lanes : ticket'[l] = ticket[l] \/ ticket'[l].file = "none"
      PROVE  (\A e \in Clients : TicketOf(e)') /\ (\A u \in Runs : NoSooner(u)')
  <2>1. /\ \A u \in Runs \ {s} : pc'[u] = pc[u] /\ due'[u] = due[u] /\ best'[u] = best[u]
        /\ pc'[s] = "running" /\ due'[s] = 0 /\ best'[s] = Unseen
    BY <1>2, <1>7 DEF Starts
  <2>2. \A e \in Clients : TicketOf(e)'
    <3>1. \A u \in Runs : due[u] \in Nat /\ due'[u] <= due[u] /\ due'[u] \in Nat
      BY <1>2, <2>1 DEF Ages
    <3>2. \A e \in Clients : handler[e].left \in Nat
      BY <1>2 DEF Handlers, Ages
    <3>3. \A u \in Runs : \A e \in Clients : handler[e] # Idle => due'[u] <= handler[e].left
      BY <1>3, <3>1, <3>2 DEF TicketOf
    <3>4. \A e \in Runs : handler[e] # Idle => pc'[e] = "running"
      BY <1>1, <1>3, <1>7, <2>1 DEF TicketOf
    <3> QED BY <1>1, <1>3, <1>7, <3>3, <3>4 DEF TicketOf
  <2>3. ASSUME NEW u \in Runs PROVE NoSooner(u)'
    <3>1. LaneOf[u] \in Lanes /\ ticket[LaneOf[u]].left \in Nat /\ due[u] \in Nat /\ due'[u] <= due[u] /\ due'[u] \in Nat
      BY <1>1, <1>2, <2>1 DEF Tickets, Ages
    <3>2. ticket'[LaneOf[u]].file = "whole" => ticket'[LaneOf[u]].left >= due'[u]
      BY <1>1, <1>3, <1>7, <3>1 DEF NoSooner, Ages
    <3> QED BY <1>3, <1>7, <2>1, <3>2 DEF NoSooner
  <2> QED BY <2>2, <2>3
<1>8. ASSUME NEW s \in Runs, Launch(s)
      PROVE  (\A e \in Clients : TicketOf(e)') /\ (\A u \in Runs : NoSooner(u)')
  BY <1>7, <1>8 DEF Launch
<1>9. ASSUME NEW s \in Runs, Resumes(s)
      PROVE  (\A e \in Clients : TicketOf(e)') /\ (\A u \in Runs : NoSooner(u)')
  <2>1. Consumes(best[s].lane) /\ best[s].lane \in Lanes
    BY <1>2, <1>9 DEF Resumes
  <2>2. \A l \in Lanes : ticket'[l] = ticket[l] \/ ticket'[l].file = "none"
    BY <1>2, <2>1 DEF Consumes, NoTicket
  <2>3. \A e \in Clients : handler'[e] # Idle => handler[e] # Idle /\ handler'[e].left = handler[e].left
    <3> SUFFICES ASSUME NEW e \in Clients, handler'[e] # Idle
                 PROVE  handler[e] # Idle /\ handler'[e].left = handler[e].left
      OBVIOUS
    <3>1. handler'[e] = handler[e] \/ handler'[e] = [left |-> handler[e].left, linked |-> FALSE]
      BY <2>1 DEF Consumes
    <3>2. handler[e] = Idle => [left |-> handler[e].left, linked |-> FALSE] = Idle
      BY DEF Idle
    <3>3. [left |-> handler[e].left, linked |-> FALSE].left = handler[e].left
      OBVIOUS
    <3>4. handler[e] # Idle
      BY <3>1, <3>2
    <3>5. handler'[e].left = handler[e].left
      BY <3>1, <3>3
    <3> QED BY <3>4, <3>5
  <2> QED BY <1>7, <1>9, <2>2, <2>3 DEF Resumes
<1>10. ASSUME NEW s \in Runs, ChildExits(s) \/ AtLimit(s) \/ Interrupted(s)
       PROVE  (\A e \in Clients : TicketOf(e)') /\ (\A u \in Runs : NoSooner(u)')
  <2>1. /\ UNCHANGED <<ticket, handler, best, due>> /\ (pc[s] = "running" => handler[s] = Idle)
        /\ \A u \in Runs \ {s} : pc'[u] = pc[u] /\ timer'[u] = timer[u]
        /\ pc'[s] = "done" \/ (pc[s] = "running" /\ pc'[s] = "ended" /\ timer'[s] = timer[s])
    BY <1>2, <1>10 DEF ChildExits, AtLimit, Interrupted
  <2>2. \A e \in Clients : TicketOf(e)'
    BY <1>1, <1>2, <1>3, <2>1 DEF TicketOf
  <2>3. \A u \in Runs : NoSooner(u)'
    BY <1>3, <2>1 DEF NoSooner
  <2> QED BY <2>2, <2>3
<1>11. ASSUME NEW s \in Runs, LooksAtAnthropic(s) \/ LooksAtOpenAI(s)
       PROVE  (\A e \in Clients : TicketOf(e)') /\ (\A u \in Runs : NoSooner(u)')
  <2>1. PICK l \in Lanes :
          /\ pc[s] \in {"ended", "looking"} /\ UNCHANGED <<ticket, handler, due>>
          /\ \A u \in Runs \ {s} : pc'[u] = pc[u] /\ timer'[u] = timer[u] /\ best'[u] = best[u]
          /\ best'[s] = Sooner(s, l)
          /\ \/ pc'[s] \in {"looking", "done"}
             \/ pc'[s] = "waiting" /\ Sooner(s, l).left # 0 /\ timer'[s] = Sooner(s, l).left
    <3>1. CASE LooksAtAnthropic(s)
      BY <1>2, <3>1 DEF LooksAtAnthropic, Lanes
    <3>2. CASE LooksAtOpenAI(s)
      BY <1>2, <3>2 DEF LooksAtOpenAI, WaitFor, Lanes
    <3> QED BY <1>11, <3>1, <3>2
  <2>2. Sooner(s, l).left \in Nat /\ (Sooner(s, l).left > 0 => Sooner(s, l).left >= due[s])
    BY <1>0, <2>1, SoonerIsTyped, SoonerIsNoSooner DEF Typed, Ages
  <2>3. \A e \in Clients : TicketOf(e)'
    BY <1>1, <1>3, <2>1 DEF TicketOf
  <2>4. \A u \in Runs : NoSooner(u)'
    BY <1>3, <2>1, <2>2 DEF NoSooner
  <2> QED BY <2>3, <2>4
<1>12. ASSUME Tick PROVE (\A e \in Clients : TicketOf(e)') /\ (\A u \in Runs : NoSooner(u)')
  <2>1. /\ UNCHANGED <<handler, pc, best>> /\ \A e \in Clients : handler[e] = Idle
        /\ \A u \in Runs : /\ pc[u] \notin {"ended", "looking"}
                           /\ timer'[u] = Down(timer[u]) /\ due'[u] = Down(due[u])
    BY <1>12 DEF Tick
  <2>2. \A l \in Lanes : /\ ticket'[l].file = ticket[l].file
                         /\ ticket[l].file = "whole" => ticket'[l].left = Down(ticket[l].left)
    BY <1>12 DEF Tick, Aged
  <2>3. \A e \in Clients : TicketOf(e)'
    BY <1>1, <1>3, <2>1, <2>2 DEF TicketOf
  <2>4. ASSUME NEW u \in Runs PROVE NoSooner(u)'
    <3>1. LaneOf[u] \in Lanes /\ ticket[LaneOf[u]].left \in Nat /\ due[u] \in Nat /\ timer[u] \in Nat
      BY <1>1, <1>2 DEF Tickets, Ages
    <3> QED BY <1>3, <2>1, <2>2, <3>1 DEF NoSooner, Down
  <2> QED BY <2>3, <2>4
<1>13. CASE UNCHANGED vars
  BY <1>3, <1>13 DEF vars, TicketOf, NoSooner
<1> QED BY <1>5, <1>6, <1>8, <1>9, <1>10, <1>11, <1>12, <1>13 DEF Next, Supervise

\* It holds at first.
LEMMA PatientAtFirst == Init => Patient
<1> SUFFICES ASSUME Init PROVE Patient
  OBVIOUS
<1>1. Runs \subseteq Clients /\ \A c \in Clients : LaneOf[c] \in Lanes
  BY HandoffAssumption DEF Clients
<1>2. \A c \in Clients : TicketOf(c)
  BY <1>1 DEF Init, TicketOf, NoTicket
<1>3. \A s \in Runs : NoSooner(s)
  BY <1>1, Clocks DEF Init, NoSooner, NoTicket, Ages
<1> QED BY <1>2, <1>3, TypedAtFirst DEF Patient

\* However many sessions and clients share the lane, as long as resets do not
\* move earlier a session is never resumed before the one it was told of, whoever's
\* ticket it follows and whichever tickets are consumed or cannot be written or
\* removed (ticket.go PendingSince, ConsumeTicket).
THEOREM NeverEarlyTogether ==
  ASSUME OneLaneForAll
  PROVE  Spec /\ [][NoEarlierReset]_vars => NeverResumedEarly
<1>1. Init => Patient
  BY PatientAtFirst
<1>2. Patient /\ [Next]_vars /\ [NoEarlierReset]_vars => Patient'
  BY PatientKept
<1>3. Patient /\ [Next]_vars =>
        [\A s \in Runs : pc[s] = "waiting" /\ pc'[s] = "running" => due[s] = 0]_vars
  <2> SUFFICES ASSUME Patient, Next, NEW s \in Runs, pc[s] = "waiting", pc'[s] = "running"
               PROVE  due[s] = 0
    OBVIOUS
  <2>1. pc \in [Runs -> {"idle", "running", "ended", "looking", "waiting", "done"}] /\ due[s] \in Nat
    BY DEF Patient, Typed, TypeOK, Ages
  <2>2. Resumes(s)
    BY <2>1 DEF Next, Supervise, Refuses, Answers, Launch, Starts, ChildExits, AtLimit, Resumes,
                LooksAtAnthropic, LooksAtOpenAI, Interrupted, Tick, supervisors
  <2> QED BY <2>1, <2>2 DEF Resumes, Patient, NoSooner
<1> QED BY <1>1, <1>2, <1>3, PTL DEF Spec, NeverResumedEarly

=============================================================================
