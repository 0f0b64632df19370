---------------------------- MODULE EngineProofs ----------------------------
(***************************************************************************)
(* Theorems about Engine, for every value of its constants.                *)
(***************************************************************************)
EXTENDS Engine, TLAPS, WellFoundedInduction, NaturalsInduction

\* A set of naturals has a least member: the soonest recovery is some account's.
LEMMA LeastIsLeast ==
    ASSUME NEW S \in SUBSET Nat, S # {}
    PROVE  Least(S) \in S /\ \A n \in S : Least(S) <= n
<1>1. PICK low \in S : \A n \in S : <<n, low>> \notin OpToRel(<, Nat)
  BY NatLessThanWellFounded, WFMin
<1>2. \A n \in S : ~(n < low)
  BY <1>1 DEF OpToRel
<1>3. low \in Nat /\ \A n \in S : n \in Nat
  OBVIOUS
<1>4. \A n \in S : low <= n
  BY <1>2, <1>3
<1> QED BY <1>4 DEF Least

\* The least of two numbers is one of them: what skewAllowance, backoff and
\* the saturating counters return.
LEMMA LeastOfTwo ==
    ASSUME NEW m \in Nat, NEW n \in Nat
    PROVE  Least({m, n}) \in {m, n}
BY LeastIsLeast

\* Whatever accounts are selectable, the store's order has a first one among
\* them: selectAccount never indexes an empty pool (select.go pool[0]).
LEMMA FirstIsSelectable ==
    ASSUME NEW S \in SUBSET Accounts, S # {}
    PROVE  First(S) \in S
<1> DEFINE preferred == IF S \cap OAuth # {} THEN S \cap OAuth ELSE S
<1> DEFINE ranks == {Rank[a] : a \in preferred}
<1>1. preferred # {} /\ preferred \subseteq S /\ preferred \subseteq Accounts
  BY DEF preferred
<1>2. ranks \subseteq Nat /\ ranks # {}
  BY <1>1, IdentityAssumption
<1>3. PICK low \in ranks : \A n \in ranks : low <= n
  <2> HIDE DEF ranks
  <2> QED BY <1>2, LeastIsLeast
<1>4. PICK first \in preferred : Rank[first] = low
  BY <1>3
<1>5. \A b \in S : Precedes(first, b)
  BY <1>1, <1>3, <1>4 DEF Precedes
<1>6. first \in S
  BY <1>1, <1>4
<1> QED BY <1>5, <1>6 DEF First

\* The account selectAccount returns is one of those it found usable: enabled,
\* untried in this round and available.
LEMMA ChoiceIsUsable ==
    ASSUME NEW r \in Requests, Usable(r) # {}, pool \subseteq Accounts
    PROVE  Choice(r) \in Usable(r) /\ Choice(r) \in Accounts
<1> DEFINE candidates == IF Fresh(Usable(r)) # {} THEN Fresh(Usable(r)) ELSE Usable(r)
<1>1. candidates # {} /\ candidates \subseteq Usable(r) /\ Usable(r) \subseteq Accounts
  BY DEF Fresh, Usable
<1>2. First(candidates) \in candidates
  BY <1>1, FirstIsSelectable
<1>3. Choice(r) \in candidates
  BY <1>2 DEF Choice
<1> QED BY <1>1, <1>3

\* A request goes on at once or from a real wait, and only it moves
\* (engine.go Waiter.Wait).
LEMMA WaitingIsTyped ==
    ASSUME TypeOK, NEW r \in Requests, NEW d \in Nat, WaitThenAgain(r, d)
    PROVE  /\ timer' \in [Requests -> Nat]
           /\ pc' \in [Requests -> Running \cup {"idle", "done"}]
           /\ pc'[r] \notin InFlight /\ \A s \in Requests \ {r} : pc'[s] = pc[s]
<1>1. timer \in [Requests -> Nat] /\ pc \in [Requests -> Running \cup {"idle", "done"}]
  BY DEF TypeOK
<1>2. timer' = timer \/ timer' = [timer EXCEPT ![r] = d]
  BY DEF WaitThenAgain, Again
<1>3. pc' = [pc EXCEPT ![r] = "select"] \/ pc' = [pc EXCEPT ![r] = "wait"]
  BY DEF WaitThenAgain, Again, Goto
<1>4. timer' \in [Requests -> Nat]
  BY <1>1, <1>2
<1>5. pc' \in [Requests -> Running \cup {"idle", "done"}]
  BY <1>1, <1>3 DEF Running, Computing
<1>6. pc'[r] \notin InFlight /\ \A s \in Requests \ {r} : pc'[s] = pc[s]
  BY <1>1, <1>3 DEF InFlight
<1> QED BY <1>4, <1>5, <1>6

-----------------------------------------------------------------------------
\* Every reachable state is well typed: Execute, its marks, the reloads and the
\* clock keep every variable within its type (engine.go Execute).
THEOREM TypeCorrect == Spec => []TypeOK
<1>1. Init => TypeOK
  <2> SUFFICES ASSUME Init PROVE TypeOK
    OBVIOUS
  <2>1. {0} \cup RetryAfters \cup Resets \subseteq Nat
    BY UpstreamAssumption
  <2>2. left \in [Accounts -> Nat]
    BY <2>1 DEF Init
  <2>3. pc = [r \in Requests |-> "idle"] /\ \A r \in Requests : pc[r] \notin InFlight
    BY DEF Init, InFlight
  <2> QED BY <2>2, <2>3, UpstreamAssumption
          DEF Init, TypeOK, NoEntry, Results, HealthStates, Running, Computing
<1>2. TypeOK /\ [Next]_vars => TypeOK'
  <2> SUFFICES ASSUME TypeOK, [Next]_vars PROVE TypeOK'
    OBVIOUS
  <2> USE DEF vars, pools, healths, locals, history, Running, Computing, InFlight,
              Results, HealthStates, Goto, Changed, ChangedBy, Judged, Unmoved, Watched
  <2>1. ASSUME NEW r \in Requests, Arrive(r) PROVE TypeOK'
    BY <2>1 DEF TypeOK, Arrive
  <2>2. ASSUME NEW r \in Requests, Select(r) PROVE TypeOK'
    <3>1. Choice(r) \in Accounts
      BY <2>2, ChoiceIsUsable DEF TypeOK, Select
    <3> QED BY <2>2, <3>1 DEF TypeOK, Select
  <2>3. ASSUME NEW r \in Requests, NothingSelectable(r) PROVE TypeOK'
    BY <2>3 DEF TypeOK, NothingSelectable
  <2>4. ASSUME NEW r \in Requests, CannotPark(r) PROVE TypeOK'
    BY <2>4 DEF TypeOK, CannotPark
  <2>5. ASSUME NEW r \in Requests, WaitEnds(r) PROVE TypeOK'
    BY <2>5 DEF TypeOK, WaitEnds
  <2>6. ASSUME NEW r \in Requests, Park(r) PROVE TypeOK'
    <3> DEFINE hold == SoonestRecovery + SkewAllowance(SoonestRecovery)
    <3> HIDE DEF hold
    <3>1. CASE NewRound(r) /\ Goto(r, "select") /\ UNCHANGED <<acct, cred, auth, lag, timer, result, history>>
      BY <2>6, <3>1 DEF TypeOK, Park, NewRound
    <3>2. CASE Return(r, "parktoolong") /\ UNCHANGED moved
      BY <2>6, <3>2 DEF TypeOK, Park, Return
    <3>3. CASE /\ hold \in 1 .. MaxHold
               /\ Goto(r, "parked") /\ timer' = [timer EXCEPT ![r] = hold]
               /\ UNCHANGED <<acct, cred, tried, streak, auth, lag, result, history>>
      BY <2>6, <3>3, ConfigAssumption DEF TypeOK, Park
    <3> QED BY <2>6, <3>1, <3>2, <3>3 DEF Park, hold
  <2>7. ASSUME NEW r \in Requests, Unparks(r) PROVE TypeOK'
    BY <2>7 DEF TypeOK, Unparks, NewRound
  <2>8. ASSUME NEW r \in Requests, Unusable(r) PROVE TypeOK'
    BY <2>8 DEF TypeOK, Unusable, Return
  <2>9. ASSUME NEW r \in Requests, EnsureFreshSucceeds(r) PROVE TypeOK'
    BY <2>9 DEF TypeOK, EnsureFreshSucceeds
  <2>10. ASSUME NEW r \in Requests, EnsureFreshFails(r) PROVE TypeOK'
    BY <2>10 DEF TypeOK, EnsureFreshFails, MarkInvalid, Mark, Skip, Drop, Again
  <2>11. ASSUME NEW r \in Requests, NEW kind, Answered(r, kind) PROVE drain' \in [Accounts -> Nat]
    <3>1. CASE drain' = drain
      BY <3>1 DEF TypeOK
    <3>2. ASSUME NEW d \in {0} \cup Drains, drain' = [drain EXCEPT ![acct[r]] = d]
          PROVE  drain' \in [Accounts -> Nat]
      <4>1. d \in Nat
        BY UpstreamAssumption
      <4> QED BY <3>2, <4>1 DEF TypeOK
    <3> QED BY <2>11, <3>1, <3>2 DEF Answered
  <2>12. ASSUME NEW r \in Requests, Relay(r) PROVE TypeOK'
    BY <2>12, <2>11, IdentityAssumption, ConfigAssumption DEF TypeOK, Relay, Answered, MarkSuccess, Mark, Return
  <2>13. ASSUME NEW r \in Requests, Fatal(r) PROVE TypeOK'
    BY <2>13, <2>11 DEF TypeOK, Fatal, Return
  <2>14. ASSUME NEW r \in Requests, Condemned(r) PROVE TypeOK'
    <3>1. auth' \in [Requests -> [Accounts -> Nat]]
      <4>1. AuthRefreshAttempts + 1 \in Nat /\ auth[r] \in [Accounts -> Nat]
        BY ConfigAssumption DEF TypeOK
      <4>2. [auth[r] EXCEPT ![acct[r]] = AuthRefreshAttempts + 1] \in [Accounts -> Nat]
        BY <4>1
      <4> QED BY <2>14, <4>2 DEF TypeOK, Condemned
    <3>2. acct[r] \in Accounts
      BY <2>14 DEF TypeOK, Condemned, Answered
    <3>3. state' \in [Accounts -> HealthStates] /\ left' \in [Accounts -> Nat]
      BY <2>14, <3>2 DEF TypeOK, Condemned, MarkInvalid, Mark
    <3>4. drain' \in [Accounts -> Nat]
      BY <2>14, <2>11 DEF Condemned
    <3>5. /\ pc' = [pc EXCEPT ![r] = "select"] /\ timer' = timer
          /\ cred' = [cred EXCEPT ![r] = 0] /\ lag' = [lag EXCEPT ![r] = 0] /\ acct' = acct
          /\ tried' = [tried EXCEPT ![r] = @ \cup {acct[r]}]
      BY <2>14 DEF Condemned, Skip, Drop, Again
    <3> QED BY <2>14, <3>1, <3>2, <3>3, <3>4, <3>5 DEF TypeOK, Condemned
  <2>15. ASSUME NEW r \in Requests, Renews(r) PROVE TypeOK'
    <3>1. drain' \in [Accounts -> Nat]
      BY <2>15, <2>11 DEF Renews
    <3>2. pc[r] = "send" /\ acct[r] \in Accounts
      BY <2>15 DEF TypeOK, Renews, Answered
    <3>3. auth' \in [Requests -> [Accounts -> Nat]]
      BY <2>15, <3>2 DEF TypeOK, Renews
    <3> HIDE DEF Changed, ChangedBy, Judged, Unmoved, Watched
    <3> QED BY <2>15, <3>1, <3>2, <3>3 DEF TypeOK, Renews
  <2>16. ASSUME NEW r \in Requests, RenewSucceeds(r) PROVE TypeOK'
    BY <2>16 DEF TypeOK, RenewSucceeds, Drop, Again
  <2>17. ASSUME NEW r \in Requests, RenewFails(r) PROVE TypeOK'
    BY <2>17 DEF TypeOK, RenewFails, MarkInvalid, Mark, Skip, Drop, Again
  <2>18. ASSUME NEW r \in Requests, NEW kind, BacksOff(r, kind) PROVE TypeOK'
    <3>1. Streak(r) \in Nat /\ Least({absorbed[r] + 1, MaxStreak}) \in Nat
      <4>1. streak[r] + 1 \in Nat /\ absorbed[r] + 1 \in Nat /\ MaxStreak \in Nat
        BY UpstreamAssumption DEF TypeOK
      <4> QED BY <4>1, LeastOfTwo DEF Streak
    <3>2. PICK d \in Backoff(Streak(r)) : WaitThenAgain(r, d)
      BY <2>18 DEF BacksOff
    <3>3. d \in Nat
      BY <3>2, ConfigAssumption DEF Backoff
    <3>4. /\ timer' \in [Requests -> Nat]
          /\ pc' \in [Requests -> Running \cup {"idle", "done"}]
          /\ pc'[r] \notin InFlight /\ \A s \in Requests \ {r} : pc'[s] = pc[s]
      BY <3>2, <3>3, WaitingIsTyped
    <3> QED BY <2>18, <2>11, <3>1, <3>4 DEF TypeOK, BacksOff, Drop, Hopes
  <2>19. ASSUME NEW r \in Requests, NEW kind, GivesUpOn(r, kind) PROVE TypeOK'
    BY <2>19, <2>11 DEF TypeOK, GivesUpOn, Answered, Hopes, Skip, Drop, Again
  <2>20. ASSUME NEW r \in Requests, Throttled(r) PROVE TypeOK'
    <3>1. PICK t \in RetryAfters : MarkCooling(r, t) /\ WaitThenAgain(r, t)
      BY <2>20 DEF Throttled
    <3>2. t \in Nat /\ lag[r] \in Nat
      BY UpstreamAssumption DEF TypeOK
    <3>3. /\ timer' \in [Requests -> Nat]
          /\ pc' \in [Requests -> Running \cup {"idle", "done"}]
          /\ pc'[r] \notin InFlight /\ \A s \in Requests \ {r} : pc'[s] = pc[s]
      BY <3>1, <3>2, WaitingIsTyped
    <3>4. left' \in [Accounts -> Nat] /\ state' \in [Accounts -> HealthStates]
      <4>1. (IF t > lag[r] THEN t - lag[r] ELSE 0) \in Nat
        BY <3>2
      <4> QED BY <3>1, <4>1 DEF TypeOK, MarkCooling, Mark
    <3> QED BY <2>20, <2>11, <3>3, <3>4 DEF TypeOK, Throttled, Drop
  <2>21. ASSUME NEW r \in Requests, Exhausted(r) PROVE TypeOK'
    <3>1. PICK t \in Resets : MarkExhausted(r, t)
      BY <2>21 DEF Exhausted
    <3>2. t \in Nat /\ lag[r] \in Nat /\ MinCooldown \in Nat
      BY UpstreamAssumption, ConfigAssumption DEF TypeOK
    <3>3. left' \in [Accounts -> Nat] /\ state' \in [Accounts -> HealthStates]
      <4>1. (IF t > lag[r] THEN t - lag[r] ELSE MinCooldown) \in Nat
        BY <3>2
      <4> QED BY <3>1, <4>1 DEF TypeOK, MarkExhausted, Mark
    <3>4. drain' \in [Accounts -> Nat]
      BY <2>21, <2>11 DEF Exhausted
    <3>5. hopes' \in [Requests -> SUBSET Accounts] /\ moved' \in [Requests -> SUBSET Accounts]
      BY <2>21 DEF TypeOK, Exhausted
    <3>6. acct[r] \in Accounts
      BY <2>21 DEF TypeOK, Exhausted, Answered
    <3> HIDE DEF Changed, ChangedBy, Judged, Unmoved, Watched
    <3> QED BY <2>21, <3>3, <3>4, <3>5, <3>6 DEF TypeOK, Exhausted, Skip, Drop, Again
  <2>22. ASSUME NEW r \in Requests, Cancel(r) PROVE TypeOK'
    BY <2>22 DEF TypeOK, Cancel, Return
  <2>23. CASE Reload
    BY <2>23, UpstreamAssumption DEF TypeOK, Reload
  <2>24. ASSUME NEW a \in Accounts, ResetHealth(a) PROVE TypeOK'
    BY <2>24 DEF TypeOK, ResetHealth, Mark
  <2>25. CASE Tick
    <3>1. \A n \in Nat : Down(n) \in Nat
      BY DEF Down
    <3>2. \A r \in Requests : Least({lag[r] + 1, MaxLag}) \in Nat
      <4>1. MaxLag \in Nat /\ \A r \in Requests : lag[r] + 1 \in Nat
        BY UpstreamAssumption DEF TypeOK
      <4> QED BY <4>1, LeastOfTwo
    <3>3. sticky' \in [Convs -> [acct : Accounts \cup {NoAccount}, left : Nat]]
      <4>1. ASSUME NEW c \in Convs
            PROVE  (IF sticky[c].left = 0 THEN NoEntry ELSE [sticky[c] EXCEPT !.left = @ - 1])
                     \in [acct : Accounts \cup {NoAccount}, left : Nat]
        <5>1. NoEntry \in [acct : Accounts \cup {NoAccount}, left : Nat]
          BY DEF NoEntry
        <5>2. PICK b \in Accounts \cup {NoAccount}, n \in Nat : sticky[c] = [acct |-> b, left |-> n]
          BY DEF TypeOK
        <5>3. n # 0 => [sticky[c] EXCEPT !.left = @ - 1] = [acct |-> b, left |-> n - 1]
          BY <5>2
        <5> QED BY <5>1, <5>2, <5>3
      <4> QED BY <2>25, <4>1 DEF Tick
    <3> QED BY <2>25, <3>1, <3>2, <3>3 DEF TypeOK, Tick
  <2>26. CASE UNCHANGED vars
    BY <2>26 DEF TypeOK
  <2> QED
    BY <2>1, <2>2, <2>3, <2>4, <2>5, <2>6, <2>7, <2>8, <2>9, <2>10, <2>12, <2>13, <2>14, <2>15,
       <2>16, <2>17, <2>18, <2>19, <2>20, <2>21, <2>22, <2>23, <2>24, <2>25, <2>26 DEF Next, Step
<1> QED BY <1>1, <1>2, PTL DEF Spec

-----------------------------------------------------------------------------
(* The 401 budget.                                                         *)

\* The strengthening of CondemnedAfterRenewals: every refusal counted against
\* a subscription is matched by a renewal this request has been through, or is
\* going through, until it has been through as many as are allowed.
RenewalsCounted ==
    \A r \in Requests, a \in Accounts :
        \/ auth[r][a] <= renewed[r][a] + (IF pc[r] = "renew" /\ acct[r] = a THEN 1 ELSE 0)
        \/ renewed[r][a] >= AuthRefreshAttempts

\* A step moves one request at most: the others keep what the budget is about.
LEMMA OneRequestMoves ==
    ASSUME TypeOK, Next, NEW r \in Requests,
           pc'[r] # pc[r] \/ acct'[r] # acct[r] \/ auth'[r] # auth[r] \/ renewed'[r] # renewed[r]
    PROVE  Arrive(r) \/ Step(r) \/ Cancel(r)
<1> USE DEF locals, history, Goto, TypeOK
<1>1. ASSUME NEW s \in Requests, s # r, Arrive(s) PROVE FALSE
  BY <1>1 DEF Arrive
<1>2. ASSUME NEW s \in Requests, s # r, Cancel(s) PROVE FALSE
  BY <1>2 DEF Cancel, Return
<1>3. ASSUME NEW s \in Requests, s # r, Step(s) PROVE FALSE
  <2>1. CASE Select(s) \/ NothingSelectable(s) \/ CannotPark(s) \/ Unparks(s) \/ WaitEnds(s)
    BY <1>3, <2>1 DEF Select, NothingSelectable, CannotPark, Unparks, WaitEnds, NewRound
  <2>2. CASE Park(s)
    BY <1>3, <2>2 DEF Park, NewRound, Return
  <2>3. CASE Unusable(s) \/ Relay(s) \/ Fatal(s)
    BY <1>3, <2>3 DEF Unusable, Relay, Fatal, Return
  <2>4. CASE EnsureFreshSucceeds(s) \/ EnsureFreshFails(s)
    BY <1>3, <2>4 DEF EnsureFreshSucceeds, EnsureFreshFails, Drop, Again
  <2>5. CASE Condemned(s) \/ Renews(s) \/ RenewSucceeds(s) \/ RenewFails(s)
    BY <1>3, <2>5 DEF Condemned, Renews, RenewSucceeds, RenewFails, Drop, Again
  <2>6. CASE \E kind \in {"overload", "transport"} : BacksOff(s, kind) \/ GivesUpOn(s, kind)
    BY <1>3, <2>6 DEF BacksOff, GivesUpOn, WaitThenAgain, Drop, Again
  <2>7. CASE Throttled(s) \/ Exhausted(s)
    BY <1>3, <2>7 DEF Throttled, Exhausted, WaitThenAgain, Drop, Again
  <2> QED BY <1>3, <2>1, <2>2, <2>3, <2>4, <2>5, <2>6, <2>7 DEF Step
<1>4. ~Reload /\ ~Tick /\ \A a \in Accounts : ~ResetHealth(a)
  BY DEF Reload, Tick, ResetHealth
<1> QED BY <1>1, <1>2, <1>3, <1>4 DEF Next

\* The count is kept by every step of the loop (engine.go authAttempts).
LEMMA RenewalsStayCounted ==
    ASSUME TypeOK, RenewalsCounted, Next
    PROVE  RenewalsCounted'
<1> SUFFICES ASSUME NEW r \in Requests, NEW a \in Accounts
             PROVE  \/ auth'[r][a] <= renewed'[r][a] + (IF pc'[r] = "renew" /\ acct'[r] = a THEN 1 ELSE 0)
                    \/ renewed'[r][a] >= AuthRefreshAttempts
  BY DEF RenewalsCounted
<1> DEFINE Counted == \/ auth[r][a] <= renewed[r][a] + (IF pc[r] = "renew" /\ acct[r] = a THEN 1 ELSE 0)
                      \/ renewed[r][a] >= AuthRefreshAttempts
<1>1. Counted /\ auth[r][a] \in Nat /\ renewed[r][a] \in Nat /\ AuthRefreshAttempts \in Nat
  BY ConfigAssumption DEF TypeOK, RenewalsCounted
<1>2. CASE pc'[r] = pc[r] /\ acct'[r] = acct[r] /\ auth'[r] = auth[r] /\ renewed'[r] = renewed[r]
  BY <1>1, <1>2
<1>3. CASE Arrive(r) \/ Cancel(r)
  BY <1>1, <1>3 DEF Arrive, Cancel, Return, Goto, locals, history, TypeOK
<1>4. CASE Step(r)
  <2> USE DEF locals, history, Goto, TypeOK
  <2>1. CASE Select(r) \/ NothingSelectable(r) \/ CannotPark(r) \/ Unparks(r) \/ WaitEnds(r)
    BY <1>1, <2>1 DEF Select, NothingSelectable, CannotPark, Unparks, WaitEnds, NewRound
  <2>2. CASE Park(r)
    BY <1>1, <2>2 DEF Park, NewRound, Return
  <2>3. CASE Unusable(r) \/ Relay(r) \/ Fatal(r)
    BY <1>1, <2>3 DEF Unusable, Relay, Fatal, Return
  <2>4. CASE EnsureFreshSucceeds(r) \/ EnsureFreshFails(r)
    BY <1>1, <2>4 DEF EnsureFreshSucceeds, EnsureFreshFails, Drop, Again
  <2>5. CASE Condemned(r)
    <3>1. pc[r] = "send" /\ acct'[r] = acct[r] /\ pc'[r] = "select" /\ renewed' = renewed
      BY <2>5 DEF Condemned, Answered, Drop, Again
    <3>2. CASE acct[r] = a /\ a \in OAuth
      BY <1>1, <2>5, <3>1, <3>2 DEF Condemned, Condemns
    <3>3. CASE acct[r] # a \/ a \notin OAuth
      <4>1. auth'[r][a] = auth[r][a]
        BY <2>5, <3>3 DEF Condemned
      <4> QED BY <1>1, <3>1, <4>1
    <3> QED BY <3>2, <3>3
  <2>6. CASE Renews(r)
    BY <1>1, <2>6 DEF Renews, Answered
  <2>7. CASE RenewSucceeds(r) \/ RenewFails(r)
    BY <1>1, <2>7 DEF RenewSucceeds, RenewFails, Drop, Again
  <2>8. CASE \E kind \in {"overload", "transport"} : BacksOff(r, kind) \/ GivesUpOn(r, kind)
    BY <1>1, <2>8 DEF BacksOff, GivesUpOn, Answered, WaitThenAgain, Drop, Again
  <2>9. CASE Throttled(r) \/ Exhausted(r)
    BY <1>1, <2>9 DEF Throttled, Exhausted, Answered, WaitThenAgain, Drop, Again
  <2> QED BY <1>4, <2>1, <2>2, <2>3, <2>4, <2>5, <2>6, <2>7, <2>8, <2>9 DEF Step
<1> QED BY <1>2, <1>3, <1>4, OneRequestMoves

\* A subscription is condemned over a 401 only after the request has put its
\* token through as many renewals as it is allowed, whatever it met on other
\* accounts and whatever other requests did (engine.go authAttempts).
THEOREM BudgetIsPerAccount == Spec => CondemnedAfterRenewals
<1>1. Init => RenewalsCounted
  BY DEF Init, RenewalsCounted
<1>2. TypeOK /\ RenewalsCounted /\ [Next]_vars => RenewalsCounted'
  <2>1. CASE UNCHANGED vars
    BY <2>1 DEF RenewalsCounted, vars, locals, history
  <2> QED BY <2>1, RenewalsStayCounted
<1>3. ASSUME TypeOK, RenewalsCounted, Next, NEW r \in Requests,
             pc[r] = "send", pc'[r] = "select", acct[r] \in OAuth,
             state[acct[r]] # "invalid", state'[acct[r]] = "invalid"
      PROVE  renewed[r][acct[r]] >= AuthRefreshAttempts
  <2>1. acct[r] \in Accounts /\ auth[r][acct[r]] \in Nat /\ renewed[r][acct[r]] \in Nat
    BY <1>3, IdentityAssumption DEF TypeOK
  <2>2. Step(r)
    BY <1>3, OneRequestMoves DEF Arrive, Cancel, Return, Goto, TypeOK
  <2>3. ~Relay(r) /\ ~Fatal(r) /\ ~Renews(r)
    BY <1>3 DEF Relay, Fatal, Renews, Return, Goto, TypeOK
  <2>4. ~(\E kind \in {"overload", "transport"} : BacksOff(r, kind) \/ GivesUpOn(r, kind))
    BY <1>3 DEF BacksOff, GivesUpOn, healths
  <2>5. ~Throttled(r) /\ ~Exhausted(r)
    BY <1>3, <2>1 DEF Throttled, Exhausted, MarkCooling, MarkExhausted, Mark, TypeOK
  <2>6. Condemned(r)
    BY <1>3, <2>2, <2>3, <2>4, <2>5
       DEF Step, Select, NothingSelectable, CannotPark, Park, Unparks, Unusable, WaitEnds,
           EnsureFreshSucceeds, EnsureFreshFails, RenewSucceeds, RenewFails
  <2>7. auth[r][acct[r]] <= renewed[r][acct[r]] \/ renewed[r][acct[r]] >= AuthRefreshAttempts
    BY <1>3, <2>1 DEF RenewalsCounted
  <2> QED BY <1>3, <2>1, <2>6, <2>7, ConfigAssumption DEF Condemned, Condemns
<1>4. TypeOK /\ RenewalsCounted /\ [Next]_vars
      => [\A r \in Requests :
            LET a == acct[r]
            IN  /\ pc[r] = "send" /\ pc'[r] = "select" /\ a \in OAuth
                /\ state[a] # "invalid" /\ state'[a] = "invalid"
                => renewed[r][a] >= AuthRefreshAttempts]_vars
  BY <1>3
<1> QED BY <1>1, <1>2, <1>4, TypeCorrect, PTL DEF Spec, CondemnedAfterRenewals

-----------------------------------------------------------------------------
(* What a request goes by while others work on the same pool: nobody has   *)
(* changed what it looked at, or it is in moved[r].                        *)

\* Waits only run out.
LEMMA DownIsLess ==
    ASSUME NEW n \in Nat
    PROVE  Down(n) \in Nat /\ Down(n) <= n /\ (n = 0 => Down(n) = 0)
BY DEF Down

\* An account that is available stays so while time passes (health.go Available).
LEMMA AvailableLasts ==
    ASSUME TypeOK, Tick, NEW a \in Accounts, Available(a)
    PROVE  Available(a)'
<1>1. left[a] = 0 => left'[a] = 0
  BY DownIsLess DEF Tick, TypeOK
<1> QED BY <1>1 DEF Available, Tick

\* A step of one request takes nothing from the pool and from what the other
\* requests are doing; it writes the health of at most the account its answer is
\* about, and then is no longer in flight (engine.go Execute and its marks).
LEMMA WhatAStepWrites ==
    ASSUME TypeOK, NEW r \in Requests, Arrive(r) \/ Step(r) \/ Cancel(r)
    PROVE  /\ pool' = pool
           /\ \A s \in Requests \ {r} : pc'[s] = pc[s] /\ acct'[s] = acct[s] /\ result'[s] = result[s]
           /\ \/ /\ state' = state /\ left' = left
                 /\ moved' = moved \/ moved' = [moved EXCEPT ![r] = {}]
                 /\ \A s \in Requests \ {r} : hopes'[s] = hopes[s]
                 /\ hopes'[r] \subseteq hopes[r] \cup {a \in pool : Available(a)}
              \/ /\ pc[r] \in InFlight /\ pc'[r] \in {"select", "wait", "done"}
                 /\ \E s \in HealthStates, d \in Int :
                       Mark(acct[r], s, d) /\ (s \in {"available", "invalid"} => d = 0)
                 /\ ChangedBy(r)
                 /\ \/ hopes' = [s \in Requests |-> hopes[s] \ {acct[r]}]
                    \/ hopes' = [hopes EXCEPT ![r] = {}] /\ Mark(acct[r], "available", 0)
<1> USE DEF TypeOK, Goto, locals, history, healths, pools
<1>1. CASE Arrive(r)
  BY <1>1 DEF Arrive
<1>2. CASE Select(r) \/ NothingSelectable(r) \/ CannotPark(r) \/ Unparks(r) \/ WaitEnds(r)
  BY <1>2 DEF Select, NothingSelectable, CannotPark, Unparks, WaitEnds
<1>3. CASE Park(r)
  BY <1>3 DEF Park, Return
<1>4. CASE Unusable(r) \/ Fatal(r) \/ Cancel(r)
  BY <1>4 DEF Unusable, Fatal, Cancel, Return, Unmoved
<1>5. CASE EnsureFreshSucceeds(r) \/ Renews(r)
  BY <1>5 DEF EnsureFreshSucceeds, Renews
<1>6. CASE RenewSucceeds(r)
  BY <1>6 DEF RenewSucceeds, Drop, Again, Unmoved
<1>7. CASE EnsureFreshFails(r)
  <2>1. /\ pc[r] \in InFlight /\ pc' = [pc EXCEPT ![r] = "select"] /\ acct' = acct
        /\ result' = result /\ pool' = pool /\ Judged(r) /\ Mark(acct[r], "invalid", 0)
    BY <1>7 DEF EnsureFreshFails, MarkInvalid, Drop, Again, InFlight
  <2> QED BY <2>1 DEF Judged, HealthStates
<1>8. CASE RenewFails(r)
  <2>1. /\ pc[r] \in InFlight /\ pc' = [pc EXCEPT ![r] = "select"] /\ acct' = acct
        /\ result' = result /\ pool' = pool /\ Judged(r) /\ Mark(acct[r], "invalid", 0)
    BY <1>8 DEF RenewFails, MarkInvalid, Drop, Again, InFlight
  <2> QED BY <2>1 DEF Judged, HealthStates
<1>9. CASE Condemned(r)
  <2>1. /\ pc[r] \in InFlight /\ pc' = [pc EXCEPT ![r] = "select"] /\ acct' = acct
        /\ result' = result /\ pool' = pool /\ Judged(r) /\ Mark(acct[r], "invalid", 0)
    BY <1>9 DEF Condemned, MarkInvalid, Drop, Again, Answered, InFlight
  <2> QED BY <2>1 DEF Judged, HealthStates
<1>10. CASE Relay(r)
  <2>1. /\ pc[r] \in InFlight /\ pc' = [pc EXCEPT ![r] = "done"]
        /\ acct' = [acct EXCEPT ![r] = NoAccount] /\ result' = [result EXCEPT ![r] = "relayed"]
        /\ pool' = pool /\ ChangedBy(r) /\ hopes' = [hopes EXCEPT ![r] = {}]
        /\ Mark(acct[r], "available", 0)
    BY <1>10 DEF Relay, MarkSuccess, Return, Answered, InFlight
  <2> QED BY <2>1 DEF HealthStates
<1>11. CASE Throttled(r)
  <2>1. PICK t \in RetryAfters : MarkCooling(r, t) /\ WaitThenAgain(r, t)
    BY <1>11 DEF Throttled
  <2>2. (IF t > lag[r] THEN t - lag[r] ELSE 0) \in Int
    BY UpstreamAssumption
  <2>3. \E d \in Int : Mark(acct[r], "cooling", d)
    BY <2>1, <2>2 DEF MarkCooling
  <2>4. /\ pc[r] \in InFlight /\ acct' = acct /\ result' = result /\ pool' = pool /\ Judged(r)
    BY <1>11 DEF Throttled, Drop, Answered, InFlight
  <2>5. pc' = [pc EXCEPT ![r] = "select"] \/ pc' = [pc EXCEPT ![r] = "wait"]
    BY <2>1 DEF WaitThenAgain, Again
  <2> QED BY <2>3, <2>4, <2>5 DEF Judged, HealthStates
<1>12. CASE Exhausted(r)
  <2>1. PICK t \in Resets : MarkExhausted(r, t)
    BY <1>12 DEF Exhausted
  <2>2. (IF t > lag[r] THEN t - lag[r] ELSE MinCooldown) \in Int
    BY UpstreamAssumption, ConfigAssumption
  <2>3. \E d \in Int : Mark(acct[r], "exhausted", d)
    BY <2>1, <2>2 DEF MarkExhausted
  <2>4. /\ pc[r] \in InFlight /\ pc' = [pc EXCEPT ![r] = "select"] /\ acct' = acct
        /\ result' = result /\ pool' = pool /\ Judged(r)
    BY <1>12 DEF Exhausted, Drop, Again, Answered, InFlight
  <2> QED BY <2>3, <2>4 DEF Judged, HealthStates
<1>13. ASSUME NEW kind, BacksOff(r, kind) \/ GivesUpOn(r, kind)
       PROVE  /\ state' = state /\ left' = left /\ pool' = pool
              /\ acct' = acct /\ result' = result /\ Hopes(r)
              /\ \A s \in Requests \ {r} : pc'[s] = pc[s]
  BY <1>13 DEF BacksOff, GivesUpOn, WaitThenAgain, Drop, Again
<1>14. CASE \E kind \in {"overload", "transport"} : BacksOff(r, kind) \/ GivesUpOn(r, kind)
  BY <1>13, <1>14 DEF Hopes, Unmoved
<1> QED
  BY <1>1, <1>2, <1>3, <1>4, <1>5, <1>6, <1>7, <1>8, <1>9, <1>10, <1>11, <1>12, <1>14 DEF Step

\* What a request looked at and nobody has changed since is as it saw it, but for
\* waits that run out: every mark, reload and reset of somebody else's shows.
LEMMA UnmovedIsUnchanged ==
    ASSUME TypeOK, [Next]_vars, NEW s \in Requests, NEW a \in Watched(s),
           ~(Arrive(s) \/ Step(s) \/ Cancel(s)), a \notin moved'[s]
    PROVE  /\ a \notin moved[s]
           /\ state'[a] = state[a] /\ (Available(a) => Available(a)')
           /\ a \in pool' <=> a \in pool
<1> USE DEF TypeOK
<1>0. a \in Accounts
  BY DEF Watched
<1>1. ASSUME NEW r \in Requests, r # s, Arrive(r) \/ Step(r) \/ Cancel(r)
      PROVE  /\ a \notin moved[s] /\ state'[a] = state[a] /\ left'[a] = left[a] /\ pool' = pool
  <2>1. CASE state' = state /\ left' = left /\ (moved' = moved \/ moved' = [moved EXCEPT ![r] = {}])
    BY <1>1, <2>1, WhatAStepWrites
  <2>2. ASSUME ChangedBy(r), NEW t \in HealthStates, NEW d \in Int, Mark(acct[r], t, d)
        PROVE  a \notin moved[s] /\ state'[a] = state[a] /\ left'[a] = left[a]
    <3>1. moved'[s] = moved[s] \cup ({acct[r]} \cap Watched(s))
      BY <1>1, <2>2 DEF ChangedBy
    <3>2. a # acct[r] /\ a \notin moved[s]
      BY <3>1
    <3> QED BY <1>0, <2>2, <3>2 DEF Mark
  <2> QED BY <1>1, <2>1, <2>2, WhatAStepWrites
<1>2. CASE Reload
  <2>1. PICK enabled \in SUBSET Accounts :
           pool' = enabled /\ Changed((pool \ enabled) \cup (enabled \ pool))
    BY <1>2 DEF Reload
  <2>2. moved'[s] = moved[s] \cup (((pool \ enabled) \cup (enabled \ pool)) \cap Watched(s))
    BY <2>1 DEF Changed
  <2> QED BY <1>2, <2>1, <2>2 DEF Reload, healths, Available
<1>3. ASSUME NEW b \in Accounts, ResetHealth(b)
      PROVE  /\ a \notin moved[s] /\ state'[a] = state[a] /\ left'[a] = left[a] /\ pool' = pool
  <2>1. moved'[s] = moved[s] \cup ({b} \cap Watched(s))
    BY <1>3 DEF ResetHealth, Changed
  <2> QED BY <1>0, <1>3, <2>1 DEF ResetHealth, Mark
<1>4. CASE Tick
  <2>1. Available(a) => Available(a)'
    BY <1>0, <1>4, AvailableLasts
  <2> QED BY <1>4, <2>1 DEF Tick, pools, history
<1>5. CASE UNCHANGED vars
  BY <1>5 DEF vars, pools, healths, history, Available
<1> QED BY <1>1, <1>2, <1>3, <1>4, <1>5 DEF Next, Available

\* What a request is doing changes by its own steps only.
LEMMA OthersLeaveItAlone ==
    ASSUME TypeOK, [Next]_vars, NEW s \in Requests, ~(Arrive(s) \/ Step(s) \/ Cancel(s))
    PROVE  pc'[s] = pc[s] /\ acct'[s] = acct[s] /\ result'[s] = result[s]
<1>1. ASSUME NEW r \in Requests, r # s, Arrive(r) \/ Step(r) \/ Cancel(r)
      PROVE  pc'[s] = pc[s] /\ acct'[s] = acct[s] /\ result'[s] = result[s]
  BY <1>1, WhatAStepWrites
<1>2. ASSUME NEW b \in Accounts, ResetHealth(b)
      PROVE  pc'[s] = pc[s] /\ acct'[s] = acct[s] /\ result'[s] = result[s]
  BY <1>2 DEF ResetHealth, locals
<1>3. CASE Reload \/ Tick \/ UNCHANGED vars
  BY <1>3 DEF Reload, Tick, vars, locals
<1> QED BY <1>1, <1>2, <1>3 DEF Next

\* The pool only ever holds accounts.
LEMMA PoolIsAccounts ==
    ASSUME TypeOK, [Next]_vars
    PROVE  pool' \subseteq Accounts
<1>1. ASSUME NEW r \in Requests, Arrive(r) \/ Step(r) \/ Cancel(r) PROVE pool' = pool
  BY <1>1, WhatAStepWrites
<1>2. ASSUME NEW b \in Accounts, ResetHealth(b) PROVE pool' = pool
  BY <1>2 DEF ResetHealth
<1>3. CASE Reload
  BY <1>3 DEF Reload
<1>4. CASE Tick \/ UNCHANGED vars
  BY <1>4 DEF Tick, vars, pools, TypeOK
<1> QED BY <1>1, <1>2, <1>3, <1>4 DEF Next, TypeOK

\* The engine's own errors come from unusable, from park giving up and from a
\* lane with no account, each with its own (engine.go Execute).
LEMMA OwnErrorsComeFrom ==
    ASSUME TypeOK, Next, NEW r \in Requests, result'[r] # result[r], result'[r] \in OwnErrors
    PROVE  \/ Unusable(r)
           \/ Park(r) /\ result'[r] = "parktoolong" /\ pc'[r] = "done"
           \/ Arrive(r) /\ result'[r] = "noaccounts"
<1> USE DEF TypeOK, Goto, Return, OwnErrors
<1>1. Arrive(r) \/ Step(r) \/ Cancel(r)
  BY OthersLeaveItAlone
<1>2. CASE Arrive(r)
  BY <1>2 DEF Arrive
<1>3. CASE Select(r) \/ NothingSelectable(r) \/ CannotPark(r) \/ Unparks(r) \/ WaitEnds(r)
  BY <1>3 DEF Select, NothingSelectable, CannotPark, Unparks, WaitEnds
<1>4. CASE EnsureFreshSucceeds(r) \/ EnsureFreshFails(r) \/ Relay(r) \/ Fatal(r) \/ Cancel(r)
  BY <1>4 DEF EnsureFreshSucceeds, EnsureFreshFails, Relay, Fatal, Cancel
<1>5. CASE Condemned(r) \/ Renews(r) \/ RenewSucceeds(r) \/ RenewFails(r) \/ Throttled(r) \/ Exhausted(r)
  BY <1>5 DEF Condemned, Renews, RenewSucceeds, RenewFails, Throttled, Exhausted
<1>6. CASE \E kind \in {"overload", "transport"} : BacksOff(r, kind) \/ GivesUpOn(r, kind)
  BY <1>6 DEF BacksOff, GivesUpOn
<1>7. CASE Park(r)
  BY <1>7 DEF Park
<1> QED BY <1>1, <1>2, <1>3, <1>4, <1>5, <1>6, <1>7 DEF Step

\* Only selectAccount starts an attempt, and only the first two returns of park
\* lead to unusable (engine.go Execute).
LEMMA WhereItLooks ==
    ASSUME TypeOK, NEW r \in Requests, Arrive(r) \/ Step(r) \/ Cancel(r)
    PROVE  /\ pc'[r] = "unusable" => CannotPark(r)
           /\ pc'[r] \in InFlight => Select(r) \/ EnsureFreshSucceeds(r) \/ Renews(r)
<1> USE DEF TypeOK, Goto, InFlight
<1>1. CASE Arrive(r) \/ Select(r) \/ NothingSelectable(r) \/ Unparks(r) \/ WaitEnds(r) \/ EnsureFreshSucceeds(r)
  BY <1>1 DEF Arrive, Select, NothingSelectable, Unparks, WaitEnds, EnsureFreshSucceeds
<1>2. CASE Unusable(r) \/ Relay(r) \/ Fatal(r) \/ Cancel(r)
  BY <1>2 DEF Unusable, Relay, Fatal, Cancel, Return
<1>3. CASE EnsureFreshFails(r) \/ Condemned(r) \/ Renews(r) \/ RenewSucceeds(r) \/ RenewFails(r) \/ Exhausted(r)
  BY <1>3 DEF EnsureFreshFails, Condemned, Renews, RenewSucceeds, RenewFails, Exhausted, Again
<1>4. CASE Throttled(r) \/ \E kind \in {"overload", "transport"} : BacksOff(r, kind) \/ GivesUpOn(r, kind)
  BY <1>4 DEF Throttled, BacksOff, GivesUpOn, WaitThenAgain, Again
<1>5. CASE CannotPark(r)
  BY <1>5 DEF CannotPark
<1>6. CASE Park(r)
  BY <1>6 DEF Park, Return
<1> QED BY <1>1, <1>2, <1>3, <1>4, <1>5, <1>6 DEF Step

\* An attempt under way is with an account that selectAccount found available,
\* and so it still is unless somebody else has changed it since.
ServedByAvailable ==
    \A r \in Requests : pc[r] \in InFlight /\ acct[r] \notin moved[r] => Available(acct[r])

LEMMA ServedStaysAvailable ==
    ASSUME TypeOK, ServedByAvailable, [Next]_vars
    PROVE  ServedByAvailable'
<1> USE DEF TypeOK
<1> SUFFICES ASSUME NEW s \in Requests, pc'[s] \in InFlight,
                    NEW a, a = acct'[s], a \notin moved'[s]
             PROVE  Available(a)'
  BY DEF ServedByAvailable, Available
<1>1. CASE Arrive(s) \/ Step(s) \/ Cancel(s)
  <2>1. CASE Select(s)
    <3>1. Choice(s) \in Usable(s) /\ a = Choice(s) /\ state' = state /\ left' = left
      BY <2>1, ChoiceIsUsable DEF Select, healths
    <3> QED BY <3>1 DEF Usable, Available
  <2>2. CASE EnsureFreshSucceeds(s) \/ Renews(s)
    <3>1. /\ pc[s] \in InFlight /\ a = acct[s] /\ moved' = moved
          /\ state' = state /\ left' = left
      BY <2>2 DEF EnsureFreshSucceeds, Renews, Answered, InFlight, healths, history
    <3> QED BY <3>1 DEF ServedByAvailable, Available
  <2> QED BY <1>1, <2>1, <2>2, WhereItLooks
<1>2. CASE ~(Arrive(s) \/ Step(s) \/ Cancel(s))
  <2>1. pc[s] \in InFlight /\ a = acct[s]
    BY <1>2, OthersLeaveItAlone
  <2>2. a \in Watched(s)
    BY <2>1 DEF Watched
  <2>3. a \notin moved[s] /\ (Available(a) => Available(a)')
    BY <1>2, <2>2, UnmovedIsUnchanged
  <2> QED BY <2>1, <2>3 DEF ServedByAvailable
<1> QED BY <1>1, <1>2

\* Hence a verdict stands until the operator lifts it or its reset comes, for any
\* number of requests and reloads: no attempt is begun against it, and what takes
\* it back is the answer to one begun before (health.go Available; engine.go:522).
THEOREM VerdictsAlwaysStand == Spec => VerdictsStand
<1>1. Init => ServedByAvailable
  BY DEF Init, ServedByAvailable, InFlight
<1>2. TypeOK /\ ServedByAvailable /\ [Next]_vars => ServedByAvailable'
  BY ServedStaysAvailable
<1>3. ASSUME TypeOK, ServedByAvailable, Next, NEW a \in Accounts,
             state[a] = "invalid" \/ (state[a] = "exhausted" /\ left[a] > 0), state'[a] # state[a]
      PROVE  \/ a \in toReset /\ a \notin toReset'
             \/ \E r \in Requests : /\ pc[r] \in InFlight /\ pc'[r] \notin InFlight
                                    /\ acct[r] = a /\ a \in moved[r]
  <2> USE DEF TypeOK
  <2>1. ASSUME NEW r \in Requests, Arrive(r) \/ Step(r) \/ Cancel(r)
        PROVE  pc[r] \in InFlight /\ pc'[r] \notin InFlight /\ acct[r] = a /\ a \in moved[r]
    <3>1. PICK s \in HealthStates, d \in Int : Mark(acct[r], s, d)
      BY <1>3, <2>1, WhatAStepWrites
    <3>2. pc[r] \in InFlight /\ pc'[r] \in {"select", "wait", "done"}
      BY <1>3, <2>1, WhatAStepWrites
    <3>3. acct[r] = a
      BY <1>3, <3>1 DEF Mark
    <3>4. ~Available(a)
      BY <1>3 DEF Available
    <3> QED BY <1>3, <3>2, <3>3, <3>4 DEF ServedByAvailable, InFlight
  <2>2. ~Reload /\ ~Tick
    BY <1>3 DEF Reload, Tick, healths
  <2>3. ASSUME NEW b \in Accounts, ResetHealth(b) PROVE a \in toReset /\ a \notin toReset'
    BY <1>3, <2>3 DEF ResetHealth, Mark
  <2> QED BY <1>3, <2>1, <2>2, <2>3 DEF Next
<1>4. TypeOK /\ ServedByAvailable /\ [Next]_vars
      => [\A a \in Accounts :
            /\ state[a] = "invalid" \/ (state[a] = "exhausted" /\ left[a] > 0)
            /\ state'[a] # state[a]
            => \/ a \in toReset /\ a \notin toReset'
               \/ \E r \in Requests : /\ pc[r] \in InFlight /\ pc'[r] \notin InFlight
                                      /\ acct[r] = a /\ a \in moved[r]]_vars
  BY <1>3
<1> QED BY <1>1, <1>2, <1>4, TypeCorrect, PTL DEF Spec, VerdictsStand

-----------------------------------------------------------------------------
(* What a request is told when it is not served.                           *)

\* Between the look that finds no account that will recover and the error, what
\* nobody has changed is condemned still (engine.go park, unusable).
UnusableMeansRefused ==
    \A r \in Requests :
        pc[r] = "unusable" => \A a \in pool \ moved[r] : state[a] = "invalid"

LEMMA UnusableStaysRefused ==
    ASSUME ParkEnabled, TypeOK, UnusableMeansRefused, [Next]_vars
    PROVE  UnusableMeansRefused'
<1> USE DEF TypeOK
<1> SUFFICES ASSUME NEW s \in Requests, pc'[s] = "unusable", NEW a \in pool' \ moved'[s]
             PROVE  state'[a] = "invalid"
  BY DEF UnusableMeansRefused
<1>1. CASE Arrive(s) \/ Step(s) \/ Cancel(s)
  <2>1. CannotPark(s)
    BY <1>1, WhereItLooks
  <2> QED BY <2>1 DEF CannotPark, Recovers, pools, healths
<1>2. CASE ~(Arrive(s) \/ Step(s) \/ Cancel(s))
  <2>1. pc[s] = "unusable" /\ a \in Accounts
    <3>1. pool' \subseteq Accounts
      BY PoolIsAccounts
    <3> QED BY <1>2, <3>1, OthersLeaveItAlone
  <2>2. a \in Watched(s)
    BY <2>1 DEF Watched
  <2>3. a \notin moved[s] /\ state'[a] = state[a] /\ a \in pool
    BY <1>2, <2>2, UnmovedIsUnchanged
  <2> QED BY <2>1, <2>3 DEF UnusableMeansRefused
<1> QED BY <1>1, <1>2

\* "Every account was rejected" is never said of an account that would recover,
\* for any number of requests and reloads, parking on: only what somebody else
\* has changed since park looked may differ (engine.go unusable).
THEOREM RejectedIsRefused ==
    ASSUME ParkEnabled
    PROVE  Spec => RejectedMeansAllRefused
<1>1. Init => UnusableMeansRefused
  BY DEF Init, UnusableMeansRefused
<1>2. TypeOK /\ UnusableMeansRefused /\ [Next]_vars => UnusableMeansRefused'
  BY UnusableStaysRefused
<1>3. ASSUME TypeOK, UnusableMeansRefused, Next, NEW r \in Requests,
             result'[r] = "rejected", result[r] # "rejected"
      PROVE  \A a \in pool \ moved[r] : state[a] = "invalid"
  <2>1. Unusable(r)
    BY <1>3, OwnErrorsComeFrom DEF OwnErrors
  <2> QED BY <1>3, <2>1 DEF Unusable, UnusableMeansRefused
<1>4. TypeOK /\ UnusableMeansRefused /\ [Next]_vars
      => [\A r \in Requests :
            result'[r] = "rejected" /\ result[r] # "rejected"
            => \A a \in pool \ moved[r] : state[a] = "invalid"]_vars
  BY <1>3
<1> QED BY <1>1, <1>2, <1>4, TypeCorrect, PTL DEF Spec, RejectedMeansAllRefused

-----------------------------------------------------------------------------
(* Overloads.                                                              *)

\* The soonest recovery is that of an account of the pool, and the allowance
\* only adds to it: nothing at all when the account is there already.
LEMMA SoonestIsAnAccounts ==
    ASSUME TypeOK, Recovers # {}
    PROVE  /\ SoonestRecovery \in Nat /\ SkewAllowance(SoonestRecovery) \in Nat
           /\ SoonestRecovery = 0 => SkewAllowance(SoonestRecovery) = 0
           /\ \E a \in Recovers : left[a] = SoonestRecovery
           /\ \A a \in Recovers : SoonestRecovery <= left[a]
<1> DEFINE waits == {left[a] : a \in Recovers}
<1>1. waits \subseteq Nat /\ waits # {}
  <2>1. \A a \in Recovers : left[a] \in Nat
    BY DEF Recovers, TypeOK
  <2> QED BY <2>1
<1>2. SoonestRecovery \in waits /\ \A n \in waits : SoonestRecovery <= n
  BY <1>1, LeastIsLeast DEF SoonestRecovery
<1>3. Buffer \in Nat /\ SoonestRecovery \in Nat
  BY <1>1, <1>2, ConfigAssumption
<1>4. /\ SkewAllowance(SoonestRecovery) \in {Buffer, SoonestRecovery}
      /\ SkewAllowance(SoonestRecovery) <= SoonestRecovery
  BY <1>3, LeastIsLeast DEF SkewAllowance
<1>5. SkewAllowance(SoonestRecovery) \in Nat /\ (SoonestRecovery = 0 => SkewAllowance(SoonestRecovery) = 0)
  BY <1>3, <1>4
<1>6. \E a \in Recovers : left[a] = SoonestRecovery
  BY <1>2
<1>7. \A a \in Recovers : SoonestRecovery <= left[a]
  BY <1>2
<1> QED BY <1>3, <1>5, <1>6, <1>7

\* No account waits without a reason to.
NoIdleWait == \A a \in Accounts : state[a] \in {"available", "invalid"} => left[a] = 0

\* Marks leave an account that waits for nothing with no wait (health.go).
LEMMA NoWaitWithoutReason ==
    ASSUME TypeOK, NoIdleWait, [Next]_vars
    PROVE  NoIdleWait'
<1> USE DEF TypeOK, NoIdleWait, healths
<1>1. ASSUME NEW r \in Requests, Arrive(r) \/ Step(r) \/ Cancel(r)
      PROVE  NoIdleWait'
  <2>1. CASE state' = state /\ left' = left
    BY <2>1
  <2>2. ASSUME NEW s \in HealthStates, NEW d \in Int, Mark(acct[r], s, d),
               s \in {"available", "invalid"} => d = 0
        PROVE  NoIdleWait'
    BY <2>2 DEF Mark
  <2> QED BY <1>1, <2>1, <2>2, WhatAStepWrites
<1>2. ASSUME NEW a \in Accounts, ResetHealth(a)
      PROVE  NoIdleWait'
  BY <1>2 DEF ResetHealth, Mark
<1>3. CASE Tick
  BY <1>3, DownIsLess DEF Tick
<1>4. CASE Reload \/ UNCHANGED vars
  BY <1>4 DEF Reload, vars
<1> QED BY <1>1, <1>2, <1>3, <1>4 DEF Next

\* While an account is there already, park starts a new round at once: it
\* neither sleeps nor gives up (engine.go park).
LEMMA ParkTakesWhatIsThere ==
    ASSUME TypeOK, NoIdleWait, NEW r \in Requests, Park(r), NEW a \in pool, Available(a)
    PROVE  pc'[r] = "select"
<1>1. a \in Recovers /\ left[a] = 0
  BY DEF Available, Recovers, NoIdleWait, TypeOK, HealthStates
<1>2. SoonestRecovery = 0 /\ SkewAllowance(SoonestRecovery) = 0
  BY <1>1, SoonestIsAnAccounts DEF TypeOK
<1>3. Goto(r, "select")
  BY <1>2, ConfigAssumption DEF Park
<1> QED BY <1>3 DEF Goto, TypeOK

\* What keeps an overload from surfacing: the accounts a request was only turned
\* away from for the moment are in the pool and available, before every park.
HopesAreThere ==
    \A r \in Requests :
        /\ \A a \in hopes[r] : a \in pool /\ Available(a)
        /\ pc[r] \in {"unusable", "idle", "done"} => hopes[r] = {}

\* An account that is there is so after a step, if the step leaves it a hope.
LEMMA HopesLast ==
    ASSUME TypeOK, NEW r \in Requests, Arrive(r) \/ Step(r) \/ Cancel(r),
           NEW s \in Requests, NEW a \in hopes'[s], \A b \in hopes[s] : b \in pool /\ Available(b)
    PROVE  a \in pool' /\ Available(a)' /\ (s # r => a \in hopes[s])
<1> USE DEF TypeOK
<1>1. CASE /\ state' = state /\ left' = left
           /\ \A q \in Requests \ {r} : hopes'[q] = hopes[q]
           /\ hopes'[r] \subseteq hopes[r] \cup {b \in pool : Available(b)}
  <2>1. pool' = pool
    BY WhatAStepWrites
  <2> QED BY <1>1, <2>1 DEF Available
<1>2. ASSUME NEW t \in HealthStates, NEW d \in Int, Mark(acct[r], t, d),
             hopes' = [q \in Requests |-> hopes[q] \ {acct[r]}]
      PROVE  a \in pool' /\ Available(a)' /\ a \in hopes[s]
  <2>1. a \in hopes[s] /\ a # acct[r] /\ a \in Accounts
    BY <1>2
  <2>2. state'[a] = state[a] /\ left'[a] = left[a]
    BY <1>2, <2>1 DEF Mark
  <2>3. pool' = pool
    BY WhatAStepWrites
  <2> QED BY <2>1, <2>2, <2>3 DEF Available
<1>3. CASE hopes' = [hopes EXCEPT ![r] = {}] /\ Mark(acct[r], "available", 0)
  <2>1. a \in hopes[s] /\ a \in Accounts
    BY <1>3
  <2>2. state'[a] = "available" \/ (state'[a] = state[a] /\ left'[a] = left[a])
    BY <1>3, <2>1 DEF Mark
  <2>3. pool' = pool
    BY WhatAStepWrites
  <2> QED BY <2>1, <2>2, <2>3 DEF Available
<1> QED BY <1>1, <1>2, <1>3, WhatAStepWrites

\* Nobody arrives, returns or gives up with a hope left.
LEMMA NoHopeInTheEnd ==
    ASSUME ParkEnabled, TypeOK, HopesAreThere, NEW r \in Requests, Arrive(r) \/ Step(r) \/ Cancel(r),
           pc'[r] \in {"unusable", "idle", "done"}
    PROVE  hopes'[r] = {}
<1> USE DEF TypeOK, Goto, history
<1>1. CASE Arrive(r)
  BY <1>1 DEF Arrive, HopesAreThere
<1>2. CASE CannotPark(r)
  <2>1. \A a \in hopes[r] : a \in Recovers
    BY DEF HopesAreThere, Recovers, Available
  <2> QED BY <1>2, <2>1 DEF CannotPark
<1>3. CASE Park(r) \/ Unusable(r) \/ Relay(r) \/ Fatal(r) \/ Cancel(r)
  BY <1>3 DEF Park, Unusable, Relay, Fatal, Cancel, Return
<1>4. CASE Select(r) \/ NothingSelectable(r) \/ Unparks(r) \/ WaitEnds(r) \/ EnsureFreshSucceeds(r)
  BY <1>4 DEF Select, NothingSelectable, Unparks, WaitEnds, EnsureFreshSucceeds
<1>5. CASE EnsureFreshFails(r) \/ Condemned(r) \/ Renews(r) \/ RenewSucceeds(r) \/ RenewFails(r) \/ Exhausted(r)
  BY <1>5 DEF EnsureFreshFails, Condemned, Renews, RenewSucceeds, RenewFails, Exhausted, Again
<1>6. CASE Throttled(r) \/ \E kind \in {"overload", "transport"} : BacksOff(r, kind) \/ GivesUpOn(r, kind)
  BY <1>6 DEF Throttled, BacksOff, GivesUpOn, WaitThenAgain, Again
<1> QED BY <1>1, <1>2, <1>3, <1>4, <1>5, <1>6 DEF Step

\* Every step keeps it, whoever takes it (engine.go Execute, its marks, reloads).
LEMMA HopesStayThere ==
    ASSUME ParkEnabled, TypeOK, HopesAreThere, [Next]_vars
    PROVE  HopesAreThere'
<1> USE DEF TypeOK
<1>1. ASSUME NEW r \in Requests, Arrive(r) \/ Step(r) \/ Cancel(r)
      PROVE  HopesAreThere'
  <2>1. ASSUME NEW s \in Requests, NEW a \in hopes'[s]
        PROVE  a \in pool' /\ Available(a)' /\ (s # r => a \in hopes[s])
    BY <1>1, <2>1, HopesLast DEF HopesAreThere
  <2>2. ASSUME NEW s \in Requests, s # r, pc'[s] \in {"unusable", "idle", "done"}
        PROVE  hopes'[s] = {}
    <3>1. pc'[s] = pc[s]
      BY <1>1, <2>2, WhatAStepWrites
    <3> QED BY <2>1, <2>2, <3>1 DEF HopesAreThere
  <2>3. pc'[r] \in {"unusable", "idle", "done"} => hopes'[r] = {}
    BY <1>1, NoHopeInTheEnd
  <2> QED BY <2>1, <2>2, <2>3 DEF HopesAreThere, Available
<1>2. CASE Reload
  BY <1>2 DEF Reload, HopesAreThere, Available, healths
<1>3. ASSUME NEW b \in Accounts, ResetHealth(b)
      PROVE  HopesAreThere'
  BY <1>3 DEF ResetHealth, Mark, HopesAreThere, Available
<1>4. CASE Tick
  <2>1. pc' = pc /\ hopes' = hopes /\ pool' = pool
    BY <1>4 DEF Tick, pools, history
  <2>2. ASSUME NEW r \in Requests, NEW a \in hopes[r]
        PROVE  a \in pool /\ Available(a)'
    BY <1>4, <2>2, AvailableLasts DEF HopesAreThere
  <2> QED BY <2>1, <2>2 DEF HopesAreThere, Available
<1>5. CASE UNCHANGED vars
  BY <1>5 DEF vars, pools, healths, history, HopesAreThere, Available
<1> QED BY <1>1, <1>2, <1>3, <1>4, <1>5 DEF Next

\* With parking on, the engine gives a request no error of its own while an account
\* that was only overloaded or unreachable for it is left, for any number of
\* requests, whatever they conclude and however often accounts.json is reloaded
\* (engine.go Execute, park).
THEOREM OverloadsNeverSurface ==
    ASSUME ParkEnabled
    PROVE  Spec => OverloadNeverSurfaces
<1>1. Init => HopesAreThere /\ NoIdleWait
  BY DEF Init, HopesAreThere, NoIdleWait
<1>2. TypeOK /\ HopesAreThere /\ NoIdleWait /\ [Next]_vars => HopesAreThere' /\ NoIdleWait'
  BY HopesStayThere, NoWaitWithoutReason
<1>3. ASSUME TypeOK, HopesAreThere, NoIdleWait, Next, NEW r \in Requests,
             result'[r] \in OwnErrors, result[r] \notin OwnErrors
      PROVE  hopes[r] = {}
  <2>1. CASE Unusable(r)
    BY <1>3, <2>1 DEF Unusable, HopesAreThere
  <2>2. CASE Park(r) /\ pc'[r] = "done"
    BY <1>3, <2>2, ParkTakesWhatIsThere DEF HopesAreThere
  <2>3. CASE Arrive(r)
    BY <1>3, <2>3 DEF Arrive, HopesAreThere
  <2> QED BY <1>3, <2>1, <2>2, <2>3, OwnErrorsComeFrom
<1>4. TypeOK /\ HopesAreThere /\ NoIdleWait /\ [Next]_vars
      => [\A r \in Requests :
            result'[r] \in OwnErrors /\ result[r] \notin OwnErrors => hopes[r] = {}]_vars
  BY <1>3
<1> QED BY <1>1, <1>2, <1>4, TypeCorrect, PTL DEF Spec, OverloadNeverSurfaces
=============================================================================
