------------------------------- MODULE Engine -------------------------------
(***************************************************************************)
(* internal/engine: Execute answers every client request from one pool of  *)
(* accounts.  Several requests run at once; what they share is the pool,   *)
(* each account's health and the sticky map.                               *)
(*                                                                         *)
(* Time is relative.  A stored deadline (Health.Until, Health.ResetAt, a   *)
(* window's reset, the end of a sticky entry, a timer) is the number of    *)
(* ticks left until it, and Tick takes one off each.  lag[r] is the age of *)
(* the `now` that r read at the top of its loop: the code turns what an    *)
(* upstream says into a deadline from that reading, however long the       *)
(* exchange took.                                                          *)
(***************************************************************************)
EXTENDS Integers, FiniteSets

CONSTANTS
    Requests, Accounts, Convs,   \* client requests, accounts of one lane, conversations
    NoAccount, NoConv,           \* "no account" and the key of an empty body
    OAuth,                       \* the accounts that are subscriptions; the others are API keys
    Rank,                        \* position by (Priority, ID)
    ConvOf,                      \* ConversationKey of each request
    Sticky, StickyTTL,           \* rotation.sticky, rotation.sticky_ttl
    RotateAfter, AuthRefreshAttempts, OverloadInitial, OverloadMax,
    ParkEnabled, Buffer, MaxHold,
    MinCooldown,                 \* engine.minCooldown
    Answers,                     \* the kinds of answer the upstream may give
    RetryAfters,                 \* waits a short throttle may ask for
    Resets,                      \* ticks to a spent window's reset; 0 is a moment already past
    Drains,                      \* ticks for which an observed window may stay above drain_above
    TokensExpire,                \* whether an access token may be found expired
    MaxLag,                      \* bound: lag saturates here, above every wait and reset
    MaxStreak,                   \* bound: the streak saturates here, where backoff is at its cap
    MaxReloads                   \* bound: reloads of accounts.json

Kinds == {"relay", "fatal", "auth", "throttle", "overload", "transport", "exhausted"}
HealthStates == {"available", "cooling", "exhausted", "invalid"}
Results == {"none", "relayed", "fatal", "noaccounts", "rejected", "parktoolong", "cancelled"}

ASSUME IdentityAssumption ==
    /\ NoAccount \notin Accounts
    /\ NoConv \notin Convs
    /\ OAuth \subseteq Accounts
    /\ Rank \in [Accounts -> Nat]
    /\ \A a, b \in Accounts : Rank[a] = Rank[b] => a = b
    /\ ConvOf \in [Requests -> Convs \cup {NoConv}]

ASSUME ConfigAssumption ==
    /\ Sticky \in BOOLEAN /\ StickyTTL \in Nat
    /\ RotateAfter \in Nat \ {0} /\ AuthRefreshAttempts \in Nat
    /\ OverloadInitial \in Nat \ {0} /\ OverloadMax \in Nat /\ OverloadInitial <= OverloadMax
    /\ ParkEnabled \in BOOLEAN /\ Buffer \in Nat /\ MaxHold \in Nat
    /\ MinCooldown \in Nat \ {0}

ASSUME UpstreamAssumption ==
    /\ Answers \subseteq Kinds
    /\ RetryAfters \subseteq Nat /\ Resets \subseteq Nat /\ Drains \subseteq Nat
    /\ TokensExpire \in BOOLEAN
    /\ MaxLag \in Nat /\ \A t \in RetryAfters \cup Resets : t <= MaxLag
    /\ MaxStreak \in Nat /\ MaxStreak >= RotateAfter
    /\ OverloadInitial * 2 ^ (MaxStreak - 1) >= OverloadMax
    /\ MaxReloads \in Nat

VARIABLES
    pool,      \* the enabled, usable accounts: what Store.Accounts returns
    epoch,     \* how often the operator has replaced each account's credential
    toReset,   \* accounts a reload still has to call ResetHealth for
    state,     \* Health.State of each account
    left,      \* ticks until its Until (cooling) or ResetAt (exhausted)
    drain,     \* ticks for which its last observed windows read as drained
    sticky,    \* stickyMap: conversation |-> account and ticks until the TTL
    reloads,   \* reloads so far
    pc,        \* where each request's Execute stands
    acct,      \* the account of its current attempt
    cred,      \* the epoch of the credential it holds a clone of
    tried,     \* accounts it skips this round
    streak,    \* overloadStreak
    auth,      \* authAttempts
    lag,       \* age of its `now`
    timer,     \* ticks left of the wait it is in
    result,    \* what Execute returned
    renewed,   \* history: renewals it has been through, per account
    absorbed,  \* history: answers in a row from acct that were overloads
    hopes,     \* history: accounts that were overloaded for it, and judged by nobody since
    moved      \* history: accounts it has looked at, and somebody else has changed since

pools   == <<pool, epoch, toReset, reloads>>
healths == <<state, left>>
locals  == <<acct, cred, tried, streak, auth, lag, timer>>
history == <<renewed, absorbed, hopes, moved>>
vars == <<pools, healths, drain, sticky, pc, locals, result, history>>

-----------------------------------------------------------------------------
(* Small helpers.                                                          *)

Least(S) == CHOOSE m \in S : \A n \in S : m <= n
Down(n) == IF n > 0 THEN n - 1 ELSE 0
NoEntry == [acct |-> NoAccount, left |-> 0]

(* Store.Accounts: subscriptions before API keys, then Priority, then ID.  *)
Precedes(a, b) == \/ a \in OAuth /\ b \notin OAuth
                  \/ (a \in OAuth <=> b \in OAuth) /\ Rank[a] <= Rank[b]
First(S) == CHOOSE a \in S : \A b \in S : Precedes(a, b)

(* Health.Available and Health.NextAvailable, a deadline being a remainder. *)
(* mutant: one tick early.                                                 *)
AvailableEarly(a) == CASE state[a] = "invalid" -> FALSE
                       [] state[a] \in {"cooling", "exhausted"} -> left[a] <= 1
                       [] OTHER -> TRUE
Available(a) == CASE state[a] = "invalid" -> FALSE
                  [] state[a] \in {"cooling", "exhausted"} -> left[a] = 0
                  [] OTHER -> TRUE
(* mutant: forgets the accounts that were only tried.                      *)
Deferred == {a \in pool : state[a] \in {"cooling", "exhausted"}}
Recovers == {a \in pool : state[a] # "invalid"}
SoonestRecovery == Least({left[a] : a \in Recovers})

Usable(r) == {a \in pool \ tried[r] : Available(a)}
Fresh(S) == {a \in S : drain[a] = 0}

(* selectAccount, once something is usable: drained accounts only if there *)
(* is nothing else, the conversation's account if it survived that, then   *)
(* the store's order.                                                      *)
Choice(r) == LET candidates == IF Fresh(Usable(r)) # {} THEN Fresh(Usable(r)) ELSE Usable(r)
                 c == ConvOf[r]
             IN  IF Sticky /\ c # NoConv /\ sticky[c].acct \in candidates
                 THEN sticky[c].acct
                 ELSE First(candidates)

(* skewAllowance is Buffer, but never longer than the wait it is added to. *)
SkewAllowance(wait) == Least({Buffer, wait})

(* backoff: doubled per attempt up to OverloadMax, times a jitter in       *)
(* [0.5, 1.5); a fraction of a tick counts as one.                         *)
BackoffBase(n) == LET d == OverloadInitial * 2 ^ (n - 1) IN Least({d, OverloadMax})
Backoff(n) == {d \in 1 .. 2 * OverloadMax : 2 * d >= BackoffBase(n) /\ 2 * d < 3 * BackoffBase(n)}

-----------------------------------------------------------------------------
(* What a request is doing.                                                *)

Computing == {"select", "park", "unusable"}   \* between two blocking calls
InFlight  == {"refresh", "send", "renew"}     \* waiting for an upstream
Resting   == {"idle", "wait", "parked", "done"}
Running   == Computing \cup InFlight \cup {"wait", "parked"}

Goto(r, label) == pc' = [pc EXCEPT ![r] = label]

(* Execute returns: its locals are gone.                                   *)
Return(r, res) ==
    /\ Goto(r, "done")
    /\ result' = [result EXCEPT ![r] = res]
    /\ acct' = [acct EXCEPT ![r] = NoAccount]
    /\ cred' = [cred EXCEPT ![r] = 0]
    /\ tried' = [tried EXCEPT ![r] = {}]
    /\ streak' = [streak EXCEPT ![r] = 0]
    /\ auth' = [auth EXCEPT ![r] = [a \in Accounts |-> 0]]
    /\ lag' = [lag EXCEPT ![r] = 0]
    /\ timer' = [timer EXCEPT ![r] = 0]
    /\ renewed' = [renewed EXCEPT ![r] = [a \in Accounts |-> 0]]
    /\ absorbed' = [absorbed EXCEPT ![r] = 0]
    /\ hopes' = [hopes EXCEPT ![r] = {}]

(* The next iteration of the loop, at once or after a wait of d.           *)
Again(r) == Goto(r, "select") /\ UNCHANGED timer
WaitThenAgain(r, d) == IF d = 0 THEN Again(r)
                       ELSE Goto(r, "wait") /\ timer' = [timer EXCEPT ![r] = d]
Skip(r) == tried' = [tried EXCEPT ![r] = @ \cup {acct[r]}]
Drop(r) == cred' = [cred EXCEPT ![r] = 0] /\ lag' = [lag EXCEPT ![r] = 0] /\ UNCHANGED acct

(* The four ways an account's health is written.                           *)
Mark(a, s, d) == state' = [state EXCEPT ![a] = s] /\ left' = [left EXCEPT ![a] = d]
MarkSuccess(r) ==
    /\ Mark(acct[r], "available", 0)
    /\ sticky' = IF ConvOf[r] = NoConv THEN sticky
                 ELSE [sticky EXCEPT ![ConvOf[r]] = [acct |-> acct[r], left |-> StickyTTL]]
MarkCooling(r, retryAfter) ==
    Mark(acct[r], "cooling", IF retryAfter > lag[r] THEN retryAfter - lag[r] ELSE 0)
(* mutants: a reset already past is kept as it is, or as a deadline now.   *)
MarkExhaustedAt(r, reset) == Mark(acct[r], "exhausted", reset - lag[r])
MarkExhaustedNow(r, reset) ==
    Mark(acct[r], "exhausted", IF reset > lag[r] THEN reset - lag[r] ELSE 0)
MarkExhausted(r, reset) ==
    Mark(acct[r], "exhausted", IF reset > lag[r] THEN reset - lag[r] ELSE MinCooldown)
MarkInvalid(r) == Mark(acct[r], "invalid", 0)

(* History.  Between selectAccount and the answer a request goes by what   *)
(* it saw of its account, between park and unusable by what it saw of all. *)
Watched(r) == {a \in Accounts : pc[r] = "unusable" \/ (pc[r] \in InFlight /\ a = acct[r])}
Changed(S) == moved' = [r \in Requests |-> moved[r] \cup (S \cap Watched(r))]
ChangedBy(r) == moved' = [s \in Requests |-> IF s = r THEN {}
                                              ELSE moved[s] \cup ({acct[r]} \cap Watched(s))]
Judged(r) == ChangedBy(r) /\ hopes' = [s \in Requests |-> hopes[s] \ {acct[r]}]
Unmoved(r) == moved' = [moved EXCEPT ![r] = {}]
Hopes(r) == /\ hopes' = [hopes EXCEPT ![r] = @ \cup ({acct[r]} \cap {a \in pool : Available(a)})]
            /\ Unmoved(r)

-----------------------------------------------------------------------------
Init ==
    /\ pool \in SUBSET Accounts
    /\ epoch = [a \in Accounts |-> 0] /\ toReset = {} /\ reloads = 0
    /\ state \in [Accounts -> HealthStates]    \* state.json of an earlier run
    /\ left \in [Accounts -> {0} \cup RetryAfters \cup Resets]
    /\ \A a \in Accounts : state[a] \in {"available", "invalid"} => left[a] = 0
    /\ drain = [a \in Accounts |-> 0]
    /\ sticky = [c \in Convs |-> NoEntry]      \* never persisted
    /\ pc = [r \in Requests |-> "idle"]
    /\ acct = [r \in Requests |-> NoAccount]
    /\ cred = [r \in Requests |-> 0]
    /\ tried = [r \in Requests |-> {}]
    /\ streak = [r \in Requests |-> 0]
    /\ auth = [r \in Requests |-> [a \in Accounts |-> 0]]
    /\ lag = [r \in Requests |-> 0]
    /\ timer = [r \in Requests |-> 0]
    /\ result = [r \in Requests |-> "none"]
    /\ renewed = [r \in Requests |-> [a \in Accounts |-> 0]]
    /\ absorbed = [r \in Requests |-> 0]
    /\ hopes = [r \in Requests |-> {}]
    /\ moved = [r \in Requests |-> {}]

(* A client sends a request; a lane with no enabled account ends it here.  *)
Arrive(r) ==
    /\ pc[r] \in {"idle", "done"}
    /\ Goto(r, IF pool = {} THEN "done" ELSE "select")
    /\ result' = [result EXCEPT ![r] = IF pool = {} THEN "noaccounts" ELSE "none"]
    /\ UNCHANGED <<pools, healths, drain, sticky, locals, history>>

(* The top of the loop.  An access token may be found (nearly) expired.    *)
Select(r) ==
    /\ pc[r] = "select"
    /\ Usable(r) # {}
    /\ \/ Goto(r, "send")
       \/ TokensExpire /\ Choice(r) \in OAuth /\ Goto(r, "refresh")
    /\ acct' = [acct EXCEPT ![r] = Choice(r)]
    /\ cred' = [cred EXCEPT ![r] = epoch[Choice(r)]]
    /\ absorbed' = [absorbed EXCEPT ![r] = IF acct[r] = Choice(r) THEN @ ELSE 0]
    /\ UNCHANGED <<pools, healths, drain, sticky, tried, streak, auth, lag, timer,
                   result, renewed, hopes, moved>>

NothingSelectable(r) ==
    /\ pc[r] = "select"
    /\ Usable(r) = {}
    /\ Goto(r, "park")
    /\ UNCHANGED <<pools, healths, drain, sticky, locals, result, history>>

(* park: nothing to wait for, or parking is off.                           *)
(* mutant: a wait beyond max_hold is reported as a rejection would be.     *)
CannotParkThatLong(r) ==
    /\ pc[r] = "park"
    /\ Recovers = {} \/ ~ParkEnabled \/ (Recovers # {} /\ SoonestRecovery + Buffer > MaxHold)
    /\ Goto(r, "unusable")
    /\ UNCHANGED <<pools, healths, drain, sticky, locals, result, history>>
CannotPark(r) ==
    /\ pc[r] = "park"
    /\ Recovers = {} \/ ~ParkEnabled
    /\ Goto(r, "unusable")
    /\ UNCHANGED <<pools, healths, drain, sticky, locals, result, history>>

(* park: wait for the soonest recovery and the allowance on top of it; an  *)
(* account that is available already was only tried, and starts a new      *)
(* round with no wait at all.                                              *)
(* mutant: the accounts already tried stay skipped.                        *)
NextRound(r) == streak' = [streak EXCEPT ![r] = 0] /\ UNCHANGED tried
NewRound(r) ==
    /\ tried' = [tried EXCEPT ![r] = {}]
    /\ streak' = [streak EXCEPT ![r] = 0]

Park(r) ==
    /\ pc[r] = "park"
    /\ Recovers # {} /\ ParkEnabled
    /\ LET hold == SoonestRecovery + SkewAllowance(SoonestRecovery)
       IN  \/ /\ hold = 0
              /\ NewRound(r) /\ Goto(r, "select")
              /\ UNCHANGED <<acct, cred, auth, lag, timer, result, history>>
           \/ /\ hold > MaxHold
              /\ Return(r, "parktoolong") /\ UNCHANGED moved
           \/ /\ hold \in 1 .. MaxHold
              /\ Goto(r, "parked") /\ timer' = [timer EXCEPT ![r] = hold]
              /\ UNCHANGED <<acct, cred, tried, streak, auth, lag, result, history>>
    /\ UNCHANGED <<pools, healths, drain, sticky>>

Unparks(r) ==
    /\ pc[r] = "parked" /\ timer[r] = 0
    /\ NewRound(r) /\ Goto(r, "select")
    /\ UNCHANGED <<pools, healths, drain, sticky, acct, cred, auth, lag, timer, result, history>>

(* unusable: any rejected account makes it a rejection.                    *)
Unusable(r) ==
    /\ pc[r] = "unusable"
    /\ Return(r, IF \E a \in pool : state[a] = "invalid" THEN "rejected" ELSE "noaccounts")
    /\ Unmoved(r)
    /\ UNCHANGED <<pools, healths, drain, sticky>>

WaitEnds(r) ==
    /\ pc[r] = "wait" /\ timer[r] = 0
    /\ Goto(r, "select")
    /\ UNCHANGED <<pools, healths, drain, sticky, locals, result, history>>

-----------------------------------------------------------------------------
(* ensureFresh, before the attempt.                                        *)
EnsureFreshSucceeds(r) ==
    /\ pc[r] = "refresh"
    /\ Goto(r, "send")
    /\ cred' = [cred EXCEPT ![r] = epoch[acct[r]]]
    /\ UNCHANGED <<pools, healths, drain, sticky, acct, tried, streak, auth, lag, timer,
                   result, history>>

EnsureFreshFails(r) ==
    /\ pc[r] = "refresh"
    /\ MarkInvalid(r) /\ Skip(r) /\ Drop(r) /\ Again(r)
    /\ Judged(r)
    /\ absorbed' = [absorbed EXCEPT ![r] = 0]
    /\ UNCHANGED <<pools, drain, sticky, streak, auth, result, renewed>>

(* An answer of some kind comes back; observe records its quota windows.   *)
Answered(r, kind) ==
    /\ pc[r] = "send"
    /\ kind \in Answers
    /\ \/ drain' = drain
       \/ kind # "transport" /\ \E d \in {0} \cup Drains : drain' = [drain EXCEPT ![acct[r]] = d]

Relay(r) ==
    /\ Answered(r, "relay")
    /\ MarkSuccess(r) /\ Return(r, "relayed") /\ ChangedBy(r)
    /\ UNCHANGED pools

Fatal(r) ==
    /\ Answered(r, "fatal")
    /\ Return(r, "fatal") /\ Unmoved(r)
    /\ UNCHANGED <<pools, healths, sticky>>

(* RefreshAuth: a key, or a subscription past its budget, is condemned;    *)
(* otherwise its token is renewed.  Past the budget auth saturates.        *)
(* mutant: one budget for all the accounts of a request.                   *)
CondemnsOverAny(r) == acct[r] \notin OAuth \/ \E a \in Accounts : auth[r][a] + 1 > AuthRefreshAttempts
Condemns(r) == acct[r] \notin OAuth \/ auth[r][acct[r]] + 1 > AuthRefreshAttempts

Condemned(r) ==
    /\ Answered(r, "auth")
    /\ Condemns(r)
    /\ MarkInvalid(r) /\ Skip(r) /\ Drop(r) /\ Again(r)
    /\ auth' = IF acct[r] \in OAuth
               THEN [auth EXCEPT ![r][acct[r]] = AuthRefreshAttempts + 1] ELSE auth
    /\ Judged(r)
    /\ absorbed' = [absorbed EXCEPT ![r] = 0]
    /\ UNCHANGED <<pools, sticky, streak, result, renewed>>

Renews(r) ==
    /\ Answered(r, "auth")
    /\ ~Condemns(r)
    /\ Goto(r, "renew")
    /\ auth' = [auth EXCEPT ![r][acct[r]] = @ + 1]
    /\ absorbed' = [absorbed EXCEPT ![r] = 0]
    /\ UNCHANGED <<pools, healths, sticky, acct, cred, tried, streak, lag, timer, result,
                   renewed, hopes, moved>>

RenewSucceeds(r) ==
    /\ pc[r] = "renew"
    /\ Drop(r) /\ Again(r)
    /\ Unmoved(r)
    /\ renewed' = [renewed EXCEPT ![r][acct[r]] = @ + 1]
    /\ UNCHANGED <<pools, healths, drain, sticky, tried, streak, auth, result, absorbed, hopes>>

RenewFails(r) ==
    /\ pc[r] = "renew"
    /\ MarkInvalid(r) /\ Skip(r) /\ Drop(r) /\ Again(r)
    /\ Judged(r)
    /\ renewed' = [renewed EXCEPT ![r][acct[r]] = @ + 1]
    /\ UNCHANGED <<pools, drain, sticky, streak, auth, result, absorbed>>

(* An overload or a transport failure: back off on the same account, or    *)
(* skip it once the streak is long enough.  Only an overload looks at      *)
(* whether there is another account to go to.                              *)
Streak(r) == Least({streak[r] + 1, MaxStreak})
Rotates(r, kind) == Streak(r) >= RotateAfter /\ (kind = "overload" => Cardinality(pool) > 1)

BacksOff(r, kind) ==
    /\ Answered(r, kind)
    /\ ~Rotates(r, kind)
    /\ streak' = [streak EXCEPT ![r] = Streak(r)]
    /\ \E d \in Backoff(Streak(r)) : WaitThenAgain(r, d)
    /\ Drop(r)
    /\ absorbed' = [absorbed EXCEPT ![r] = Least({@ + 1, MaxStreak})]
    /\ Hopes(r)
    /\ UNCHANGED <<pools, healths, sticky, tried, auth, result, renewed>>

GivesUpOn(r, kind) ==
    /\ Answered(r, kind)
    /\ Rotates(r, kind)
    /\ streak' = [streak EXCEPT ![r] = 0]
    /\ Skip(r) /\ Drop(r) /\ Again(r)
    /\ absorbed' = [absorbed EXCEPT ![r] = 0]
    /\ Hopes(r)
    /\ UNCHANGED <<pools, healths, sticky, auth, result, renewed>>

Throttled(r) ==
    /\ Answered(r, "throttle")
    /\ \E t \in RetryAfters : MarkCooling(r, t) /\ WaitThenAgain(r, t)
    /\ Drop(r)
    /\ Judged(r)
    /\ absorbed' = [absorbed EXCEPT ![r] = 0]
    /\ UNCHANGED <<pools, sticky, tried, streak, auth, result, renewed>>

Exhausted(r) ==
    /\ Answered(r, "exhausted")
    /\ \E t \in Resets : MarkExhausted(r, t)
    /\ streak' = [streak EXCEPT ![r] = 0]
    /\ Skip(r) /\ Drop(r) /\ Again(r)
    /\ Judged(r)
    /\ absorbed' = [absorbed EXCEPT ![r] = 0]
    /\ UNCHANGED <<pools, sticky, auth, result, renewed>>

(* The client goes away: every blocking call and the loop head notice.     *)
Cancel(r) ==
    /\ pc[r] \in InFlight \cup {"select", "wait", "parked"}
    /\ Return(r, "cancelled") /\ Unmoved(r)
    /\ UNCHANGED <<pools, healths, drain, sticky>>

-----------------------------------------------------------------------------
(* handleReload: Store.Reload adopts the file the CLI wrote, then each     *)
(* account whose credential changed or that the caller named is forgiven.  *)
Reload ==
    /\ reloads < MaxReloads
    /\ reloads' = reloads + 1
    /\ \E enabled, named \in SUBSET Accounts : \E replaced \in SUBSET enabled :
         /\ pool' = enabled
         /\ epoch' = [a \in Accounts |-> epoch[a] + (IF a \in replaced THEN 1 ELSE 0)]
         /\ toReset' = toReset \cup replaced \cup named
         /\ Changed((pool \ enabled) \cup (enabled \ pool))
         /\ hopes' = [r \in Requests |-> hopes[r] \cap enabled]
    /\ UNCHANGED <<healths, drain, sticky, pc, locals, result, renewed, absorbed>>

ResetHealth(a) ==
    /\ a \in toReset
    /\ toReset' = toReset \ {a}
    /\ Mark(a, "available", 0)
    /\ drain' = [drain EXCEPT ![a] = 0]
    /\ Changed({a})
    /\ UNCHANGED <<pool, epoch, reloads, sticky, pc, locals, result, renewed, absorbed, hopes>>

(* The environment.  A tick is far longer than a loop iteration, so it     *)
(* falls only when every request is in a blocking call.                    *)
Tick ==
    /\ \A r \in Requests : pc[r] \notin Computing
    /\ left' = [a \in Accounts |-> Down(left[a])]
    /\ drain' = [a \in Accounts |-> Down(drain[a])]
    /\ sticky' = [c \in Convs |-> IF sticky[c].left = 0 THEN NoEntry
                                   ELSE [sticky[c] EXCEPT !.left = @ - 1]]
    /\ timer' = [r \in Requests |-> Down(timer[r])]
    /\ lag' = [r \in Requests |-> IF pc[r] \in {"refresh", "send"}
                                   THEN Least({lag[r] + 1, MaxLag}) ELSE lag[r]]
    /\ UNCHANGED <<pools, state, pc, acct, cred, tried, streak, auth, result, history>>

(* What Execute itself does, once an upstream answers.                     *)
Step(r) ==
    \/ Select(r) \/ NothingSelectable(r) \/ CannotPark(r) \/ Park(r) \/ Unparks(r)
    \/ Unusable(r) \/ WaitEnds(r)
    \/ EnsureFreshSucceeds(r) \/ EnsureFreshFails(r)
    \/ Relay(r) \/ Fatal(r)
    \/ Condemned(r) \/ Renews(r) \/ RenewSucceeds(r) \/ RenewFails(r)
    \/ \E kind \in {"overload", "transport"} : BacksOff(r, kind) \/ GivesUpOn(r, kind)
    \/ Throttled(r) \/ Exhausted(r)

Next ==
    \/ \E r \in Requests : Arrive(r) \/ Step(r) \/ Cancel(r)
    \/ Reload
    \/ \E a \in Accounts : ResetHealth(a)
    \/ Tick

Spec == Init /\ [][Next]_vars

(* The goroutine of a request runs, and an upstream answers in the end.    *)
StepFairness == \A r \in Requests : WF_vars(Step(r))
RunSpec == Spec /\ StepFairness
(* Time passes, however busy the requests are.                             *)
FairSpec == RunSpec /\ SF_vars(Tick)

-----------------------------------------------------------------------------
(* Properties.                                                             *)

\* Every variable has its type, and what an abandoned attempt leaves behind
\* is what the code leaves: nothing survives Execute (engine.go Execute).
TypeOK ==
    /\ pool \subseteq Accounts /\ toReset \subseteq Accounts /\ reloads \in 0 .. MaxReloads
    /\ epoch \in [Accounts -> Nat]
    /\ state \in [Accounts -> HealthStates]
    /\ left \in [Accounts -> Nat] /\ drain \in [Accounts -> Nat]
    /\ sticky \in [Convs -> [acct : Accounts \cup {NoAccount}, left : Nat]]
    /\ pc \in [Requests -> Running \cup {"idle", "done"}]
    /\ acct \in [Requests -> Accounts \cup {NoAccount}]
    /\ cred \in [Requests -> Nat]
    /\ tried \in [Requests -> SUBSET Accounts]
    /\ streak \in [Requests -> Nat]
    /\ auth \in [Requests -> [Accounts -> Nat]]
    /\ lag \in [Requests -> Nat] /\ timer \in [Requests -> Nat]
    /\ result \in [Requests -> Results]
    /\ renewed \in [Requests -> [Accounts -> Nat]]
    /\ absorbed \in [Requests -> Nat]
    /\ hopes \in [Requests -> SUBSET Accounts]
    /\ moved \in [Requests -> SUBSET Accounts]
    /\ \A r \in Requests : pc[r] \in InFlight => acct[r] \in Accounts

\* A subscription is condemned over a 401 only after this very request has
\* put its token through auth_refresh_attempts renewals: the refusals of another
\* account, or met by another request, never use its budget up (engine.go, authAttempts).
CondemnedAfterRenewals ==
    [][\A r \in Requests :
          LET a == acct[r]
          IN  /\ pc[r] = "send" /\ pc'[r] = "select" /\ a \in OAuth
              /\ state[a] # "invalid" /\ state'[a] = "invalid"
              => renewed[r][a] >= AuthRefreshAttempts]_vars

\* What was concluded about an account stands, whatever other requests meet: a
\* refusal until the operator acts on it, a spent window until its reset.  No
\* attempt is begun against it; the answer to one begun before may still take it
\* back (health.go Available, engine.go selectAccount and the mark functions).
VerdictsStand ==
    [][\A a \in Accounts :
          /\ state[a] = "invalid" \/ (state[a] = "exhausted" /\ left[a] > 0)
          /\ state'[a] # state[a]
          => \/ a \in toReset /\ a \notin toReset'
             \/ \E r \in Requests : /\ pc[r] \in InFlight /\ pc'[r] \notin InFlight
                                    /\ acct[r] = a /\ a \in moved[r]]_vars

\* What was concluded about an account is never taken back by the answer to an
\* older attempt (engine.go:522 markSuccess; health.go:70 "never recovers on its own").
NoLateAnswerOverturns ==
    [][\A a \in Accounts :
          /\ state[a] = "invalid" \/ (state[a] = "exhausted" /\ left[a] > 0)
          /\ state'[a] # state[a]
          => a \in toReset /\ a \notin toReset']_vars

\* An account is condemned only by a refusal of the credential it holds now,
\* never by one the operator has replaced, or else is about to be forgiven
\* (store.go Reload, proxy.go handleReload, engine.go markInvalid).
VerdictsAreCurrent ==
    [][\A r \in Requests :
          LET a == acct[r]
          IN  /\ pc[r] \in InFlight /\ pc'[r] = "select"
              /\ state[a] # "invalid" /\ state'[a] = "invalid"
              => cred[r] = epoch[a] \/ a \in toReset]_vars

\* "Every account was rejected" is said only when every account was: never
\* while one is merely spent and would recover, unless somebody else has changed
\* that account since park looked at it (engine.go unusable, park).
RejectedMeansAllRefused ==
    [][\A r \in Requests :
          result'[r] = "rejected" /\ result[r] # "rejected"
          => \A a \in pool \ moved[r] : state[a] = "invalid"]_vars

\* A request is never given an error of the engine's own while there is an account
\* that was only overloaded or unreachable for it, and that neither it, another
\* request nor the operator has taken out of rotation since: it goes back to that
\* account for as long as it takes (engine.go Execute, park; lane.go Outcome.Overload).
OwnErrors == {"noaccounts", "rejected", "parktoolong"}
OverloadNeverSurfaces ==
    [][\A r \in Requests :
          result'[r] \in OwnErrors /\ result[r] \notin OwnErrors => hopes[r] = {}]_vars

\* An account is skipped over overloads only once it has itself answered
\* rotate_after of them in a row (engine.go overloadStreak).
OverloadsAbsorbedFirst ==
    [][\A r \in Requests :
          /\ pc[r] = "send" /\ pc'[r] = "select"
          /\ acct[r] \in tried'[r] /\ state'[acct[r]] = state[acct[r]]
          /\ acct[r] \in hopes'[r]
          => absorbed[r] + 1 >= RotateAfter]_vars

\* No hot loop: a request that never returns keeps coming to rest in a real
\* wait, unless time itself passes in its exchanges (engine.go minCooldown).
NoHotLoop ==
    \A r \in Requests : []<>(pc[r] \in Resting) \/ []<><<Tick>>_vars

\* The upstream or a token exchange fails a request in some way.
Trouble ==
    \E r \in Requests :
        \/ EnsureFreshFails(r) \/ Condemned(r) \/ Renews(r) \/ RenewFails(r)
        \/ \E kind \in {"overload", "transport"} : BacksOff(r, kind) \/ GivesUpOn(r, kind)
        \/ Throttled(r) \/ Exhausted(r)

\* Once the upstream serves what it is sent, every request is answered,
\* whatever it was waiting for (engine.go Execute, park).
EventuallyAnswered ==
    <>[][~Trouble]_vars => \A r \in Requests : pc[r] = "select" ~> pc[r] = "done"
=============================================================================
