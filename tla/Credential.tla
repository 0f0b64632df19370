----------------------------- MODULE Credential -----------------------------
(***************************************************************************)
(* One subscription's credential: the refresh token that the upstream      *)
(* rotates on every use, the copies of it in the daemon's memory, in       *)
(* accounts.json and in a CLI process, and the requests that notice it has *)
(* expired (internal/engine refresh.go, internal/store store.go).          *)
(*                                                                         *)
(* A token stands for an access token with its refresh token: the lineage  *)
(* a sign-in started and how often it has been rotated since.              *)
(***************************************************************************)
EXTENDS Naturals

CONSTANTS
    Callers,      \* request goroutines
    NoCaller, Reloader,
    MaxGen,       \* bound: tokens of this generation do not expire
    MaxCli,       \* bound: CLI commands
    CliOps,       \* what the CLI may be asked: "disable", "login", "other"
    Events        \* what else may happen

ASSUME CredentialAssumption ==
    /\ NoCaller \notin Callers /\ Reloader \notin Callers /\ NoCaller # Reloader
    /\ MaxGen \in Nat /\ MaxCli \in Nat
    /\ CliOps \subseteq {"disable", "login", "other"}
    /\ Events \subseteq {"reload", "restart", "shutdown", "revoke", "transport", "cancel", "disk"}

VARIABLES
    live,      \* upstream: the generation of each lineage it still honours, 0 for none
    expired,   \* access tokens past their life
    mem,       \* the pool's record of the account
    file,      \* the record in accounts.json
    invalid,   \* Health.State = invalid
    writer,    \* who holds writeMu
    calls,     \* refreshGroup.calls: the leader of the refresh in flight
    pc, held, got, ok, leader, gone,  \* each caller: where it stands, the token of its clone,
               \* of the refreshed account, whether the refresh worked, whose call it
               \* waits for, whether its client has gone away (First where there is none)
    cli, snap, op, cliRuns,           \* a CLI process: where it stands, its own copy of the
               \* pool, its command, and how many ran
    reload, buffer, forgive,          \* /_agentswap/reload: asked for, what it has read, and
               \* whether it still has to forget the account's health
    refused, asked,                   \* history: why the upstream has refused exchanges; the
               \* CLI's commands that were written to the file
    mishaps                           \* history: what has gone wrong around refreshes

callers  == <<pc, held, got, ok, leader, gone>>
upstream == <<live, expired, refused, mishaps>>
process  == <<cli, snap, op, cliRuns, asked>>
reloads  == <<reload, buffer, forgive>>
vars == <<upstream, mem, file, invalid, writer, calls, callers, process, reloads>>

Lineages == {0, 1}         \* the first sign-in and a later one
Token == [line : Lineages, gen : Nat]
Account == [tok : Token, enabled : BOOLEAN]
Honoured(t) == t.gen > 0 /\ live[t.line] = t.gen

(* What may go wrong around a refresh: an exchange "failed" that the       *)
(* upstream had not refused; a token is "lost" when the upstream granted   *)
(* an exchange whose answer did not arrive, when the daemon stops before   *)
(* the file has the new token or cannot write it, and when a command       *)
(* writes back an account whose token the file no longer held.             *)
Mishaps == {"failed", "lost"}
Meets(what) == mishaps' = mishaps \cup what

Leading    == {"get", "exchange", "reply", "update", "write", "delete"}
Exchanging == {"exchange", "reply", "update"}
Labels == {"idle", "holding", "join", "waiting", "done", "answered"} \cup Leading

Goto(c, label) == pc' = [pc EXCEPT ![c] = label]

First == [tok |-> [line |-> 0, gen |-> 1], enabled |-> TRUE]

Init ==
    /\ live = [l \in Lineages |-> IF l = 0 THEN 1 ELSE 0]
    /\ expired = {}
    /\ mem = First /\ file = First
    /\ invalid = FALSE /\ writer = NoCaller /\ calls = NoCaller
    /\ pc = [c \in Callers |-> "idle"]
    /\ held = [c \in Callers |-> First.tok]
    /\ got = [c \in Callers |-> First.tok]
    /\ ok = [c \in Callers |-> FALSE]
    /\ leader = [c \in Callers |-> NoCaller]
    /\ gone = [c \in Callers |-> FALSE]
    /\ cli = "idle" /\ snap = First /\ op = "other" /\ cliRuns = 0
    /\ reload = FALSE /\ buffer = First /\ forgive = FALSE
    /\ refused = {} /\ asked = {} /\ mishaps = {}

-----------------------------------------------------------------------------
(* A request: it takes a clone of the account, and finds by its expiry or  *)
(* by a 401 that the token is no longer good.                              *)
Take(c) ==
    /\ pc[c] = "idle" /\ mem.enabled /\ ~invalid
    /\ held' = [held EXCEPT ![c] = mem.tok]
    /\ Goto(c, "holding")
    /\ UNCHANGED <<upstream, mem, file, invalid, writer, calls, got, ok, leader, gone, process, reloads>>

Use(c) ==
    /\ pc[c] = "holding"
    /\ IF held[c] \in expired
       THEN Goto(c, "join") /\ UNCHANGED held
       ELSE Goto(c, "idle") /\ held' = [held EXCEPT ![c] = First.tok]
    /\ UNCHANGED <<upstream, mem, file, invalid, writer, calls, got, ok, leader, gone, process, reloads>>

(* refreshGroup.do: wait for the call in flight, or become its leader.     *)
(* mutant: whoever comes leads.                                            *)
AlwaysLead(c) ==
    /\ pc[c] = "join"
    /\ calls' = c /\ Goto(c, "get")
    /\ UNCHANGED <<upstream, mem, file, invalid, writer, held, got, ok, leader, gone, process, reloads>>
Join(c) ==
    /\ pc[c] = "join"
    /\ IF calls = NoCaller
       THEN calls' = c /\ Goto(c, "get") /\ UNCHANGED leader
       ELSE leader' = [leader EXCEPT ![c] = calls] /\ Goto(c, "waiting") /\ UNCHANGED calls
    /\ UNCHANGED <<upstream, mem, file, invalid, writer, held, got, ok, gone, process, reloads>>

(* refresh: someone may have renewed the token since the clone was taken.  *)
Get(c) ==
    /\ pc[c] = "get"
    /\ got' = [got EXCEPT ![c] = mem.tok]
    /\ IF mem.tok # held[c]
       THEN ok' = [ok EXCEPT ![c] = TRUE] /\ Goto(c, "delete")
       ELSE Goto(c, "exchange") /\ UNCHANGED ok
    /\ UNCHANGED <<upstream, mem, file, invalid, writer, calls, held, leader, gone, process, reloads>>

(* The exchange reaches the upstream, which rotates what it honours ...    *)
Grant(c) ==
    /\ pc[c] = "exchange" /\ Honoured(got[c])
    /\ live' = [live EXCEPT ![got[c].line] = @ + 1]
    /\ Goto(c, "reply")
    /\ UNCHANGED <<expired, refused, mishaps, mem, file, invalid, writer, calls, held, got, ok, leader, gone, process, reloads>>

(* ... and refuses what it has already retired, or a lineage it revoked.   *)
Refuse(c) ==
    /\ pc[c] = "exchange" /\ ~Honoured(got[c])
    /\ refused' = refused \cup {IF live[got[c].line] = 0 THEN "revoked" ELSE "retired"}
    /\ ok' = [ok EXCEPT ![c] = FALSE]
    /\ Goto(c, "delete")
    /\ UNCHANGED <<live, expired, mishaps, mem, file, invalid, writer, calls, held, got, leader, gone, process, reloads>>

(* mutant: the old refresh token is kept.                                  *)
ReplyIgnored(c) ==
    /\ pc[c] = "reply"
    /\ Goto(c, "update")
    /\ UNCHANGED <<upstream, mem, file, invalid, writer, calls, held, got, ok, leader, gone, process, reloads>>
Reply(c) ==
    /\ pc[c] = "reply"
    /\ got' = [got EXCEPT ![c].gen = @ + 1]
    /\ Goto(c, "update")
    /\ UNCHANGED <<upstream, mem, file, invalid, writer, calls, held, ok, leader, gone, process, reloads>>

(* The exchange fails on the way there or back: the network, or the        *)
(* context of the leader's own request, whose client has gone.             *)
ExchangeFails(c) ==
    /\ pc[c] \in {"exchange", "reply"}
    /\ "transport" \in Events \/ gone[c]
    /\ ok' = [ok EXCEPT ![c] = FALSE]
    /\ Meets({"failed"} \cup IF pc[c] = "reply" THEN {"lost"} ELSE {})
    /\ Goto(c, "delete")
    /\ UNCHANGED <<live, expired, refused, mem, file, invalid, writer, calls, held, got, leader, gone, process, reloads>>

ClientGoes(c) ==
    /\ "cancel" \in Events
    /\ pc[c] \in Leading \cup {"waiting", "answered"} /\ ~gone[c]
    /\ gone' = [gone EXCEPT ![c] = TRUE]
    /\ UNCHANGED <<upstream, mem, file, invalid, writer, calls, pc, held, got, ok, leader, process, reloads>>

(* UpdateAccount: under writeMu, memory and then the file.  A write that   *)
(* fails is only logged.                                                   *)
(* mutants: memory moves without the lock; the file is never written.      *)
UpdateUnlocked(c) ==
    /\ pc[c] = "update"
    /\ mem' = [mem EXCEPT !.tok = got[c]]
    /\ Goto(c, "write")
    /\ UNCHANGED <<upstream, file, invalid, writer, calls, held, got, ok, leader, gone, process, reloads>>
UpdateMemory(c) ==
    /\ pc[c] = "update" /\ writer = NoCaller
    /\ writer' = c
    /\ mem' = [mem EXCEPT !.tok = got[c]]
    /\ Goto(c, "write")
    /\ UNCHANGED <<upstream, file, invalid, calls, held, got, ok, leader, gone, process, reloads>>

FileForgotten(c) ==
    /\ pc[c] = "write"
    /\ writer' = NoCaller
    /\ ok' = [ok EXCEPT ![c] = TRUE]
    /\ Goto(c, "delete")
    /\ UNCHANGED <<upstream, mem, file, invalid, calls, held, got, leader, gone, process, reloads>>
UpdateFile(c) ==
    /\ pc[c] = "write"
    /\ \/ file' = mem /\ UNCHANGED mishaps
       \/ "disk" \in Events /\ file' = file /\ Meets({"lost"})
    /\ writer' = NoCaller
    /\ ok' = [ok EXCEPT ![c] = TRUE]
    /\ Goto(c, "delete")
    /\ UNCHANGED <<live, expired, refused, mem, invalid, calls, held, got, leader, gone, process, reloads>>

(* refreshGroup.do: the call leaves the group, then its followers go on    *)
(* with its result.                                                        *)
Delete(c) ==
    /\ pc[c] = "delete"
    /\ calls' = NoCaller
    /\ Goto(c, "done")
    /\ UNCHANGED <<upstream, mem, file, invalid, writer, held, got, ok, leader, gone, process, reloads>>

(* mutant: nobody wakes the followers.                                     *)
ReleasedAlone(c) == {c}
Released(c) == {c} \cup {w \in Callers : pc[w] = "waiting" /\ leader[w] = c}
(* mutant: the followers do not get the leader's result.                   *)
DoneAlone(c) ==
    /\ pc[c] = "done"
    /\ pc' = [w \in Callers |-> IF w \in Released(c) THEN "answered" ELSE pc[w]]
    /\ leader' = [w \in Callers |-> IF w \in Released(c) THEN NoCaller ELSE leader[w]]
    /\ UNCHANGED <<upstream, mem, file, invalid, writer, calls, held, got, ok, gone, process, reloads>>
Done(c) ==
    /\ pc[c] = "done"
    /\ pc' = [w \in Callers |-> IF w \in Released(c) THEN "answered" ELSE pc[w]]
    /\ got' = [w \in Callers |-> IF w \in Released(c) THEN got[c] ELSE got[w]]
    /\ ok' = [w \in Callers |-> IF w \in Released(c) THEN ok[c] ELSE ok[w]]
    /\ leader' = [w \in Callers |-> IF w \in Released(c) THEN NoCaller ELSE leader[w]]
    /\ UNCHANGED <<upstream, mem, file, invalid, writer, calls, held, gone, process, reloads>>

(* Execute: go on with the renewed token, at once (ensureFresh) or through *)
(* another selection (RefreshAuth); or condemn the account, unless it was  *)
(* this request's own client that went away.                               *)
Answered(c) ==
    /\ pc[c] = "answered"
    /\ \/ ok[c] /\ ~gone[c] /\ held' = [held EXCEPT ![c] = got[c]] /\ Goto(c, "holding")
       \/ held' = [held EXCEPT ![c] = First.tok] /\ Goto(c, "idle")
    /\ invalid' = (invalid \/ (~ok[c] /\ ~gone[c]))
    /\ got' = [got EXCEPT ![c] = First.tok]
    /\ gone' = [gone EXCEPT ![c] = FALSE]
    /\ ok' = [ok EXCEPT ![c] = FALSE]
    /\ UNCHANGED <<upstream, mem, file, writer, calls, leader, process, reloads>>

Step(c) ==
    \/ Use(c) \/ Join(c) \/ Get(c) \/ Grant(c) \/ Refuse(c) \/ Reply(c)
    \/ UpdateMemory(c) \/ UpdateFile(c) \/ Delete(c) \/ Done(c) \/ Answered(c)

-----------------------------------------------------------------------------
(* handleReload: Store.Reload reads the file and adopts it under writeMu;  *)
(* a credential that changed, or that the caller named, is forgiven.       *)
ReloadRead ==
    /\ reload /\ writer = NoCaller
    /\ writer' = Reloader
    /\ buffer' = file
    /\ reload' = FALSE
    /\ UNCHANGED <<upstream, mem, file, invalid, calls, callers, process, forgive>>

ReloadAdopt ==
    /\ writer = Reloader
    /\ writer' = NoCaller
    /\ forgive' = (forgive \/ buffer.tok # mem.tok)
    /\ mem' = buffer /\ buffer' = First
    /\ UNCHANGED <<upstream, file, invalid, calls, callers, process, reload>>

ResetHealth ==
    /\ forgive
    /\ forgive' = FALSE /\ invalid' = FALSE
    /\ UNCHANGED <<upstream, mem, file, writer, calls, callers, process, reload, buffer>>

(* Whatever runs on the machine may ask for a reload.                      *)
AskReload ==
    /\ "reload" \in Events /\ ~reload
    /\ reload' = TRUE
    /\ UNCHANGED <<upstream, mem, file, invalid, writer, calls, callers, process, buffer, forgive>>

(* A CLI command: it opens its own copy of the pool, changes it in memory, *)
(* writes all of it back, and tells the daemon.  "other" changes an        *)
(* account that is not this one; a login may sit open for minutes, and     *)
(* there is one at most.                                                   *)
CliOpens ==
    /\ cli = "idle" /\ cliRuns < MaxCli
    /\ cliRuns' = cliRuns + 1
    /\ op' \in CliOps /\ (op' = "login" => "login" \notin asked)
    /\ snap' = file
    /\ cli' = "open"
    /\ UNCHANGED <<upstream, mem, file, invalid, writer, calls, callers, reloads, asked>>

CliWrites ==
    /\ cli = "open"
    /\ file' = CASE op = "disable" -> [snap EXCEPT !.enabled = FALSE]
                 [] op = "login" -> [tok |-> [line |-> 1, gen |-> 1], enabled |-> TRUE]
                 [] op = "other" -> snap
    /\ live' = IF op = "login" THEN [live EXCEPT ![1] = 1] ELSE live
    /\ asked' = asked \cup {op}
    /\ Meets(IF op # "login" /\ snap.tok # file.tok THEN {"lost"} ELSE {})
    /\ cli' = "written" /\ snap' = First
    /\ UNCHANGED <<expired, refused, mem, invalid, writer, calls, callers, reloads, op, cliRuns>>

CliNotifies ==
    /\ cli = "written"
    /\ reload' = TRUE
    /\ forgive' = (forgive \/ op = "login")
    /\ cli' = "idle"
    /\ UNCHANGED <<upstream, mem, file, invalid, writer, calls, callers, buffer, snap, op, cliRuns, asked>>

-----------------------------------------------------------------------------
(* The environment.                                                        *)
Expire ==
    /\ \E t \in {mem.tok, file.tok} \cup {held[c] : c \in Callers} :
         t \notin expired /\ t.gen < MaxGen /\ expired' = expired \cup {t}
    /\ UNCHANGED <<live, refused, mishaps, mem, file, invalid, writer, calls, callers, process, reloads>>

Revoke ==
    /\ "revoke" \in Events
    /\ \E l \in Lineages : live[l] > 0 /\ live' = [live EXCEPT ![l] = 0]
    /\ UNCHANGED <<expired, refused, mishaps, mem, file, invalid, writer, calls, callers, process, reloads>>

(* The upstream has rotated the token, and the file does not have it yet.  *)
Unsaved == \E c \in Callers : pc[c] \in {"reply", "update", "write"}

(* The daemon stops and starts again from the file.  Serve returns as soon *)
(* as Shutdown begins, so whatever is in flight dies with the process, and *)
(* so may the last mark on the account; a "restart" is one that finds no   *)
(* refresh in flight, a "shutdown" any.                                    *)
Restart ==
    /\ "shutdown" \in Events \/ ("restart" \in Events /\ calls = NoCaller)
    /\ mem' = file /\ invalid' \in {invalid, FALSE}
    /\ writer' = NoCaller /\ calls' = NoCaller
    /\ pc' = [c \in Callers |-> "idle"]
    /\ ok' = [c \in Callers |-> FALSE] /\ gone' = [c \in Callers |-> FALSE]
    /\ leader' = [c \in Callers |-> NoCaller]
    /\ held' = [c \in Callers |-> First.tok] /\ got' = [c \in Callers |-> First.tok]
    /\ reload' = FALSE /\ buffer' = First /\ forgive' = FALSE
    /\ Meets(IF Unsaved THEN {"lost"} ELSE {})
    /\ UNCHANGED <<live, expired, refused, file, process>>

Next ==
    \/ \E c \in Callers : Take(c) \/ Step(c) \/ ExchangeFails(c) \/ ClientGoes(c)
    \/ ReloadRead \/ ReloadAdopt \/ ResetHealth \/ AskReload
    \/ CliOpens \/ CliWrites \/ CliNotifies
    \/ Expire \/ Revoke \/ Restart

Spec == Init /\ [][Next]_vars

(* Goroutines run and the upstream answers.  writeMu is a Go mutex, which  *)
(* hands itself to a waiter that has starved, so the write is strongly     *)
(* fair; a reload that holds it goes on.                                   *)
FairSpec ==
    /\ Spec
    /\ \A c \in Callers : WF_vars(Step(c)) /\ SF_vars(UpdateMemory(c))
    /\ WF_vars(ReloadAdopt)

-----------------------------------------------------------------------------
(* Properties.                                                             *)

\* Every variable has its type (refresh.go, store.go).
TypeOK ==
    /\ live \in [Lineages -> Nat] /\ expired \subseteq Token
    /\ mem \in Account /\ file \in Account /\ snap \in Account /\ buffer \in Account
    /\ invalid \in BOOLEAN /\ reload \in BOOLEAN /\ forgive \in BOOLEAN
    /\ writer \in Callers \cup {NoCaller, Reloader} /\ calls \in Callers \cup {NoCaller}
    /\ pc \in [Callers -> Labels]
    /\ held \in [Callers -> Token] /\ got \in [Callers -> Token]
    /\ ok \in [Callers -> BOOLEAN] /\ gone \in [Callers -> BOOLEAN]
    /\ leader \in [Callers -> Callers \cup {NoCaller}]
    /\ cli \in {"idle", "open", "written"} /\ op \in {"disable", "login", "other"}
    /\ cliRuns \in 0 .. MaxCli
    /\ refused \subseteq {"revoked", "retired"} /\ asked \subseteq {"disable", "login", "other"}
    /\ mishaps \subseteq Mishaps

\* No two requests are ever exchanging the same account's token, whoever they
\* wait for and whatever failed before (refresh.go refreshGroup.do).
OneExchange ==
    \A c, d \in Callers : pc[c] \in Leading /\ pc[d] \in Leading => c = d

\* The daemon never presents a refresh token that the upstream has already
\* rotated away (refresh.go refreshGroup, refresh; store.go UpdateAccount, Reload).
NeverPresentsRetired == "retired" \notin refused

\* The upstream has rotated the token, and the daemon does not have the new one yet.
OnItsWay == \E c \in Callers : pc[c] \in {"reply", "update"}

\* With no exchange on its way, the token in memory is the one the upstream
\* honours, unless it revoked them all (store.go UpdateAccount).
LineageKept ==
    \/ OnItsWay
    \/ live[mem.tok.line] \in {0, mem.tok.gen}

\* The account is lost, or a token presented that was rotated away, only once the
\* answer to a granted exchange was lost, its token did not reach the file, or a
\* command wrote an older one over it: requests, refreshes, reloads, sign-ins,
\* failed exchanges and restarts never do it among themselves, however they
\* interleave (refresh.go refreshGroup, refresh; store.go UpdateAccount, Reload).
OnlyLossesLose == "lost" \notin mishaps => LineageKept /\ NeverPresentsRetired

\* An account is condemned over its token only after the upstream has revoked it
\* or something has gone wrong around a refresh; nobody's timing is enough
\* (engine.go Execute, markInvalid; refresh.go do, refresh; health.go StateInvalid).
CondemnedOnlyForCause == invalid => "revoked" \in refused \/ mishaps # {}

\* No exchange is spent on a token that is still good: a late arrival finds the
\* renewed one in the pool (refresh.go refresh, the staleToken check).
NoWastedExchange ==
    \A l \in Lineages : \A g \in 1 .. MaxGen : g < live[l] => [line |-> l, gen |-> g] \in expired

\* An account is condemned over its token only if the upstream refused it
\* (health.go StateInvalid: "credential rejected").
CondemnedOnlyIfRefused == invalid => refused # {}

\* A refresh never hands a request back the very token it came to replace
\* (refresh.go do: an identical refresh; refresh: the updated account).
AnswerIsNewer ==
    \A c \in Callers : pc[c] = "answered" /\ ok[c] => got[c] # held[c]

\* No CLI command and no reload is under way.
Settled == cli = "idle" /\ ~reload /\ ~forgive /\ writer = NoCaller

\* A disable that reached the file is in force once the daemon has reloaded:
\* a refresh does not undo it (refresh.go refresh, store.go UpdateAccount).
DisableSurvives == Settled /\ "disable" \in asked => ~mem.enabled

\* A new sign-in that reached the file is what the daemon uses once it has
\* reloaded: a refresh of the old credential does not undo it (store.go Reload).
LoginSurvives == Settled /\ "login" \in asked => mem.tok.line = 1

\* Seen from outside, each token is exchanged once and nothing else moves the
\* account: the daemon's refreshes implement Lineage (refresh.go, store.go).
L == INSTANCE Lineage WITH live <- live[0], copy <- mem.tok.gen,
                           answer <- IF OnItsWay THEN mem.tok.gen + 1 ELSE 0
ImplementsLineage == L!Spec

\* A request that waits for another one's refresh is always let go
\* (refresh.go do: the group's entry is removed and the waiters released).
FollowersReturn == \A c \in Callers : pc[c] = "waiting" ~> pc[c] # "waiting"
=============================================================================
