-------------------------- MODULE CredentialProofs --------------------------
(***************************************************************************)
(* Theorems about Credential, for any number of requests.                  *)
(***************************************************************************)
EXTENDS Credential, TLAPS

-----------------------------------------------------------------------------
\* A pooled account holds a token, and keeps being one when its token is
\* rotated, replaced by a sign-in, or when it is disabled (store.go Account).
LEMMA AccountsAreTyped ==
    /\ First \in Account
    /\ \A t \in Token : t.line \in Lineages /\ t.gen \in Nat /\ [t EXCEPT !.gen = @ + 1] \in Token
    /\ \A a \in Account : a.tok \in Token /\ [a EXCEPT !.enabled = FALSE] \in Account
    /\ \A a \in Account, t \in Token : [a EXCEPT !.tok = t] \in Account
    /\ [tok |-> [line |-> 1, gen |-> 1], enabled |-> TRUE] \in Account
<1> USE DEF Account, Token, Lineages
<1>1. First \in Account
  BY DEF First
<1>2. \A t \in Token : t.line \in Lineages /\ t.gen \in Nat /\ [t EXCEPT !.gen = @ + 1] \in Token
  OBVIOUS
<1>3. \A a \in Account : a.tok \in Token /\ [a EXCEPT !.enabled = FALSE] \in Account
  OBVIOUS
<1>4. \A a \in Account, t \in Token : [a EXCEPT !.tok = t] \in Account
  OBVIOUS
<1>5. [tok |-> [line |-> 1, gen |-> 1], enabled |-> TRUE] \in Account
  OBVIOUS
<1> HIDE DEF Account, Token, Lineages
<1> QED BY <1>1, <1>2, <1>3, <1>4, <1>5

\* The labels a caller may be sent to.
LEMMA LabelsAreNamed ==
    /\ "idle" \in Labels /\ "holding" \in Labels /\ "join" \in Labels /\ "waiting" \in Labels
    /\ "get" \in Labels /\ "exchange" \in Labels /\ "reply" \in Labels /\ "update" \in Labels
    /\ "write" \in Labels /\ "delete" \in Labels /\ "done" \in Labels /\ "answered" \in Labels
  BY DEF Labels, Leading

\* Every reachable state is well typed (refresh.go, store.go).
THEOREM CredentialTyped == Spec => []TypeOK
<1> USE LabelsAreNamed
<1>1. Init => TypeOK
  <2> SUFFICES ASSUME Init PROVE TypeOK
    OBVIOUS
  <2>1. live \in [Lineages -> Nat] /\ cliRuns \in 0 .. MaxCli
    BY CredentialAssumption DEF Init
  <2> QED BY <2>1, AccountsAreTyped DEF Init, TypeOK
<1>2. TypeOK /\ [Next]_vars => TypeOK'
  <2> SUFFICES ASSUME TypeOK, [Next]_vars PROVE TypeOK'
    OBVIOUS
  <2> USE DEF TypeOK, Mishaps, Meets, upstream, callers, process, reloads, Goto
  <2>1. ASSUME NEW c \in Callers, Take(c) \/ Use(c) \/ Join(c) PROVE TypeOK'
    <3>1. CASE Take(c)
      <4>1. mem.tok \in Token
        BY AccountsAreTyped
      <4> QED BY <3>1, <4>1 DEF Take
    <3>2. CASE Use(c)
      <4>1. First.tok \in Token
        BY AccountsAreTyped
      <4> QED BY <3>2, <4>1 DEF Use
    <3>3. CASE Join(c) BY <3>3 DEF Join
    <3> QED BY <2>1, <3>1, <3>2, <3>3
  <2>2. ASSUME NEW c \in Callers, Get(c) \/ Grant(c) PROVE TypeOK'
    <3>1. CASE Get(c)
      <4>1. mem.tok \in Token
        BY AccountsAreTyped
      <4>2. got' \in [Callers -> Token] /\ ok' \in [Callers -> BOOLEAN]
        BY <3>1, <4>1 DEF Get
      <4>3. pc' \in [Callers -> Labels]
        BY <3>1 DEF Get
      <4> QED BY <3>1, <4>2, <4>3 DEF Get
    <3>2. CASE Grant(c)
      <4>1. got[c].line \in Lineages
        BY AccountsAreTyped
      <4>2. live' \in [Lineages -> Nat]
        BY <3>2, <4>1 DEF Grant
      <4> QED BY <3>2, <4>2 DEF Grant
    <3> QED BY <2>2, <3>1, <3>2
  <2>3. ASSUME NEW c \in Callers, Refuse(c) PROVE TypeOK'
    <3>1. refused' \subseteq {"revoked", "retired"}
      BY <2>3 DEF Refuse
    <3> QED BY <2>3, <3>1 DEF Refuse
  <2>4. ASSUME NEW c \in Callers, Reply(c) PROVE TypeOK'
    <3>1. [got[c] EXCEPT !.gen = @ + 1] \in Token
      BY AccountsAreTyped
    <3> QED BY <2>4, <3>1 DEF Reply
  <2>5. ASSUME NEW c \in Callers, ExchangeFails(c) \/ ClientGoes(c) PROVE TypeOK'
    <3>1. CASE ExchangeFails(c) BY <3>1 DEF ExchangeFails
    <3>2. CASE ClientGoes(c) BY <3>2 DEF ClientGoes
    <3> QED BY <2>5, <3>1, <3>2
  <2>6. ASSUME NEW c \in Callers, UpdateMemory(c) \/ UpdateFile(c) PROVE TypeOK'
    <3>1. CASE UpdateMemory(c)
      <4>1. [mem EXCEPT !.tok = got[c]] \in Account
        BY AccountsAreTyped
      <4> QED BY <3>1, <4>1 DEF UpdateMemory
    <3>2. CASE UpdateFile(c) BY <3>2 DEF UpdateFile
    <3> QED BY <2>6, <3>1, <3>2
  <2>7. ASSUME NEW c \in Callers, Delete(c) \/ Done(c) PROVE TypeOK'
    <3>1. CASE Delete(c) BY <3>1 DEF Delete
    <3>2. CASE Done(c)
      <4>1. pc' \in [Callers -> Labels] /\ leader' \in [Callers -> Callers \cup {NoCaller}]
        BY <3>2 DEF Done
      <4>2. got' \in [Callers -> Token] /\ ok' \in [Callers -> BOOLEAN]
        BY <3>2 DEF Done
      <4> QED BY <3>2, <4>1, <4>2 DEF Done
    <3> QED BY <2>7, <3>1, <3>2
  <2>8. ASSUME NEW c \in Callers, Answered(c) PROVE TypeOK'
    <3>1. First.tok \in Token
      BY AccountsAreTyped
    <3>2. held' \in [Callers -> Token] /\ got' \in [Callers -> Token]
      BY <2>8, <3>1 DEF Answered
    <3> QED BY <2>8, <3>2 DEF Answered
  <2>9. CASE ReloadRead \/ ReloadAdopt \/ ResetHealth \/ AskReload
    BY <2>9, AccountsAreTyped DEF ReloadRead, ReloadAdopt, ResetHealth, AskReload
  <2>10. CASE CliOpens \/ CliNotifies
    <3>1. CASE CliOpens
      <4>1. cliRuns' \in 0 .. MaxCli /\ op' \in {"disable", "login", "other"}
        BY <3>1, CredentialAssumption DEF CliOpens
      <4> QED BY <3>1, <4>1 DEF CliOpens
    <3>2. CASE CliNotifies BY <3>2 DEF CliNotifies
    <3> QED BY <2>10, <3>1, <3>2
  <2>11. CASE CliWrites
    <3>1. file' \in Account
      BY <2>11, AccountsAreTyped DEF CliWrites
    <3>2. live' \in [Lineages -> Nat] /\ asked' \subseteq {"disable", "login", "other"}
      BY <2>11 DEF CliWrites
    <3>3. snap' \in Account
      BY <2>11, AccountsAreTyped DEF CliWrites
    <3> QED BY <2>11, <3>1, <3>2, <3>3 DEF CliWrites
  <2>12. CASE Expire \/ Revoke \/ Restart
    <3>1. CASE Expire
      <4>1. PICK t \in {mem.tok, file.tok} \cup {held[c] : c \in Callers} :
              expired' = expired \cup {t}
        BY <3>1 DEF Expire
      <4>2. t \in Token
        BY <4>1, AccountsAreTyped
      <4>3. expired' \subseteq Token
        BY <4>1, <4>2
      <4> QED BY <3>1, <4>3 DEF Expire
    <3>2. CASE Revoke
      <4>1. live' \in [Lineages -> Nat]
        BY <3>2 DEF Revoke
      <4> QED BY <3>2, <4>1 DEF Revoke
    <3>3. CASE Restart
      <4>1. First.tok \in Token /\ First \in Account
        BY AccountsAreTyped
      <4>2. held' \in [Callers -> Token] /\ got' \in [Callers -> Token] /\ buffer' \in Account
        BY <3>3, <4>1 DEF Restart
      <4> QED BY <3>3, <4>2 DEF Restart
    <3> QED BY <2>12, <3>1, <3>2, <3>3
  <2>13. CASE UNCHANGED vars
    BY <2>13 DEF vars
  <2> QED BY <2>1, <2>2, <2>3, <2>4, <2>5, <2>6, <2>7, <2>8, <2>9, <2>10, <2>11, <2>12, <2>13
          DEF Next, Step
<1> QED BY <1>1, <1>2, PTL DEF Spec

-----------------------------------------------------------------------------
\* What refreshGroup.mu and writeMu keep true: the leader of the refresh in
\* flight is the one the group's entry names, and a refresh that is writing the
\* file holds the lock (refresh.go do, store.go UpdateAccount).
LocksHeld ==
    \A c \in Callers : /\ pc[c] \in Leading <=> calls = c
                       /\ pc[c] = "write" <=> writer = c

\* Every step, the failing ones included, keeps the group and the lock in order.
LEMMA LocksStayHeld ==
    ASSUME TypeOK, LocksHeld, [Next]_vars
    PROVE  LocksHeld'
<1> USE CredentialAssumption
        DEF LocksHeld, TypeOK, Leading, Goto, callers, process
<1>1. ASSUME NEW c \in Callers, Take(c) \/ Use(c) \/ Join(c) \/ Get(c) PROVE LocksHeld'
  BY <1>1 DEF Take, Use, Join, Get
<1>2. ASSUME NEW c \in Callers, Grant(c) \/ Refuse(c) \/ Reply(c) \/ ExchangeFails(c) \/ ClientGoes(c)
      PROVE LocksHeld'
  BY <1>2 DEF Grant, Refuse, Reply, ExchangeFails, ClientGoes
<1>3. ASSUME NEW c \in Callers, UpdateMemory(c) \/ UpdateFile(c) PROVE LocksHeld'
  BY <1>3 DEF UpdateMemory, UpdateFile
<1>4. ASSUME NEW c \in Callers, Delete(c) \/ Done(c) \/ Answered(c) PROVE LocksHeld'
  BY <1>4 DEF Delete, Done, Answered, Released
<1>5. CASE ReloadRead \/ ReloadAdopt \/ ResetHealth \/ AskReload
  BY <1>5 DEF ReloadRead, ReloadAdopt, ResetHealth, AskReload
<1>6. CASE CliOpens \/ CliWrites \/ CliNotifies \/ Expire \/ Revoke \/ Restart
  <2>1. CASE Restart
    <3>1. pc' = [c \in Callers |-> "idle"] /\ calls' = NoCaller /\ writer' = NoCaller
      BY <2>1 DEF Restart
    <3> QED BY <3>1
  <2>2. CASE ~Restart
    BY <1>6, <2>2 DEF CliOpens, CliWrites, CliNotifies, Expire, Revoke
  <2> QED BY <2>1, <2>2
<1>7. CASE UNCHANGED vars
  BY <1>7 DEF vars
<1> QED BY <1>1, <1>2, <1>3, <1>4, <1>5, <1>6, <1>7 DEF Next, Step

\* The locks are held in every reachable state.
THEOREM LocksAlwaysHeld == Spec => []LocksHeld
<1>1. Init => LocksHeld
  BY CredentialAssumption DEF Init, LocksHeld, Leading
<1> QED BY <1>1, LocksStayHeld, CredentialTyped, PTL DEF Spec

\* No two requests ever exchange the account's token at the same time, however
\* exchanges, clients, disks and CLI commands fail around them (refresh.go do).
THEOREM RefreshesAreCoalesced == Spec => []OneExchange
<1>1. LocksHeld => OneExchange
  BY DEF LocksHeld, OneExchange
<1> QED BY <1>1, LocksAlwaysHeld, PTL

-----------------------------------------------------------------------------
(* The daemon alone: nobody else writes accounts.json, writes succeed, and *)
(* an exchange that the upstream granted is answered.                      *)
DaemonAlone == MaxCli = 0 /\ Events \subseteq {"reload", "restart", "revoke"}

(* Then memory and file are one copy wherever the lock is free, and that   *)
(* copy is what the upstream honours or one exchange behind it.            *)
Undisturbed == cli = "idle" /\ ~forgive /\ (\A c \in Callers : ~gone[c]) /\ live[1] = 0
CopiesAgree == /\ writer \notin Callers => file = mem
               /\ writer = Reloader => buffer = mem
FirstSignIn == mem.tok.line = 0 /\ mem.tok.gen > 0
InHand == \A c \in Callers :
    /\ pc[c] \in {"exchange", "reply"} => got[c] = mem.tok
    /\ pc[c] = "update" => got[c].line = 0 /\ got[c].gen = mem.tok.gen + 1
InStep == live[0] = 0 \/ live[0] = (IF OnItsWay THEN mem.tok.gen + 1 ELSE mem.tok.gen)

Coherent == Undisturbed /\ CopiesAgree /\ FirstSignIn /\ InHand /\ InStep

\* While one request leads a refresh, no other one does.
LEMMA OneLeader ==
    ASSUME TypeOK, LocksHeld, NEW c \in Callers, pc[c] \in Leading
    PROVE  /\ \A d \in Callers \ {c} : pc[d] \notin Leading
           /\ OnItsWay <=> pc[c] \in {"reply", "update"}
<1>1. \A d \in Callers \ {c} : pc[d] \notin Leading
  BY DEF LocksHeld
<1> QED BY <1>1 DEF OnItsWay, Leading

\* Only three steps move the account: the upstream grants an exchange, memory
\* takes the new token, the sign-in is revoked (refresh.go, store.go).
LEMMA ThreeStepsMove ==
    ASSUME DaemonAlone, TypeOK, LocksHeld, Coherent, [Next]_vars
    PROVE  \/ \E c \in Callers : Grant(c) \/ UpdateMemory(c)
           \/ Revoke
           \/ mem' = mem /\ live' = live /\ (OnItsWay' <=> OnItsWay)
<1> USE CredentialAssumption
        DEF TypeOK, OnItsWay, Goto, upstream, callers, process, Coherent, Undisturbed, CopiesAgree
<1>1. ASSUME NEW c \in Callers, Take(c) \/ Use(c) \/ Join(c) \/ Get(c)
      PROVE  mem' = mem /\ live' = live /\ (OnItsWay' <=> OnItsWay)
  BY <1>1 DEF Take, Use, Join, Get
<1>2. ASSUME NEW c \in Callers, Refuse(c) \/ Reply(c) \/ ExchangeFails(c) \/ ClientGoes(c)
      PROVE  mem' = mem /\ live' = live /\ (OnItsWay' <=> OnItsWay)
  BY <1>2 DEF Refuse, Reply, ExchangeFails, ClientGoes, DaemonAlone
<1>3. ASSUME NEW c \in Callers, UpdateFile(c) \/ Delete(c) \/ Done(c) \/ Answered(c)
      PROVE  mem' = mem /\ live' = live /\ (OnItsWay' <=> OnItsWay)
  BY <1>3 DEF UpdateFile, Delete, Done, Answered, Released
<1>4. CASE ReloadRead \/ ReloadAdopt \/ ResetHealth \/ AskReload
  BY <1>4 DEF ReloadRead, ReloadAdopt, ResetHealth, AskReload
<1>5. CASE CliOpens \/ CliWrites \/ CliNotifies
  BY <1>5 DEF CliOpens, CliWrites, CliNotifies, DaemonAlone
<1>6. CASE Restart
  <2>1. mem' = file /\ live' = live /\ calls = NoCaller /\ pc' = [c \in Callers |-> "idle"]
    BY <1>6 DEF Restart, DaemonAlone
  <2>2. \A c \in Callers : pc[c] \notin Leading
    BY <2>1 DEF LocksHeld
  <2>3. writer \notin Callers
    BY <2>2 DEF LocksHeld, Leading
  <2>4. ~OnItsWay /\ ~OnItsWay'
    BY <2>1, <2>2 DEF Leading
  <2> QED BY <2>1, <2>3, <2>4
<1>7. CASE Expire \/ UNCHANGED vars
  BY <1>7 DEF Expire, vars
<1> QED BY <1>1, <1>2, <1>3, <1>4, <1>5, <1>6, <1>7 DEF Next, Step

\* The copies stay coherent: each step of a refresh, of a reload or of a
\* restart leaves the daemon with what the upstream honours.
LEMMA StaysCoherent ==
    ASSUME DaemonAlone, TypeOK, TypeOK', LocksHeld, LocksHeld', Coherent, [Next]_vars
    PROVE  Coherent'
<1>1. Undisturbed'
  <2> USE CredentialAssumption
          DEF TypeOK, Goto, upstream, callers, process, reloads, Coherent, Undisturbed, CopiesAgree, DaemonAlone
  <2>1. ASSUME NEW c \in Callers, Grant(c) PROVE Undisturbed'
    <3>1. got[c].line = 0
      BY <2>1 DEF Grant, InHand, FirstSignIn
    <3> QED BY <2>1, <3>1 DEF Grant, Lineages
  <2>2. ASSUME NEW c \in Callers, Step(c), ~Grant(c) PROVE Undisturbed'
    BY <2>2 DEF Step, Use, Join, Get, Refuse, Reply, UpdateMemory, UpdateFile, Delete, Done, Answered
  <2>3. ASSUME NEW c \in Callers, Take(c) \/ ExchangeFails(c) \/ ClientGoes(c) PROVE Undisturbed'
    BY <2>3 DEF Take, ExchangeFails, ClientGoes
  <2>4. CASE ReloadRead \/ ReloadAdopt \/ ResetHealth \/ AskReload
    BY <2>4 DEF ReloadRead, ReloadAdopt, ResetHealth, AskReload
  <2>5. CASE CliOpens \/ CliWrites \/ CliNotifies
    BY <2>5 DEF CliOpens, CliWrites, CliNotifies
  <2>6. CASE Expire \/ Revoke \/ Restart
    BY <2>6 DEF Expire, Revoke, Restart, Lineages
  <2>7. CASE UNCHANGED vars
    BY <2>7 DEF vars
  <2> QED BY <2>1, <2>2, <2>3, <2>4, <2>5, <2>6, <2>7 DEF Next
<1>2. CopiesAgree'
  <2> USE CredentialAssumption
          DEF TypeOK, LocksHeld, Goto, upstream, callers, process, reloads, Coherent, Undisturbed,
              CopiesAgree, DaemonAlone
  <2>1. ASSUME NEW c \in Callers, UpdateMemory(c) \/ UpdateFile(c) PROVE CopiesAgree'
    BY <2>1 DEF UpdateMemory, UpdateFile
  <2>2. ASSUME NEW c \in Callers, Step(c), ~UpdateMemory(c), ~UpdateFile(c) PROVE CopiesAgree'
    BY <2>2 DEF Step, Use, Join, Get, Grant, Refuse, Reply, Delete, Done, Answered
  <2>3. ASSUME NEW c \in Callers, Take(c) \/ ExchangeFails(c) \/ ClientGoes(c) PROVE CopiesAgree'
    BY <2>3 DEF Take, ExchangeFails, ClientGoes
  <2>4. CASE ReloadRead \/ ReloadAdopt \/ ResetHealth \/ AskReload
    BY <2>4 DEF ReloadRead, ReloadAdopt, ResetHealth, AskReload
  <2>5. CASE CliOpens \/ CliWrites \/ CliNotifies
    BY <2>5 DEF CliOpens, CliWrites, CliNotifies
  <2>6. CASE Expire \/ Revoke \/ Restart
    <3>1. CASE Restart
      <4>1. mem' = file /\ file' = file /\ writer' = NoCaller
        BY <3>1 DEF Restart
      <4> QED BY <4>1
    <3>2. CASE Expire \/ Revoke
      BY <3>2 DEF Expire, Revoke
    <3> QED BY <2>6, <3>1, <3>2
  <2>7. CASE UNCHANGED vars
    BY <2>7 DEF vars
  <2> QED BY <2>1, <2>2, <2>3, <2>4, <2>5, <2>6, <2>7 DEF Next
<1>3. InStep' /\ FirstSignIn'
  <2>1. CASE mem' = mem /\ live' = live /\ (OnItsWay' <=> OnItsWay)
    BY <2>1 DEF Coherent, InStep, FirstSignIn
  <2>2. ASSUME NEW c \in Callers, Grant(c) PROVE InStep' /\ FirstSignIn'
    <3>1. got[c] = mem.tok /\ mem.tok.line = 0 /\ mem.tok.gen > 0
      BY <2>2 DEF Grant, Coherent, InHand, FirstSignIn
    <3>2. live[0] = mem.tok.gen /\ live'[0] = mem.tok.gen + 1 /\ mem' = mem
      BY <2>2, <3>1 DEF Grant, Honoured, TypeOK, Lineages
    <3>3. OnItsWay'
      BY <2>2 DEF Grant, OnItsWay, Goto, TypeOK
    <3> QED BY <3>1, <3>2, <3>3 DEF InStep, FirstSignIn
  <2>3. ASSUME NEW c \in Callers, UpdateMemory(c) PROVE InStep' /\ FirstSignIn'
    <3>1. pc[c] \in Leading /\ pc'[c] = "write" /\ pc'[c] \in Leading
      BY <2>3 DEF UpdateMemory, Goto, TypeOK, Leading
    <3>2. OnItsWay /\ ~OnItsWay'
      <4>1. OnItsWay
        BY <2>3, <3>1 DEF UpdateMemory, OnItsWay
      <4>2. \A d \in Callers \ {c} : pc'[d] \notin Leading
        BY <3>1 DEF LocksHeld
      <4> QED BY <3>1, <4>1, <4>2 DEF OnItsWay, Leading
    <3>3. mem.tok.gen \in Nat /\ mem'.tok = got[c] /\ live' = live
      BY <2>3 DEF UpdateMemory, TypeOK, Account, Token, upstream
    <3>4. got[c].line = 0 /\ got[c].gen = mem.tok.gen + 1
      BY <2>3 DEF UpdateMemory, Coherent, InHand
    <3>5. mem'.tok.line = 0 /\ mem'.tok.gen = mem.tok.gen + 1
      BY <3>3, <3>4
    <3> QED BY <3>2, <3>3, <3>5 DEF Coherent, InStep, FirstSignIn
  <2>4. CASE Revoke
    <3>1. mem' = mem /\ pc' = pc /\ (live'[0] = live[0] \/ live'[0] = 0)
      BY <2>4 DEF Revoke, callers, TypeOK, Lineages
    <3>2. OnItsWay' <=> OnItsWay
      BY <3>1 DEF OnItsWay
    <3> QED BY <3>1, <3>2 DEF Coherent, InStep, FirstSignIn
  <2> QED BY <2>1, <2>2, <2>3, <2>4, ThreeStepsMove
<1>4. InHand'
  <2>1. ASSUME NEW c \in Callers, pc'[c] \in {"exchange", "reply", "update"}
        PROVE  /\ pc'[c] \in {"exchange", "reply"} => got'[c] = mem'.tok
               /\ pc'[c] = "update" => got'[c].line = 0 /\ got'[c].gen = mem'.tok.gen + 1
    <3>1. CASE Get(c) \/ Grant(c) \/ Reply(c)
      <4>1. mem' = mem /\ mem.tok \in Token /\ got[c] \in Token
        BY <3>1 DEF Get, Grant, Reply, TypeOK, Account
      <4>2. CASE Get(c)
        BY <4>1, <4>2, <2>1 DEF Get, Goto, TypeOK
      <4>3. CASE Grant(c)
        BY <4>1, <4>3, <2>1 DEF Grant, Goto, TypeOK, Coherent, InHand
      <4>4. CASE Reply(c)
        BY <4>1, <4>4, <2>1 DEF Reply, Goto, TypeOK, Coherent, InHand, FirstSignIn, Token
      <4> QED BY <3>1, <4>2, <4>3, <4>4
    <3>2. CASE pc'[c] = pc[c] /\ got'[c] = got[c] /\ mem' = mem
      BY <3>2, <2>1 DEF Coherent, InHand
    <3>3. (Get(c) \/ Grant(c) \/ Reply(c)) \/ (pc'[c] = pc[c] /\ got'[c] = got[c])
      <4> USE <2>1, CredentialAssumption DEF TypeOK, LocksHeld, Leading, Goto, callers
      <4>1. ASSUME NEW d \in Callers, Step(d)
            PROVE (Get(c) \/ Grant(c) \/ Reply(c)) \/ (pc'[c] = pc[c] /\ got'[c] = got[c])
        <5>1. CASE Use(d) \/ Join(d) \/ Get(d) BY <5>1 DEF Use, Join, Get
        <5>2. CASE Grant(d) \/ Refuse(d) \/ Reply(d) BY <5>2 DEF Grant, Refuse, Reply
        <5>3. CASE UpdateMemory(d) \/ UpdateFile(d) BY <5>3 DEF UpdateMemory, UpdateFile
        <5>4. CASE Delete(d) \/ Answered(d) BY <5>4 DEF Delete, Answered
        <5>5. CASE Done(d) BY <5>5 DEF Done, Released
        <5> QED BY <4>1, <5>1, <5>2, <5>3, <5>4, <5>5 DEF Step
      <4>2. ASSUME NEW d \in Callers, Take(d) \/ ExchangeFails(d) \/ ClientGoes(d)
            PROVE  pc'[c] = pc[c] /\ got'[c] = got[c]
        BY <4>2 DEF Take, ExchangeFails, ClientGoes
      <4>3. CASE ReloadRead \/ ReloadAdopt \/ ResetHealth \/ AskReload
        BY <4>3 DEF ReloadRead, ReloadAdopt, ResetHealth, AskReload
      <4>4. CASE CliOpens \/ CliWrites \/ CliNotifies \/ Expire \/ Revoke \/ Restart
        BY <4>4 DEF CliOpens, CliWrites, CliNotifies, Expire, Revoke, Restart
      <4>5. CASE UNCHANGED vars
        BY <4>5 DEF vars
      <4> QED BY <4>1, <4>2, <4>3, <4>4, <4>5 DEF Next
    <3>4. CASE pc'[c] = pc[c] /\ got'[c] = got[c] /\ mem' # mem
      <4>1. PICK d \in Callers : UpdateMemory(d)
        BY <3>4, ThreeStepsMove DEF Grant, Revoke
      <4>2. c # d /\ pc[c] \in Leading /\ pc[d] \in Leading
        BY <2>1, <3>4, <4>1 DEF UpdateMemory, Goto, TypeOK, Leading
      <4> QED BY <4>2, OneLeader
    <3> QED BY <3>1, <3>2, <3>3, <3>4
  <2> QED BY <2>1 DEF InHand
<1> QED BY <1>1, <1>2, <1>3, <1>4 DEF Coherent

\* Left alone, the daemon always holds what the upstream honours, or is one
\* granted exchange behind it.
LEMMA AlwaysCoherent ==
    ASSUME DaemonAlone
    PROVE  Spec => []Coherent
<1>1. Init => Coherent
  BY CredentialAssumption
     DEF Init, First, Lineages, OnItsWay, Coherent, Undisturbed, CopiesAgree, FirstSignIn, InHand, InStep
<1>2. TypeOK /\ TypeOK' /\ LocksHeld /\ LocksHeld' /\ Coherent /\ [Next]_vars => Coherent'
  BY StaysCoherent
<1> QED BY <1>1, <1>2, CredentialTyped, LocksAlwaysHeld, PTL DEF Spec

\* What a request presents while it leads is the newest token there is: the
\* upstream refuses it only when the sign-in is revoked.
LEMMA RefusedMeansRevoked ==
    ASSUME TypeOK, LocksHeld, Coherent, NEW c \in Callers, Refuse(c)
    PROVE  refused' = refused \cup {"revoked"}
<1>1. got[c] = mem.tok /\ got[c].line = 0 /\ got[c].gen > 0
  BY DEF Refuse, Coherent, InHand, FirstSignIn
<1>2. ~OnItsWay
  <2>1. pc[c] = "exchange" /\ pc[c] \in Leading
    BY DEF Refuse, Leading
  <2> QED BY <2>1, OneLeader
<1>3. live[0] = 0 \/ live[0] = got[c].gen
  BY <1>1, <1>2 DEF Coherent, InStep
<1>4. live[0] = 0
  BY <1>1, <1>3 DEF Refuse, Honoured
<1> QED BY <1>1, <1>4 DEF Refuse

\* The daemon alone never presents a token that has been rotated away: neither
\* concurrent requests, nor reloads, nor restarts lead it to (refresh.go
\* refreshGroup and refresh, store.go UpdateAccount and Reload).
THEOREM RetiredNeverPresented ==
    ASSUME DaemonAlone
    PROVE  Spec => []NeverPresentsRetired
<1>1. Init => NeverPresentsRetired
  BY DEF Init, NeverPresentsRetired
<1>2. TypeOK /\ LocksHeld /\ Coherent /\ NeverPresentsRetired /\ [Next]_vars => NeverPresentsRetired'
  <2> SUFFICES ASSUME TypeOK, LocksHeld, Coherent, NeverPresentsRetired, [Next]_vars
               PROVE  NeverPresentsRetired'
    OBVIOUS
  <2>1. ASSUME NEW c \in Callers, Refuse(c) PROVE NeverPresentsRetired'
    BY <2>1, RefusedMeansRevoked DEF NeverPresentsRetired
  <2>2. CASE \A c \in Callers : ~Refuse(c)
    <3>1. refused' = refused
      BY <2>2 DEF Next, Step, vars, upstream, Take, Use, Join, Get, Grant, Reply, ExchangeFails,
                  ClientGoes, UpdateMemory, UpdateFile, Delete, Done, Answered, ReloadRead, ReloadAdopt,
                  ResetHealth, AskReload, CliOpens, CliWrites, CliNotifies, Expire, Revoke, Restart
    <3> QED BY <3>1 DEF NeverPresentsRetired
  <2> QED BY <2>1, <2>2
<1> QED BY <1>1, <1>2, CredentialTyped, LocksAlwaysHeld, AlwaysCoherent, PTL DEF Spec

-----------------------------------------------------------------------------
(* Whoever goes to the group does so over an expired token, and presents   *)
(* that very token.                                                        *)
StaleOnly == \A c \in Callers :
    /\ pc[c] \in {"join", "waiting", "get", "exchange"} => held[c] \in expired
    /\ pc[c] = "exchange" => got[c] = held[c]

\* Only a request that saw its token expire ever exchanges it.
LEMMA StaysStaleOnly ==
    ASSUME TypeOK, StaleOnly, [Next]_vars
    PROVE  StaleOnly'
<1> USE DEF StaleOnly, TypeOK, Goto, upstream, callers
<1>1. ASSUME NEW c \in Callers, Take(c) \/ Use(c) \/ Join(c) \/ Get(c) PROVE StaleOnly'
  BY <1>1 DEF Take, Use, Join, Get
<1>2. ASSUME NEW c \in Callers, Grant(c) \/ Refuse(c) \/ Reply(c) \/ ExchangeFails(c) \/ ClientGoes(c)
      PROVE StaleOnly'
  BY <1>2 DEF Grant, Refuse, Reply, ExchangeFails, ClientGoes
<1>3. ASSUME NEW c \in Callers, UpdateMemory(c) \/ UpdateFile(c) \/ Delete(c) PROVE StaleOnly'
  BY <1>3 DEF UpdateMemory, UpdateFile, Delete
<1>4. ASSUME NEW c \in Callers, Done(c) \/ Answered(c) PROVE StaleOnly'
  BY <1>4 DEF Done, Answered, Released
<1>5. CASE ReloadRead \/ ReloadAdopt \/ ResetHealth \/ AskReload
  BY <1>5 DEF ReloadRead, ReloadAdopt, ResetHealth, AskReload
<1>6. CASE CliOpens \/ CliWrites \/ CliNotifies \/ Expire \/ Revoke \/ Restart
  BY <1>6 DEF CliOpens, CliWrites, CliNotifies, Expire, Revoke, Restart
<1>7. CASE UNCHANGED vars
  BY <1>7 DEF vars
<1> QED BY <1>1, <1>2, <1>3, <1>4, <1>5, <1>6, <1>7 DEF Next, Step

\* No exchange is wasted: the daemon alone renews a token only once it has
\* expired, however late a request comes with a stale one (refresh.go refresh).
THEOREM NothingWasted ==
    ASSUME DaemonAlone
    PROVE  Spec => []NoWastedExchange
<1>1. Init => NoWastedExchange /\ StaleOnly
  BY CredentialAssumption DEF Init, NoWastedExchange, StaleOnly, Lineages
<1>2. TypeOK /\ Coherent /\ StaleOnly /\ NoWastedExchange /\ [Next]_vars /\ LocksHeld
      => NoWastedExchange' /\ StaleOnly'
  <2> SUFFICES ASSUME TypeOK, Coherent, StaleOnly, NoWastedExchange, [Next]_vars, LocksHeld
               PROVE  NoWastedExchange'
    BY StaysStaleOnly
  <2>1. expired \subseteq expired'
    BY DEF Next, Step, vars, upstream, Take, Use, Join, Get, Grant, Refuse, Reply, ExchangeFails,
           ClientGoes, UpdateMemory, UpdateFile, Delete, Done, Answered, ReloadRead, ReloadAdopt,
           ResetHealth, AskReload, CliOpens, CliWrites, CliNotifies, Expire, Revoke, Restart
  <2>2. ASSUME NEW c \in Callers, Grant(c) PROVE NoWastedExchange'
    <3>1. got[c] \in Token /\ got[c] \in expired /\ got[c].line = 0 /\ live[0] = got[c].gen
      BY <2>2 DEF Grant, Honoured, StaleOnly, TypeOK, Coherent, InHand, FirstSignIn
    <3>2. live'[0] = live[0] + 1 /\ live'[1] = live[1] /\ expired' = expired
      BY <2>2, <3>1 DEF Grant, TypeOK, Lineages
    <3>3. got[c] = [line |-> 0, gen |-> live[0]]
      BY <3>1 DEF Token
    <3>4. ASSUME NEW l \in Lineages, NEW g \in 1 .. MaxGen, g < live'[l]
          PROVE  [line |-> l, gen |-> g] \in expired
      <4>1. CASE g < live[l]
        BY <4>1 DEF NoWastedExchange
      <4>2. CASE ~(g < live[l])
        <5>1. l = 0 /\ g = live[0]
          BY <4>2, <3>2, <3>4, CredentialAssumption DEF Lineages, TypeOK
        <5> QED BY <5>1, <3>1, <3>3
      <4> QED BY <4>1, <4>2
    <3> QED BY <3>2, <3>4 DEF NoWastedExchange
  <2>3. CASE \A c \in Callers : ~Grant(c)
    <3>1. \A l \in Lineages : live'[l] = live[l] \/ live'[l] = 0
      <4>1. CASE Revoke
        BY <4>1 DEF Revoke, TypeOK, Lineages
      <4>2. CASE ~Revoke
        <5>1. live' = live \/ \E c \in Callers : UpdateMemory(c)
          BY <4>2, <2>3, ThreeStepsMove
        <5> QED BY <5>1 DEF UpdateMemory, upstream
      <4> QED BY <4>1, <4>2
    <3>2. \A l \in Lineages, g \in 1 .. MaxGen : g < live'[l] => g < live[l]
      BY <3>1, CredentialAssumption DEF TypeOK
    <3> QED BY <2>1, <3>2 DEF NoWastedExchange
  <2> QED BY <2>2, <2>3
<1> QED BY <1>1, <1>2, CredentialTyped, LocksAlwaysHeld, AlwaysCoherent, PTL DEF Spec

-----------------------------------------------------------------------------
(* With everything that may happen, commands of the CLI included: while no *)
(* token has been lost, each copy of the account is what the upstream      *)
(* honours, unless a refresh that will replace it is under way.            *)
Newest(t) == live[t.line] \in {0, t.gen}

CopiesIntact ==
    /\ Newest(mem.tok) \/ OnItsWay
    /\ Newest(file.tok) \/ Unsaved
    /\ writer = Reloader => Newest(buffer.tok) \/ OnItsWay
HandsIntact == \A c \in Callers :
    /\ pc[c] \in {"exchange", "update"} => Newest(got[c])
    /\ pc[c] = "reply" => live[got[c].line] \in {0, got[c].gen + 1}
Intact == "lost" \notin mishaps => CopiesIntact /\ HandsIntact /\ NeverPresentsRetired

(* Until there is a second sign-in, every token is of the first.           *)
OneLineage ==
    /\ cli = "open" /\ op = "login" => "login" \notin asked
    /\ "login" \notin asked =>
         /\ live[1] = 0
         /\ mem.tok.line = 0 /\ file.tok.line = 0 /\ buffer.tok.line = 0 /\ snap.tok.line = 0
         /\ \A c \in Callers : got[c].line = 0

\* The second lineage starts with the sign-in and not before (login.go).
LEMMA StaysOneLineage ==
    ASSUME TypeOK, OneLineage, [Next]_vars
    PROVE  OneLineage'
<1> USE DEF OneLineage, TypeOK, Goto, upstream, callers, process, reloads, First, Lineages
<1>1. ASSUME NEW c \in Callers, Take(c) \/ Use(c) \/ Join(c) \/ Get(c) PROVE OneLineage'
  BY <1>1 DEF Take, Use, Join, Get
<1>2. ASSUME NEW c \in Callers, Grant(c) PROVE OneLineage'
  BY <1>2 DEF Grant
<1>3. ASSUME NEW c \in Callers, Reply(c) PROVE OneLineage'
  <2>1. \A d \in Callers : got'[d].line = got[d].line
    BY <1>3 DEF Reply, Token
  <2> QED BY <1>3, <2>1 DEF Reply
<1>4. ASSUME NEW c \in Callers, Refuse(c) \/ ExchangeFails(c) \/ ClientGoes(c) \/ Delete(c)
      PROVE OneLineage'
  BY <1>4 DEF Refuse, ExchangeFails, ClientGoes, Delete
<1>5. ASSUME NEW c \in Callers, UpdateMemory(c) PROVE OneLineage'
  <2>1. mem'.tok = got[c]
    BY <1>5 DEF UpdateMemory, Account
  <2> QED BY <1>5, <2>1 DEF UpdateMemory
<1>6. ASSUME NEW c \in Callers, UpdateFile(c) \/ Done(c) \/ Answered(c) PROVE OneLineage'
  BY <1>6 DEF UpdateFile, Done, Answered
<1>7. CASE ReloadRead \/ ReloadAdopt \/ ResetHealth \/ AskReload
  BY <1>7 DEF ReloadRead, ReloadAdopt, ResetHealth, AskReload
<1>8. CASE CliOpens \/ CliNotifies
  BY <1>8 DEF CliOpens, CliNotifies
<1>9. CASE CliWrites
  <2>1. op # "login" => live' = live /\ file'.tok = snap.tok
    BY <1>9 DEF CliWrites, Account
  <2> QED BY <1>9, <2>1 DEF CliWrites
<1>10. CASE Expire \/ Revoke
  BY <1>10 DEF Expire, Revoke
<1>11. CASE Restart
  BY <1>11 DEF Restart
<1>12. CASE UNCHANGED vars
  BY <1>12 DEF vars
<1> QED BY <1>1, <1>2, <1>3, <1>4, <1>5, <1>6, <1>7, <1>8, <1>9, <1>10, <1>11, <1>12 DEF Next, Step

\* The one refresh under way is the leader's: what is on its way or unsaved is
\* so by the leader's label (refresh.go do).
LEMMA LeaderDecides ==
    ASSUME TypeOK, LocksHeld, NEW c \in Callers, pc[c] \in Leading
    PROVE  /\ OnItsWay <=> pc[c] \in {"reply", "update"}
           /\ Unsaved <=> pc[c] \in {"reply", "update", "write"}
           /\ \A d \in Callers \ {c} : pc[d] \notin Leading
<1>1. \A d \in Callers \ {c} : pc[d] \notin Leading
  BY DEF LocksHeld
<1> QED BY <1>1 DEF OnItsWay, Unsaved, Leading

\* What a leader that the upstream refuses presents is the newest token there
\* is, as long as none has been lost: its sign-in has been revoked.
LEMMA RefusedIsRevoked ==
    ASSUME TypeOK, Intact, NEW c \in Callers, Refuse(c)
    PROVE  "lost" \in mishaps \/ refused' = refused \cup {"revoked"}
<1>1. "lost" \notin mishaps => Newest(got[c])
  BY DEF Refuse, Intact, HandsIntact
<1>2. got[c].line \in Lineages /\ got[c].gen \in Nat /\ live[got[c].line] \in Nat
  BY DEF TypeOK, Token
<1> QED BY <1>1, <1>2 DEF Refuse, Newest, Honoured

\* Nothing but the ways a token is lost takes a copy of the account away from
\* what the upstream honours (refresh.go, store.go UpdateAccount and Reload).
LEMMA StaysIntact ==
    ASSUME TypeOK, TypeOK', LocksHeld, LocksHeld', OneLineage, Intact, [Next]_vars
    PROVE  Intact'
<1> SUFFICES ASSUME "lost" \notin mishaps' PROVE (CopiesIntact /\ HandsIntact /\ NeverPresentsRetired)'
  BY DEF Intact
<1>1. "lost" \notin mishaps
  BY DEF Next, Step, vars, upstream, Meets, Take, Use, Join, Get, Grant, Refuse, Reply, ExchangeFails,
         ClientGoes, UpdateMemory, UpdateFile, Delete, Done, Answered, ReloadRead, ReloadAdopt,
         ResetHealth, AskReload, CliOpens, CliWrites, CliNotifies, Expire, Revoke, Restart
<1>2. CopiesIntact /\ HandsIntact /\ NeverPresentsRetired
  BY <1>1 DEF Intact
<1>3. NeverPresentsRetired'
  <2>1. ASSUME NEW c \in Callers, Refuse(c) PROVE NeverPresentsRetired'
    BY <1>1, <1>2, <2>1, RefusedIsRevoked DEF NeverPresentsRetired
  <2>2. CASE \A c \in Callers : ~Refuse(c)
    <3>1. refused' = refused
      BY <2>2 DEF Next, Step, vars, upstream, Take, Use, Join, Get, Grant, Reply, ExchangeFails,
                  ClientGoes, UpdateMemory, UpdateFile, Delete, Done, Answered, ReloadRead, ReloadAdopt,
                  ResetHealth, AskReload, CliOpens, CliWrites, CliNotifies, Expire, Revoke, Restart
    <3> QED BY <1>2, <3>1 DEF NeverPresentsRetired
  <2> QED BY <2>1, <2>2
<1>4. CopiesIntact' /\ HandsIntact'
  <2> USE <1>1, <1>2, CredentialAssumption
          DEF TypeOK, CopiesIntact, HandsIntact, Newest, Goto, upstream, callers, process, reloads
  <2>1. ASSUME NEW c \in Callers, Take(c) \/ Use(c) \/ Join(c) PROVE CopiesIntact' /\ HandsIntact'
    <3>1. \A d \in Callers : pc'[d] = pc[d] \/ (d = c /\ {pc[d], pc'[d]} \cap Exchanging = {} /\ pc[d] # "write" /\ pc'[d] # "write")
      BY <2>1 DEF Take, Use, Join, Exchanging
    <3>2. live' = live /\ mem' = mem /\ file' = file /\ writer' = writer /\ buffer' = buffer /\ got' = got
      BY <2>1 DEF Take, Use, Join
    <3>3. (OnItsWay' <=> OnItsWay) /\ (Unsaved' <=> Unsaved)
      BY <3>1 DEF OnItsWay, Unsaved, Exchanging
    <3> QED BY <3>1, <3>2, <3>3 DEF Exchanging
  <2>2. ASSUME NEW c \in Callers, Get(c) PROVE CopiesIntact' /\ HandsIntact'
    <3>1. pc[c] = "get" /\ pc[c] \in Leading
      BY <2>2 DEF Get, Leading
    <3>2. ~OnItsWay /\ ~Unsaved /\ (\A d \in Callers \ {c} : pc[d] \notin Leading)
      BY <3>1, LeaderDecides
    <3>3. pc'[c] \in Leading /\ pc'[c] \notin {"reply", "update", "write"}
      BY <2>2 DEF Get, Leading
    <3>4. ~OnItsWay' /\ ~Unsaved'
      BY <3>3, LeaderDecides DEF OnItsWay, Unsaved, Leading, LocksHeld
    <3> QED BY <2>2, <3>1, <3>2, <3>4 DEF Get, Leading
  <2>3. ASSUME NEW c \in Callers, Grant(c) PROVE CopiesIntact' /\ HandsIntact'
    <3>1. pc[c] = "exchange" /\ pc[c] \in Leading /\ pc'[c] = "reply"
      BY <2>3 DEF Grant, Leading
    <3>2. OnItsWay' /\ Unsaved'
      BY <3>1 DEF OnItsWay, Unsaved
    <3>3. \A d \in Callers \ {c} : pc'[d] \notin Leading
      BY <3>1 DEF LocksHeld, Leading
    <3>4. live'[got[c].line] = got[c].gen + 1 /\ got' = got
      BY <2>3 DEF Grant, Honoured, Token
    <3> QED BY <3>1, <3>2, <3>3, <3>4 DEF Leading
  <2>4. ASSUME NEW c \in Callers, Refuse(c) \/ ExchangeFails(c) PROVE CopiesIntact' /\ HandsIntact'
    <3>1. pc[c] = "exchange" /\ pc[c] \in Leading /\ pc'[c] = "delete"
      BY <2>4 DEF Refuse, ExchangeFails, Meets, Leading
    <3>2. ~OnItsWay /\ ~Unsaved /\ (\A d \in Callers \ {c} : pc[d] \notin Leading)
      BY <3>1, LeaderDecides
    <3>3. pc' = [pc EXCEPT ![c] = "delete"] /\ got' = got /\ live' = live /\ mem' = mem
          /\ file' = file /\ writer' = writer /\ buffer' = buffer
      BY <2>4 DEF Refuse, ExchangeFails
    <3>4. ~OnItsWay' /\ ~Unsaved'
      BY <3>2, <3>3 DEF OnItsWay, Unsaved
    <3> QED BY <3>2, <3>3, <3>4
  <2>5. ASSUME NEW c \in Callers, Reply(c) PROVE CopiesIntact' /\ HandsIntact'
    <3>1. pc[c] = "reply" /\ pc[c] \in Leading /\ pc' = [pc EXCEPT ![c] = "update"]
      BY <2>5 DEF Reply, Leading
    <3>2. OnItsWay' /\ Unsaved'
      BY <3>1 DEF OnItsWay, Unsaved
    <3>3. got'[c].line = got[c].line /\ got'[c].gen = got[c].gen + 1
      BY <2>5 DEF Reply, Token
    <3>4. \A d \in Callers \ {c} : got'[d] = got[d]
      BY <2>5 DEF Reply
    <3> QED BY <2>5, <3>1, <3>2, <3>3, <3>4 DEF Reply
  <2>6. ASSUME NEW c \in Callers, UpdateMemory(c) PROVE CopiesIntact' /\ HandsIntact'
    <3>1. pc[c] = "update" /\ pc' = [pc EXCEPT ![c] = "write"] /\ writer' = c
      BY <2>6 DEF UpdateMemory
    <3>2. Unsaved'
      BY <3>1 DEF Unsaved
    <3>3. mem'.tok = got[c] /\ live' = live /\ got' = got /\ file' = file
      BY <2>6 DEF UpdateMemory, Account
    <3> QED BY <3>1, <3>2, <3>3
  <2>7. ASSUME NEW c \in Callers, UpdateFile(c) PROVE CopiesIntact' /\ HandsIntact'
    <3>1. pc[c] = "write" /\ pc[c] \in Leading /\ pc' = [pc EXCEPT ![c] = "delete"]
      BY <2>7 DEF UpdateFile, Leading
    <3>2. ~OnItsWay /\ (\A d \in Callers \ {c} : pc[d] \notin Leading)
      BY <3>1, LeaderDecides
    <3>3. file' = mem /\ mem' = mem /\ live' = live /\ got' = got /\ writer' = NoCaller
      BY <2>7 DEF UpdateFile, Meets
    <3> QED BY <3>1, <3>2, <3>3 DEF Leading
  <2>8. ASSUME NEW c \in Callers, ClientGoes(c) \/ Delete(c) PROVE CopiesIntact' /\ HandsIntact'
    <3>1. \A d \in Callers : pc'[d] = pc[d] \/ (pc[d] = "delete" /\ pc'[d] = "done")
      BY <2>8 DEF ClientGoes, Delete
    <3>2. live' = live /\ mem' = mem /\ file' = file /\ writer' = writer /\ buffer' = buffer /\ got' = got
      BY <2>8 DEF ClientGoes, Delete
    <3>3. (OnItsWay' <=> OnItsWay) /\ (Unsaved' <=> Unsaved)
      BY <3>1 DEF OnItsWay, Unsaved
    <3> QED BY <3>1, <3>2, <3>3
  <2>9. ASSUME NEW c \in Callers, Done(c) \/ Answered(c) PROVE CopiesIntact' /\ HandsIntact'
    <3>1. \A d \in Callers : \/ pc'[d] = pc[d] /\ got'[d] = got[d]
                             \/ pc[d] \in {"waiting", "done", "answered"} /\ pc'[d] \in {"answered", "holding", "idle"}
      BY <2>9 DEF Done, Answered, Released
    <3>2. live' = live /\ mem' = mem /\ file' = file /\ writer' = writer /\ buffer' = buffer
      BY <2>9 DEF Done, Answered
    <3>3. (OnItsWay' <=> OnItsWay) /\ (Unsaved' <=> Unsaved)
      BY <3>1 DEF OnItsWay, Unsaved
    <3> QED BY <3>1, <3>2, <3>3
  <2>10. CASE ReloadRead \/ ReloadAdopt \/ ResetHealth \/ AskReload
    <3>1. pc' = pc /\ got' = got /\ live' = live /\ file' = file
      BY <2>10 DEF ReloadRead, ReloadAdopt, ResetHealth, AskReload
    <3>2. (OnItsWay' <=> OnItsWay) /\ (Unsaved' <=> Unsaved)
      BY <3>1 DEF OnItsWay, Unsaved
    <3>3. CASE ReloadRead
      <4>1. \A c \in Callers : pc[c] # "write"
        BY <3>3 DEF ReloadRead, LocksHeld
      <4>2. Unsaved => OnItsWay
        BY <4>1 DEF Unsaved, OnItsWay
      <4> QED BY <3>1, <3>2, <3>3, <4>2 DEF ReloadRead
    <3>4. CASE ~ReloadRead
      BY <2>10, <3>1, <3>2, <3>4 DEF ReloadAdopt, ResetHealth, AskReload
    <3> QED BY <3>3, <3>4
  <2>11. CASE CliOpens \/ CliNotifies \/ Expire \/ UNCHANGED vars
    <3>1. pc' = pc /\ got' = got /\ live' = live /\ mem' = mem /\ file' = file /\ writer' = writer
          /\ buffer' = buffer
      BY <2>11 DEF CliOpens, CliNotifies, Expire, vars
    <3>2. (OnItsWay' <=> OnItsWay) /\ (Unsaved' <=> Unsaved)
      BY <3>1 DEF OnItsWay, Unsaved
    <3> QED BY <3>1, <3>2
  <2>12. CASE CliWrites
    <3>1. pc' = pc /\ got' = got /\ mem' = mem /\ writer' = writer /\ buffer' = buffer
      BY <2>12 DEF CliWrites
    <3>2. (OnItsWay' <=> OnItsWay) /\ (Unsaved' <=> Unsaved)
      BY <3>1 DEF OnItsWay, Unsaved
    <3>3. CASE op = "login"
      <4>1. "login" \notin asked
        BY <2>12, <3>3 DEF CliWrites, OneLineage
      <4>2. live'[0] = live[0] /\ live'[1] = 1 /\ file'.tok = [line |-> 1, gen |-> 1]
        BY <2>12, <3>3 DEF CliWrites, Lineages
      <4>3. mem.tok.line = 0 /\ buffer.tok.line = 0 /\ \A c \in Callers : got[c].line = 0
        BY <4>1 DEF OneLineage
      <4> QED BY <3>1, <3>2, <4>2, <4>3
    <3>4. CASE op # "login"
      <4>1. live' = live /\ snap.tok = file.tok
        BY <2>12, <3>4 DEF CliWrites, Meets
      <4>2. file'.tok = snap.tok
        BY <2>12, <3>4 DEF CliWrites, Account
      <4> QED BY <3>1, <3>2, <4>1, <4>2
    <3> QED BY <3>3, <3>4
  <2>13. CASE Revoke
    <3>1. \A l \in Lineages : live'[l] = live[l] \/ live'[l] = 0
      BY <2>13 DEF Revoke
    <3>2. pc' = pc /\ got' = got /\ mem' = mem /\ file' = file /\ writer' = writer /\ buffer' = buffer
      BY <2>13 DEF Revoke
    <3>3. (OnItsWay' <=> OnItsWay) /\ (Unsaved' <=> Unsaved)
      BY <3>2 DEF OnItsWay, Unsaved
    <3>4. \A t \in Token : t.line \in Lineages
      BY AccountsAreTyped
    <3>5. mem.tok \in Token /\ file.tok \in Token /\ buffer.tok \in Token
      BY AccountsAreTyped
    <3> QED BY <3>1, <3>2, <3>3, <3>4, <3>5
  <2>14. CASE Restart
    <3>1. ~Unsaved /\ mem' = file /\ file' = file /\ live' = live /\ writer' = NoCaller
      BY <2>14 DEF Restart, Meets
    <3>2. \A c \in Callers : pc'[c] = "idle"
      BY <2>14 DEF Restart
    <3> QED BY <3>1, <3>2
  <2> QED BY <2>1, <2>2, <2>3, <2>4, <2>5, <2>6, <2>7, <2>8, <2>9, <2>10, <2>11, <2>12, <2>13, <2>14
          DEF Next, Step
<1> QED BY <1>3, <1>4

\* The copies are intact in every reachable state.
LEMMA AlwaysIntact == Spec => []Intact
<1>1. Init => Intact /\ OneLineage
  BY CredentialAssumption
     DEF Init, First, Lineages, Intact, CopiesIntact, HandsIntact, NeverPresentsRetired, Newest, OneLineage
<1>2. TypeOK /\ TypeOK' /\ LocksHeld /\ LocksHeld' /\ OneLineage /\ Intact /\ [Next]_vars
      => OneLineage' /\ Intact'
  BY StaysIntact, StaysOneLineage
<1> QED BY <1>1, <1>2, CredentialTyped, LocksAlwaysHeld, PTL DEF Spec

\* Whatever fails, stops, expires or is commanded, the account is lost only once
\* a token was: its exchange's answer, its way to the file, or the file's copy
\* (refresh.go refreshGroup and refresh, store.go UpdateAccount and Reload).
THEOREM LostOnlyByLosses == Spec => []OnlyLossesLose
<1>1. Intact => OnlyLossesLose
  BY DEF Intact, CopiesIntact, Newest, OnlyLossesLose, LineageKept
<1> QED BY <1>1, AlwaysIntact, PTL

(* A refresh that is about to fail its callers was refused by the upstream, *)
(* or something went wrong around one.                                      *)
Cause == refused # {} \/ mishaps # {}
FailuresHaveCauses ==
    /\ \A c \in Callers : pc[c] \in {"delete", "done", "answered"} /\ ~ok[c] => Cause
    /\ invalid => Cause

\* No step fails a request over its token without a cause (refresh.go do, refresh).
LEMMA FailuresKeepCauses ==
    ASSUME TypeOK, FailuresHaveCauses, [Next]_vars
    PROVE  FailuresHaveCauses'
<1> USE DEF TypeOK, FailuresHaveCauses, Cause, Meets, Goto, upstream, callers, process
<1>1. ASSUME NEW c \in Callers, Take(c) \/ Use(c) \/ Join(c) \/ Get(c) PROVE FailuresHaveCauses'
  BY <1>1 DEF Take, Use, Join, Get
<1>2. ASSUME NEW c \in Callers, Grant(c) \/ Reply(c) PROVE FailuresHaveCauses'
  BY <1>2 DEF Grant, Reply
<1>3. ASSUME NEW c \in Callers, Refuse(c) \/ ExchangeFails(c) PROVE FailuresHaveCauses'
  <2>1. Cause'
    BY <1>3 DEF Refuse, ExchangeFails
  <2> QED BY <2>1
<1>4. ASSUME NEW c \in Callers, ClientGoes(c) \/ UpdateMemory(c) \/ Delete(c) PROVE FailuresHaveCauses'
  BY <1>4 DEF ClientGoes, UpdateMemory, Delete
<1>5. ASSUME NEW c \in Callers, UpdateFile(c) PROVE FailuresHaveCauses'
  BY <1>5 DEF UpdateFile
<1>6. ASSUME NEW c \in Callers, Done(c) \/ Answered(c) PROVE FailuresHaveCauses'
  BY <1>6 DEF Done, Answered, Released
<1>7. CASE ReloadRead \/ ReloadAdopt \/ ResetHealth \/ AskReload
  BY <1>7 DEF ReloadRead, ReloadAdopt, ResetHealth, AskReload
<1>8. CASE CliOpens \/ CliWrites \/ CliNotifies \/ Expire \/ Revoke
  BY <1>8 DEF CliOpens, CliWrites, CliNotifies, Expire, Revoke
<1>9. CASE Restart
  <2>1. invalid' = invalid \/ invalid' = FALSE
    BY <1>9 DEF Restart
  <2>2. refused' = refused /\ mishaps \subseteq mishaps' /\ pc' = [c \in Callers |-> "idle"]
    BY <1>9 DEF Restart
  <2> QED BY <2>1, <2>2
<1>10. CASE UNCHANGED vars
  BY <1>10 DEF vars
<1> QED BY <1>1, <1>2, <1>3, <1>4, <1>5, <1>6, <1>7, <1>8, <1>9, <1>10 DEF Next, Step

\* Whatever happens, an account is condemned over its token only after its
\* sign-in was revoked or something went wrong around a refresh: the timing of
\* requests, reloads and commands is not enough (engine.go Execute, markInvalid).
THEOREM CondemnedHasCause == Spec => []CondemnedOnlyForCause
<1>1. Init => FailuresHaveCauses
  BY DEF Init, FailuresHaveCauses
<1>2. TypeOK /\ FailuresHaveCauses /\ [Next]_vars => FailuresHaveCauses'
  BY FailuresKeepCauses
<1>3. TypeOK /\ Intact /\ FailuresHaveCauses => CondemnedOnlyForCause
  BY DEF TypeOK, Intact, NeverPresentsRetired, FailuresHaveCauses, Cause, CondemnedOnlyForCause
<1> QED BY <1>1, <1>2, <1>3, CredentialTyped, AlwaysIntact, PTL DEF Spec

-----------------------------------------------------------------------------
\* Seen from the upstream, the daemon alone is Lineage: one exchange at a time,
\* of the newest token, whose answer is what it holds next (refresh.go, store.go).
THEOREM DaemonImplementsLineage ==
    ASSUME DaemonAlone
    PROVE  Spec => ImplementsLineage
<1>1. Init => L!Init
  BY DEF Init, L!Init, First, Lineages, OnItsWay
<1>2. TypeOK /\ LocksHeld /\ LocksHeld' /\ Coherent /\ [Next]_vars => [L!Next]_(L!vars)
  <2> SUFFICES ASSUME TypeOK, LocksHeld, LocksHeld', Coherent, [Next]_vars
               PROVE  [L!Next]_(L!vars)
    OBVIOUS
  <2>1. ASSUME NEW c \in Callers, Grant(c) PROVE L!Exchange
    <3>1. pc[c] = "exchange" /\ pc[c] \in Leading /\ mem' = mem /\ OnItsWay'
      BY <2>1 DEF Grant, Leading, OnItsWay, Goto, TypeOK
    <3>2. ~OnItsWay
      BY <3>1, OneLeader
    <3>3. got[c] = mem.tok /\ mem.tok.line = 0
      BY <2>1 DEF Grant, Coherent, InHand, FirstSignIn
    <3>4. live[0] = mem.tok.gen /\ live'[0] = live[0] + 1
      BY <2>1, <3>3 DEF Grant, Honoured, TypeOK, Lineages
    <3> QED BY <3>1, <3>2, <3>4 DEF L!Exchange
  <2>2. ASSUME NEW c \in Callers, UpdateMemory(c) PROVE L!Adopt
    <3>1. pc[c] = "update" /\ pc'[c] = "write" /\ live' = live
      BY <2>2 DEF UpdateMemory, Goto, TypeOK, upstream
    <3>2. OnItsWay
      BY <3>1 DEF OnItsWay
    <3>3. ~OnItsWay'
      <4>1. pc'[c] \in Leading
        BY <3>1 DEF Leading
      <4>2. \A d \in Callers \ {c} : pc'[d] \notin Leading
        BY <4>1 DEF LocksHeld
      <4> QED BY <3>1, <4>2 DEF OnItsWay, Leading
    <3>4. mem.tok.gen \in Nat /\ mem'.tok.gen = mem.tok.gen + 1
      BY <2>2, <3>1 DEF UpdateMemory, Coherent, InHand, TypeOK, Account, Token
    <3> QED BY <3>1, <3>2, <3>3, <3>4 DEF L!Adopt
  <2>3. CASE Revoke
    <3>1. live[0] > 0 /\ live'[0] = 0
      BY <2>3 DEF Revoke, Coherent, Undisturbed, TypeOK, Lineages
    <3>2. mem' = mem /\ pc' = pc
      BY <2>3 DEF Revoke, callers
    <3>3. OnItsWay' <=> OnItsWay
      BY <3>2 DEF OnItsWay
    <3> QED BY <3>1, <3>2, <3>3 DEF L!Next, L!Revoke
  <2>4. CASE mem' = mem /\ live' = live /\ (OnItsWay' <=> OnItsWay)
    BY <2>4 DEF L!vars
  <2> QED BY <2>1, <2>2, <2>3, <2>4, ThreeStepsMove DEF L!Next
<1> QED BY <1>1, <1>2, CredentialTyped, LocksAlwaysHeld, AlwaysCoherent, PTL
        DEF Spec, ImplementsLineage, L!Spec
=============================================================================
