-------------------------- MODULE HealthFileProofs --------------------------
(***************************************************************************)
(* Theorems about HealthFile, for any number of writes and commands.       *)
(***************************************************************************)
EXTENDS HealthFile, TLAPS

-----------------------------------------------------------------------------
\* The writes of the health that the command under way may still make.
Pending == IF cli = "idle" THEN 0 ELSE IF cli = "notify" THEN 1 ELSE 2
Counted == TypeOK /\ Len(about) + Pending <= marks + 2 * cliRuns

\* Appending a write leaves the earlier ones as they were, whatever it concludes.
LEMMA WritesAreKept ==
  ASSUME NEW C, NEW s \in Seq(C), NEW v \in C
  PROVE  /\ Append(s, v) \in Seq(C) /\ Len(Append(s, v)) = Len(s) + 1 /\ Len(s) \in Nat
         /\ Append(s, v)[Len(s) + 1] = v
         /\ \A n \in 1 .. Len(s) : Append(s, v)[n] = s[n]
  OBVIOUS

\* Every step keeps the types, and a command writes the health at most twice.
LEMMA CountedKept == Counted /\ [Next]_vars => Counted'
<1> SUFFICES ASSUME Counted, [Next]_vars PROVE Counted'
  OBVIOUS
<1> USE HealthFileAssumption DEF Counted, TypeOK, Pending, daemon, process, requests, Alive, Flushing
<1> DEFINE C == {None} \cup Credentials
<1>0. about \in Seq(C) /\ Len(about) \in Nat /\ pool \in C /\ None \in C
  BY WritesAreKept
<1>1. ASSUME NEW v \in C, Mutate(v)
      PROVE  about' \in Seq(C) /\ Len(about') = Len(about) + 1 /\ mem' = Len(about') /\ dirty' = TRUE
  BY <1>0, <1>1, WritesAreKept DEF Mutate
<1>2. CASE Mark
  <2>1. PICK v \in {None} \cup asked :
          Mutate(v) /\ late' = IF v \in {None, pool} THEN late ELSE late \cup {Len(about) + 1}
    BY <1>2 DEF Mark
  <2>2. v \in C
    BY <1>0
  <2> HIDE DEF C
  <2>3. about' \in Seq(C) /\ Len(about') = Len(about) + 1 /\ mem' = Len(about') /\ dirty' = TRUE
    BY <1>1, <2>1, <2>2
  <2>4. marks' = marks + 1 /\ marks' \in 0 .. MaxMarks
    BY <1>2 DEF Mark
  <2>5. Len(about') \in Serials /\ Len(about') + Pending' <= marks' + 2 * cliRuns'
    BY <1>0, <1>2, <2>3, <2>4 DEF Mark, Serials
  <2>6. late' \subseteq Serials
    BY <2>1, <2>3, <2>5
  <2> USE DEF C
  <2> QED BY <1>0, <1>2, <2>3, <2>4, <2>5, <2>6 DEF Mark
<1>3. CASE Tick \/ LastFlush \/ DeferredFlush
  <2>1. UNCHANGED <<about, requests, pool, mem, atStop, poolFile, file, process>> /\ dirty' \in BOOLEAN
    BY <1>3 DEF Tick, LastFlush, DeferredFlush, Snapshot
  <2>2. snap' \in {snap, mem}
    BY <1>3 DEF Tick, LastFlush, DeferredFlush, Snapshot
  <2>3. /\ phase' \in {"down", "serving", "closing", "final"}
        /\ flusher' \in {"off", "ticking", "writing", "last", "exited", "deferred"}
        /\ phase' = "serving" => flusher' \in {"ticking", "writing"}
        /\ phase' = "final" <=> flusher' = "deferred"
    BY <1>3 DEF Tick, LastFlush, DeferredFlush, Snapshot
  <2> QED BY <2>1, <2>2, <2>3
<1>4. CASE WriteEnds
  BY <1>4 DEF WriteEnds, AfterWrite
<1>5. CASE Start \/ Stop \/ Kill
  <2>1. CASE Start
    <3>1. /\ UNCHANGED <<about, marks, late, snap, poolFile, file, cli, command, cliPool, cliHealth, cliRuns>>
          /\ pool' = poolFile /\ mem' = file /\ dirty' = FALSE /\ atStop' = 0 /\ asked' = {}
          /\ phase' = "serving" /\ flusher' = "ticking"
      BY <2>1 DEF Start
    <3>2. {pool', poolFile', cliPool'} \subseteq C'
      BY <3>1 DEF Credentials
    <3>3. {mem', file', snap', cliHealth', atStop'} \subseteq 0 .. Len(about')
      BY <1>0, <3>1
    <3> QED BY <3>1, <3>2, <3>3
  <2>2. CASE Stop
    BY <1>0, <2>2 DEF Stop
  <2>3. CASE Kill
    <3>1. UNCHANGED <<about, requests, pool, mem, dirty, atStop, poolFile, file, process>> /\ snap' = 0
          /\ phase' = "down" /\ flusher' = "off"
      BY <2>3 DEF Kill
    <3> QED BY <1>0, <3>1
  <2> QED BY <1>5, <2>1, <2>2, <2>3
<1>6. CASE CliOpens
  BY <1>0, <1>6 DEF CliOpens
<1>7. CASE CliWritesPool
  BY <1>0, <1>7 DEF CliWritesPool, Credentials, None
<1>8. CASE CliForgives
  <2>1. CASE command = "login" /\ about' = Append(about, None) /\ file' = Len(about) + 1
    <3>1. about' \in Seq(C) /\ Len(about') = Len(about) + 1
      BY <1>0, <2>1, WritesAreKept
    <3>2. cli = "forgive" /\ cli' = "notify" /\ marks' = marks /\ cliRuns' = cliRuns
      BY <1>8 DEF CliForgives
    <3>3. Len(about') \in Serials /\ Len(about') + Pending' <= marks' + 2 * cliRuns'
      BY <1>0, <3>1, <3>2 DEF Serials
    <3> QED BY <1>0, <1>8, <2>1, <3>1, <3>3 DEF CliForgives
  <2>2. CASE UNCHANGED about /\ file' \in {file, cliHealth}
    BY <1>0, <1>8, <2>2 DEF CliForgives, Serials
  <2> QED BY <1>8, <2>1, <2>2 DEF CliForgives
<1>9. CASE CliNotifies
  <2>1. CASE phase = "serving" /\ Forgives
    <3>1. about' \in Seq(C) /\ Len(about') = Len(about) + 1 /\ mem' = Len(about') /\ dirty' = TRUE
      BY <1>0, <1>1, <1>9, <2>1 DEF CliNotifies
    <3>2. Len(about') \in Serials /\ Len(about') + Pending' <= marks' + 2 * cliRuns'
      BY <1>0, <1>9, <3>1 DEF CliNotifies, Serials
    <3> QED BY <1>0, <1>9, <2>1, <3>1, <3>2 DEF CliNotifies
  <2>2. CASE ~(phase = "serving" /\ Forgives)
    <3>1. UNCHANGED <<about, requests, mem, phase, flusher, snap, atStop, poolFile, file, command,
                      cliPool, cliRuns>> /\ cliHealth' = 0
      BY <1>9, <2>2 DEF CliNotifies
    <3>2. dirty' \in BOOLEAN
      BY <1>9, <2>2 DEF CliNotifies
    <3>3. pool' \in {pool, poolFile} /\ cli = "notify" /\ cli' = "idle"
      BY <1>9, <2>2 DEF CliNotifies
    <3> QED BY <1>0, <3>1, <3>2, <3>3
  <2> QED BY <2>1, <2>2
<1>10. CASE UNCHANGED vars
  BY <1>10 DEF vars
<1>11. CASE Ask
  <2>1. asked' \subseteq Credentials
    BY <1>11 DEF Ask
  <2> QED BY <1>0, <1>11, <2>1 DEF Ask
<1> QED BY <1>2, <1>3, <1>4, <1>5, <1>6, <1>7, <1>8, <1>9, <1>10, <1>11 DEF Next

\* Init counts no write.
LEMMA CountedAtFirst == Init => Counted
<1> SUFFICES ASSUME Init PROVE Counted
  OBVIOUS
<1>1. about \in Seq({None} \cup Credentials) /\ Len(about) = 0
  BY DEF Init
<1>2. 0 \in Serials /\ 1 \in Credentials /\ 0 \in 0 .. MaxMarks /\ 0 \in 0 .. MaxCli
  BY HealthFileAssumption DEF Serials, Credentials
<1>3. {mem, file, snap, cliHealth, atStop} \subseteq 0 .. Len(about)
  BY <1>1 DEF Init, None
<1>4. {pool, poolFile, cliPool} \subseteq {None} \cup Credentials
  BY <1>2 DEF Init
<1>5. TypeOK
  BY <1>1, <1>2, <1>3, <1>4 DEF Init, TypeOK
<1> QED BY <1>1, <1>5 DEF Init, Counted, Pending

\* Every reachable state is well typed, and only a daemon flushes
\* (store.go FlushHealth, serve.go cmdServe).
THEOREM HealthFileTyped == Spec => []TypeOK
<1>1. Counted => TypeOK
  BY DEF Counted
<1> QED BY <1>1, CountedAtFirst, CountedKept, PTL DEF Spec

-----------------------------------------------------------------------------
\* What a daemon that no command interferes with keeps: what is not marked dirty
\* is on the disk, or in the snapshot on its way there; and once it was told to
\* stop, its memory, and the snapshot of its last flush, are at least as new as then.
Kept ==
    /\ Counted /\ cli = "idle" /\ cliRuns = 0
    /\ Alive /\ ~dirty => mem = IF Flushing THEN snap ELSE file
    /\ phase \in {"closing", "final"} => mem >= atStop
    /\ phase = "final" => snap >= atStop

\* Requests, flushes, stops, kills and restarts all keep it.
LEMMA KeptKept ==
  ASSUME MaxCli = 0, Events \subseteq {"kill"}, Kept, [Next]_vars
  PROVE  Kept' /\ SavedWhenClean' /\ (Alive /\ phase' = "down" /\ flusher' = "exited" => file' >= atStop)
<1> DEFINE Saves == Alive /\ phase' = "down" /\ flusher' = "exited" => file' >= atStop
<1>1. Counted'
  BY CountedKept DEF Kept
<1>2. Kept /\ {mem, file, snap, atStop} \subseteq Nat /\ dirty \in BOOLEAN
      /\ {mem, atStop} \subseteq 0 .. Len(about) /\ Len(about) \in Nat /\ "disk" \notin Events
      /\ (phase = "final" <=> flusher = "deferred") /\ (phase = "serving" => flusher \in {"ticking", "writing"})
  BY DEF Kept, Counted, TypeOK
<1> USE DEF Kept, SavedWhenClean, Alive, Flushing, process
<1>3. CASE Mark
  <2>1. mem' = Len(about) + 1 /\ dirty' = TRUE
    BY <1>3 DEF Mark, Mutate
  <2>2. UNCHANGED <<phase, flusher, snap, atStop, file, process>>
    BY <1>3 DEF Mark
  <2> QED BY <1>1, <1>2, <2>1, <2>2
<1>4. CASE Tick \/ LastFlush
  BY <1>1, <1>2, <1>4 DEF Tick, LastFlush, Snapshot
<1>5. CASE DeferredFlush
  BY <1>1, <1>2, <1>5 DEF DeferredFlush, Snapshot
<1>6. CASE WriteEnds
  BY <1>1, <1>2, <1>6 DEF WriteEnds, AfterWrite
<1>7. CASE Start \/ Stop \/ Kill
  BY <1>1, <1>2, <1>7 DEF Start, Stop, Kill
<1>8. CASE CliOpens \/ CliWritesPool \/ CliForgives \/ CliNotifies
  BY <1>2, <1>8 DEF CliOpens, CliWritesPool, CliForgives, CliNotifies
<1>9. CASE UNCHANGED vars
  BY <1>1, <1>2, <1>9 DEF vars, daemon
<1>10. CASE Ask
  BY <1>1, <1>2, <1>10 DEF Ask, daemon
<1> QED BY <1>3, <1>4, <1>5, <1>6, <1>7, <1>8, <1>9, <1>10 DEF Next

\* Where the disk takes what it is given and nobody else writes the file, a
\* daemon with nothing to flush has its health on the disk (store.go FlushHealth).
THEOREM CleanIsSaved == MaxCli = 0 /\ Events \subseteq {"kill"} /\ Spec => []SavedWhenClean
<1> SUFFICES ASSUME MaxCli = 0, Events \subseteq {"kill"} PROVE Spec => []SavedWhenClean
  OBVIOUS
<1>1. Init => Kept /\ SavedWhenClean
  BY CountedAtFirst DEF Kept, SavedWhenClean, Init, Alive
<1>2. Kept /\ SavedWhenClean /\ [Next]_vars => (Kept /\ SavedWhenClean)'
  BY KeptKept
<1> QED BY <1>1, <1>2, PTL DEF Spec

\* And a daemon told to stop leaves its health behind (serve.go cmdServe).
THEOREM StopsSaved == MaxCli = 0 /\ Events \subseteq {"kill"} /\ Spec => StopSaves
<1> SUFFICES ASSUME MaxCli = 0, Events \subseteq {"kill"} PROVE Spec => StopSaves
  OBVIOUS
<1>1. Init => Kept
  BY CountedAtFirst DEF Kept, Init, Alive
<1>2. Kept /\ [Next]_vars => Kept'
  BY KeptKept
<1>3. Kept /\ [Next]_vars => [Alive /\ phase' = "down" /\ flusher' = "exited" => file' >= atStop]_vars
  BY KeptKept
<1> QED BY <1>1, <1>2, <1>3, PTL DEF Spec, StopSaves

-----------------------------------------------------------------------------
\* After the writes h, the n-th is no verdict on any credential but c, unless it
\* is one of the answers l that came after the credential had changed.
Fine(h, l, n, c) == c = None \/ n = 0 \/ h[n] \in {None, c} \/ n \in l

\* A command is between its accounts.json and its end.
Busy(commands) == cli \in {"forgive", "notify"} /\ command \in commands

\* What the daemon and a command agree on.  The file may hold an old verdict
\* only until the daemon's next write of it, which is due; and a command hands
\* on what it read only where it makes such a write due, or no daemon runs.
Agreed ==
    /\ Counted
    /\ Flushing => Alive
    /\ phase \in {"closing", "final"} => cli = "idle"
    /\ Alive /\ ~Busy({"login", "remove"}) => pool = poolFile
    /\ Alive /\ ~Busy({"login"}) => Fine(about, late, mem, pool)
    /\ Alive /\ ~dirty /\ ~Busy({"login", "other"}) => Fine(about, late, IF Flushing THEN snap ELSE file, pool)
    /\ phase = "final" => Fine(about, late, snap, pool)
    /\ phase = "down" /\ ~(cli = "forgive" /\ command = "login") => Fine(about, late, file, poolFile)
    /\ phase = "down" /\ cli \in {"open", "forgive"} /\ command = "other" => Fine(about, late, cliHealth, poolFile)
    /\ cli = "open" => cliPool = poolFile
    /\ cli # "idle" => command \in {"login", "remove", "other"}
    /\ cli = "forgive" => command \in {"login", "other"}

\* A new write leaves the earlier ones as fine as they were, and one that
\* concludes nothing, condemns c or came late is fine for c.
LEMMA FineKept ==
  ASSUME Counted, NEW v \in {None} \cup Credentials, about' = Append(about, v), late \subseteq late'
  PROVE  /\ \A n \in 0 .. Len(about) : \A c : Fine(about, late, n, c) => Fine(about', late', n, c)
         /\ \A c : v \in {None, c} \/ Len(about) + 1 \in late' => Fine(about', late', Len(about) + 1, c)
<1>1. about \in Seq({None} \cup Credentials)
  BY DEF Counted, TypeOK
<1>2. /\ Len(about) \in Nat /\ about'[Len(about) + 1] = v
      /\ \A n \in 1 .. Len(about) : about'[n] = about[n]
  BY <1>1, WritesAreKept
<1> QED BY <1>2 DEF Fine

\* Every step of the daemon and of a command keeps the two in agreement.
LEMMA AgreedKept ==
  ASSUME Events = {}, Commands \subseteq {"login", "remove", "other"}, Agreed, [Next]_vars
  PROVE  Agreed'
<1> DEFINE Written == \E v \in {None} \cup Credentials : about' = Append(about, v)
<1>1. Counted'
  BY CountedKept DEF Agreed
<1>2. /\ {mem, file, snap, cliHealth} \subseteq 0 .. Len(about) /\ Len(about) \in Nat /\ dirty \in BOOLEAN
      /\ pool \in {None} \cup Credentials
      /\ (phase = "final" <=> flusher = "deferred") /\ (phase = "serving" => flusher \in {"ticking", "writing"})
      /\ cli \in {"idle", "open", "forgive", "notify"}
      /\ phase \in {"down", "serving", "closing", "final"}
  BY DEF Agreed, Counted, TypeOK
<1>3. \A h, l, n : Fine(h, l, n, None)
  BY DEF Fine
<1>4. ASSUME NEW v \in {None} \cup Credentials, about' = Append(about, v), late \subseteq late'
      PROVE  /\ \A n \in 0 .. Len(about) : \A c : Fine(about, late, n, c) => Fine(about', late', n, c)
             /\ \A c : v \in {None, c} \/ Len(about) + 1 \in late' => Fine(about', late', Len(about) + 1, c)
  BY <1>4, FineKept DEF Agreed
<1> USE DEF Agreed, Alive, Flushing, Busy, process, daemon, requests
<1>5. CASE Mark
  <2>1. PICK v \in {None} \cup asked :
          Mutate(v) /\ late' = IF v \in {None, pool} THEN late ELSE late \cup {Len(about) + 1}
    BY <1>5 DEF Mark
  <2>2. v \in {None} \cup Credentials
    BY DEF Counted, TypeOK
  <2>3. /\ Fine(about', late', mem', pool) /\ dirty' = TRUE
        /\ \A n \in 0 .. Len(about) : \A c : Fine(about, late, n, c) => Fine(about', late', n, c)
    BY <1>2, <1>4, <2>1, <2>2 DEF Mutate
  <2>4. UNCHANGED <<pool, phase, flusher, snap, poolFile, file, process>> /\ Alive
    BY <1>5 DEF Mark
  <2> QED BY <1>1, <1>2, <2>3, <2>4
<1>6. CASE Tick \/ LastFlush
  BY <1>1, <1>2, <1>6 DEF Tick, LastFlush, Snapshot
<1>7. CASE DeferredFlush
  BY <1>1, <1>2, <1>7 DEF DeferredFlush, Snapshot
<1>8. CASE WriteEnds
  <2>1. UNCHANGED <<about, late, pool, mem, dirty, poolFile, cli, command, cliPool, cliHealth>> /\ file' = snap
    BY <1>8 DEF WriteEnds
  <2>2. CASE flusher = "deferred"
    <3>1. /\ phase = "final" /\ phase' = "down" /\ flusher' = "exited"
          /\ cli = "idle" /\ pool = poolFile /\ Fine(about, late, snap, pool)
      BY <1>2, <1>8, <2>2 DEF WriteEnds, AfterWrite
    <3> QED BY <1>1, <2>1, <3>1
  <2>3. CASE flusher \in {"writing", "last"}
    <3>1. phase \in {"serving", "closing"} /\ phase' = phase /\ flusher' \in {"ticking", "exited"}
      BY <1>2, <1>8, <2>3 DEF WriteEnds, AfterWrite
    <3> QED BY <1>1, <2>1, <2>3, <3>1
  <2> QED BY <1>8, <2>2, <2>3 DEF WriteEnds
<1>9. CASE Start
  BY <1>1, <1>2, <1>9 DEF Start
<1>10. CASE Stop \/ Kill
  BY <1>1, <1>2, <1>10 DEF Stop, Kill
<1>11. CASE CliOpens
  <2>1. /\ UNCHANGED <<about, late, pool, mem, dirty, phase, flusher, snap, poolFile, file>>
        /\ cli = "idle" /\ cli' = "open" /\ cliPool' = poolFile /\ cliHealth' = file
        /\ command' \in {"login", "remove", "other"} /\ phase \notin {"closing", "final"}
    BY <1>11 DEF CliOpens
  <2> QED BY <1>1, <1>2, <2>1
<1>12. CASE CliWritesPool
  BY <1>1, <1>2, <1>3, <1>12 DEF CliWritesPool
<1>13. CASE CliForgives
  <2>1. CASE command = "login"
    <3>1. /\ Fine(about', late', file', poolFile)
          /\ \A n \in 0 .. Len(about) : \A c : Fine(about, late, n, c) => Fine(about', late', n, c)
      BY <1>2, <1>4, <1>13, <2>1 DEF CliForgives
    <3>2. UNCHANGED <<pool, mem, dirty, phase, flusher, snap, poolFile, command, cliPool, cliHealth>>
          /\ cli = "forgive" /\ cli' = "notify"
      BY <1>13 DEF CliForgives
    <3> QED BY <1>1, <1>2, <2>1, <3>1, <3>2
  <2>2. CASE command # "login"
    BY <1>1, <1>2, <1>13, <2>2 DEF CliForgives
  <2> QED BY <2>1, <2>2
<1>14. CASE CliNotifies
  <2>1. CASE phase = "serving" /\ Forgives
    <3>1. /\ Fine(about', late', mem', poolFile) /\ dirty' = TRUE
          /\ \A n \in 0 .. Len(about) : \A c : Fine(about, late, n, c) => Fine(about', late', n, c)
      BY <1>2, <1>4, <1>14, <2>1 DEF CliNotifies, Mutate
    <3> QED BY <1>1, <1>2, <1>14, <2>1, <3>1 DEF CliNotifies
  <2>2. CASE phase = "serving" /\ ~Forgives
    <3>1. (dirty \/ command = "other") => dirty'
      BY <1>14, <2>2 DEF CliNotifies
    <3>2. /\ UNCHANGED <<about, late, mem, phase, flusher, snap, poolFile, file, command, cliPool>>
          /\ cli = "notify" /\ cli' = "idle" /\ pool' = poolFile
          /\ command # "login" /\ (poolFile = None \/ pool = poolFile)
      BY <1>14, <2>2 DEF CliNotifies, Forgives
    <3> QED BY <1>1, <1>2, <1>3, <2>2, <3>1, <3>2
  <2>3. CASE phase # "serving"
    BY <1>1, <1>2, <1>14, <2>3 DEF CliNotifies
  <2> QED BY <2>1, <2>2, <2>3
<1>15. CASE UNCHANGED vars
  BY <1>1, <1>2, <1>15 DEF vars
<1>16. CASE Ask
  BY <1>1, <1>2, <1>16 DEF Ask
<1> QED BY <1>5, <1>6, <1>7, <1>8, <1>9, <1>10, <1>11, <1>12, <1>13, <1>14, <1>15, <1>16 DEF Next

\* Where writes succeed, the daemon stops between commands and nobody adds an
\* account under an old name, no daemon holds a new credential condemned for
\* the one it replaced, unless by an answer that came after the change
\* (login.go adopt, proxy.go handleReload, engine.go markInvalid).
THEOREM OldVerdictsForgotten ==
  Events = {} /\ Commands \subseteq {"login", "remove", "other"} /\ Spec => []CondemnedForCause
<1> SUFFICES ASSUME Events = {}, Commands \subseteq {"login", "remove", "other"}
             PROVE  Spec => []CondemnedForCause
  OBVIOUS
<1>1. Init => Agreed
  <2> SUFFICES ASSUME Init PROVE Agreed
    OBVIOUS
  <2>1. Fine(about, late, file, poolFile)
    BY DEF Init, Fine, None
  <2> QED BY <2>1, CountedAtFirst DEF Init, Agreed, Alive, Flushing, Busy
<1>2. Agreed /\ [Next]_vars => Agreed'
  BY AgreedKept
<1>3. Agreed => CondemnedForCause
  BY DEF Agreed, CondemnedForCause, Fine, Concluded, Alive, Busy, None
<1> QED BY <1>1, <1>2, <1>3, PTL DEF Spec
=============================================================================
