----------------------------- MODULE HealthFile -----------------------------
(***************************************************************************)
(* What is concluded about one account, and its way through state.json:    *)
(* the daemon's memory, its flusher, its shutdown and restart              *)
(* (internal/store, cmd/agentswap serve.go), and the CLI commands that     *)
(* change the account behind its back (cmd/agentswap).                     *)
(*                                                                         *)
(* Every write of the account's health gets a serial number, and a health  *)
(* record is the number of the write that made it.  about[n] is the        *)
(* credential that write n condemned, or None: a reset or a success.       *)
(***************************************************************************)
EXTENDS Naturals, Sequences

CONSTANTS
    MaxMarks,     \* bound: writes of the account's health by requests
    MaxCli,       \* bound: CLI commands
    Commands,     \* "login" (also set and add-token), "add" (also import), "remove", "other"
    Events        \* "disk": a write may fail; "kill": the daemon may be killed;
                  \* "overlap": a command may run while the daemon stops

ASSUME HealthFileAssumption ==
    /\ MaxMarks \in Nat /\ MaxCli \in Nat
    /\ Commands \subseteq {"login", "add", "remove", "other"}
    /\ Events \subseteq {"disk", "kill", "overlap"}

VARIABLES
    about,        \* what each write of the health concluded
    marks,        \* how many of them were requests'
    asked,        \* the credentials of the clones that requests in flight may hold
    late,         \* history: the writes whose verdict was about a credential by then replaced
    pool, mem,    \* daemon: the account's credential and its health
    dirty,        \* daemon: healthDirty
    poolFile,     \* accounts.json
    file,         \* state.json
    phase,        \* cmdServe: where it stands
    flusher,      \* FlushHealth: where the one call there may be stands
    snap,         \* FlushHealth: its snapshot
    cli, command, cliPool, cliHealth,  \* a CLI process: where it stands, its command, its copies
    cliRuns,
    atStop        \* history: the health when the daemon was told to stop

daemon == <<pool, mem, dirty, phase, flusher, snap, atStop>>
process == <<cli, command, cliPool, cliHealth, cliRuns>>
requests == <<marks, asked, late>>
vars == <<about, requests, daemon, poolFile, file, process>>

None == 0                          \* no account, no credential, no health record
Credentials == 1 .. 1 + MaxCli     \* the k-th command brings in credential k + 1
Serials == 0 .. MaxMarks + 2 * MaxCli
Concluded(n) == IF n = 0 THEN None ELSE about[n]

Alive == phase \in {"serving", "closing", "final"}

Init ==
    /\ about = <<>> /\ marks = 0 /\ asked = {} /\ late = {}
    /\ pool = None /\ mem = 0 /\ dirty = FALSE /\ phase = "down"
    /\ flusher = "off" /\ snap = 0 /\ atStop = 0
    /\ poolFile = 1 /\ file = 0
    /\ cli = "idle" /\ command = "other" /\ cliPool = None /\ cliHealth = 0 /\ cliRuns = 0

-----------------------------------------------------------------------------
(* MutateHealth: nothing but memory and the flag.                          *)
(* mutant: the flag is not raised.                                         *)
MutateQuietly(verdict) ==
    /\ about' = Append(about, verdict)
    /\ mem' = Len(about) + 1
    /\ UNCHANGED dirty
Mutate(verdict) ==
    /\ about' = Append(about, verdict)
    /\ mem' = Len(about) + 1
    /\ dirty' = TRUE

(* A request takes a clone of the account, if that is not condemned.  Requests *)
(* outlive Serve, up to the end of the process.                            *)
Ask ==
    /\ Alive /\ pool # None /\ Concluded(mem) = None
    /\ asked' = asked \cup {pool}
    /\ UNCHANGED <<about, marks, late, daemon, poolFile, file, process>>

(* A request's answer: a success, or a verdict on the clone it was sent    *)
(* with.  It is entered under the account's id, whatever credential the    *)
(* pool holds for it by then, or none.                                     *)
Mark ==
    /\ Alive /\ asked # {}
    /\ marks < MaxMarks /\ marks' = marks + 1
    /\ \E verdict \in {None} \cup asked :
         /\ Mutate(verdict)
         /\ late' = IF verdict \in {None, pool} THEN late ELSE late \cup {Len(about) + 1}
    /\ UNCHANGED <<asked, pool, phase, flusher, snap, atStop, poolFile, file, process>>

(* FlushHealth: the snapshot and the flag under the lock, the file after   *)
(* it.  In the daemon one call at a time: the flusher's, and once it has   *)
(* ended the one that cmdServe defers.                                     *)
Flushing == flusher \in {"writing", "last", "deferred"}
Snapshot(next) ==
    /\ dirty
    /\ snap' = mem /\ dirty' = FALSE /\ flusher' = next

Tick ==
    /\ flusher = "ticking" /\ phase = "serving"
    /\ Snapshot("writing")
    /\ UNCHANGED <<about, requests, pool, mem, phase, atStop, poolFile, file, process>>

AfterWrite == IF flusher = "writing" THEN "ticking" ELSE "exited"
WriteEnds ==
    /\ Flushing
    /\ file' = snap \/ ("disk" \in Events /\ file' = file)
    /\ flusher' = AfterWrite /\ snap' = 0
    /\ phase' = IF flusher = "deferred" THEN "down" ELSE phase
    /\ UNCHANGED <<about, requests, pool, mem, dirty, atStop, poolFile, process>>

-----------------------------------------------------------------------------
(* cmdServe.                                                               *)
Start ==
    /\ phase = "down"
    /\ phase' = "serving"
    /\ pool' = poolFile /\ mem' = file /\ dirty' = FALSE
    /\ flusher' = "ticking" /\ asked' = {} /\ atStop' = 0
    /\ UNCHANGED <<about, marks, late, snap, poolFile, file, process>>

(* A signal: Serve returns, and cmdServe goes to its deferred calls.       *)
Stop ==
    /\ phase = "serving" /\ (cli = "idle" \/ "overlap" \in Events)
    /\ phase' = "closing" /\ atStop' = mem
    /\ UNCHANGED <<about, requests, pool, mem, dirty, flusher, snap, poolFile, file, process>>

(* The flusher sees the closed channel: one more flush and it ends.        *)
(* mutant: it ends only after a flush.                                     *)
LastFlushIfDirty ==
    /\ phase = "closing" /\ flusher = "ticking"
    /\ Snapshot("last")
    /\ UNCHANGED <<about, requests, pool, mem, phase, atStop, poolFile, file, process>>
LastFlush ==
    /\ phase = "closing" /\ flusher = "ticking"
    /\ \/ Snapshot("last")
       \/ ~dirty /\ flusher' = "exited" /\ UNCHANGED <<snap, dirty>>
    /\ UNCHANGED <<about, requests, pool, mem, phase, atStop, poolFile, file, process>>

(* mutant: cmdServe does not wait for the flusher, whose write dies.       *)
DeferredFlushAtOnce ==
    /\ phase = "closing"
    /\ phase' = IF dirty THEN "final" ELSE "down"
    /\ \/ Snapshot("deferred")
       \/ ~dirty /\ flusher' = "exited" /\ UNCHANGED <<snap, dirty>>
    /\ UNCHANGED <<about, requests, pool, mem, atStop, poolFile, file, process>>
DeferredFlush ==
    /\ phase = "closing" /\ flusher = "exited"
    /\ phase' = IF dirty THEN "final" ELSE "down"
    /\ \/ Snapshot("deferred")
       \/ ~dirty /\ UNCHANGED <<flusher, snap, dirty>>
    /\ UNCHANGED <<about, requests, pool, mem, atStop, poolFile, file, process>>

(* The file is replaced by a rename: a kill leaves the old or the new one. *)
Kill ==
    /\ "kill" \in Events /\ Alive
    /\ phase' = "down" /\ flusher' = "off" /\ snap' = 0
    /\ UNCHANGED <<about, requests, pool, mem, dirty, atStop, poolFile, file, process>>

-----------------------------------------------------------------------------
(* A CLI command: it reads both files, edits, writes accounts.json, writes *)
(* state.json if it means to forgive, and tells the daemon.                *)
CliOpens ==
    /\ cli = "idle" /\ cliRuns < MaxCli
    /\ phase \in {"down", "serving"} \/ "overlap" \in Events
    /\ command' \in Commands
    /\ command' = "remove" => poolFile # None
    /\ cliRuns' = cliRuns + 1
    /\ cliPool' = poolFile /\ cliHealth' = file
    /\ cli' = "open"
    /\ UNCHANGED <<about, requests, daemon, poolFile, file>>

CliWritesPool ==
    /\ cli = "open"
    /\ \/ command \in {"login", "add"} /\ poolFile' = cliRuns + 1
       \/ command = "remove" /\ poolFile' = None
       \/ command = "other" /\ poolFile' = cliPool
    /\ cli' = IF command \in {"login", "other"} THEN "forgive" ELSE "notify"
    /\ cliPool' = None
    /\ UNCHANGED <<about, requests, daemon, file, command, cliHealth, cliRuns>>

(* MutateHealth and FlushHealth in the CLI's own process: "other" forgives *)
(* an account that is not this one, and writes this one as it read it.     *)
(* mutant: a login does not.                                               *)
CliForgivesOthers ==
    /\ cli = "forgive"
    /\ \/ command = "login" /\ UNCHANGED <<about, file>>
       \/ command = "other" /\ file' = cliHealth /\ UNCHANGED about
    /\ cli' = "notify"
    /\ UNCHANGED <<requests, daemon, poolFile, command, cliPool, cliHealth, cliRuns>>
CliForgives ==
    /\ cli = "forgive"
    /\ \/ /\ command = "login"
          /\ about' = Append(about, None) /\ file' = Len(about) + 1
       \/ command = "other" /\ file' = cliHealth /\ UNCHANGED about
       \/ "disk" \in Events /\ UNCHANGED <<about, file>>
    /\ cli' = "notify"
    /\ UNCHANGED <<requests, daemon, poolFile, command, cliPool, cliHealth, cliRuns>>

(* handleReload, if there is a daemon to hear it: a credential that was    *)
(* not there before, or that the caller names, is forgiven.                *)
Forgives == command = "login" \/ (poolFile # None /\ poolFile # pool)
CliNotifies ==
    /\ cli = "notify"
    /\ cli' = "idle" /\ cliHealth' = 0
    /\ IF phase = "serving"
       THEN /\ pool' = poolFile
            /\ IF Forgives THEN Mutate(None)
                           ELSE dirty' = (dirty \/ command = "other") /\ UNCHANGED <<about, mem>>
       ELSE UNCHANGED <<about, pool, mem, dirty>>
    /\ UNCHANGED <<requests, phase, flusher, snap, atStop, poolFile, file, command, cliPool, cliRuns>>

Next ==
    \/ Ask \/ Mark \/ Tick \/ WriteEnds
    \/ Start \/ Stop \/ LastFlush \/ DeferredFlush \/ Kill
    \/ CliOpens \/ CliWritesPool \/ CliForgives \/ CliNotifies

Spec == Init /\ [][Next]_vars

(* The flusher's ticker goes off, a write comes to an end, and a command   *)
(* that was begun goes on.                                                 *)
FairSpec == Spec /\ WF_vars(Tick) /\ WF_vars(WriteEnds)
                 /\ WF_vars(LastFlush) /\ WF_vars(DeferredFlush)
                 /\ WF_vars(CliWritesPool \/ CliForgives \/ CliNotifies)

-----------------------------------------------------------------------------
(* Properties.                                                             *)

\* The variables have their types, and the flusher runs only in a daemon
\* (serve.go cmdServe, store.go FlushHealth).
TypeOK ==
    /\ about \in Seq({None} \cup Credentials) /\ marks \in 0 .. MaxMarks /\ Len(about) \in Serials
    /\ asked \subseteq Credentials /\ late \subseteq Serials
    /\ {pool, poolFile, cliPool} \subseteq {None} \cup Credentials
    /\ {mem, file, snap, cliHealth, atStop} \subseteq 0 .. Len(about)
    /\ dirty \in BOOLEAN
    /\ phase \in {"down", "serving", "closing", "final"}
    /\ flusher \in {"off", "ticking", "writing", "last", "exited", "deferred"}
    /\ cli \in {"idle", "open", "forgive", "notify"} /\ command \in {"login", "add", "remove", "other"}
    /\ cliRuns \in 0 .. MaxCli
    /\ phase = "serving" => flusher \in {"ticking", "writing"}
    /\ phase = "final" <=> flusher = "deferred"

\* A daemon that has nothing to flush has its health on the disk: no write of
\* it slips between the snapshot and the flag, and no command that ends leaves
\* the file apart from it (store.go FlushHealth, proxy.go handleReload).
SavedWhenClean == Alive /\ ~dirty /\ ~Flushing /\ cli = "idle" => file = mem

\* A daemon that was told to stop leaves behind what it knew at that moment,
\* or something newer (serve.go cmdServe, the deferred flush).
StopSaves == [][Alive /\ phase' = "down" /\ flusher' = "exited" => file' >= atStop]_vars

\* It leaves behind everything it knew when it ended
\* (serve.go cmdServe: the health we hold becomes final).
FinalIsSaved == [][Alive /\ phase' = "down" /\ flusher' = "exited" => file' = mem]_vars

\* Once the command that brought in a credential has ended, the account is not
\* condemned over an older one: what was concluded before the change is forgotten
\* in memory and on the disk, by the daemon and by one that starts later.  Only an
\* answer that came after the change may condemn it so, as markInvalid goes by the
\* account's id (login.go adopt, set.go cmdSet, proxy.go handleReload, engine.go markInvalid).
CondemnedForCause ==
    phase = "serving" /\ cli = "idle" /\ pool # None => Concluded(mem) \in {None, pool} \/ mem \in late

\* It is not condemned over an older credential by such an answer either
\* (engine.go markInvalid; store.go Reload: a credential that is no longer there).
NoLateAnswerCondemns ==
    phase = "serving" /\ cli = "idle" /\ pool # None => Concluded(mem) \in {None, pool}

\* What is learnt of an account reaches the disk, or the daemon ends first
\* (store.go RunHealthFlusher).
EventuallySaved ==
    \A n \in Serials \ {0} : (Alive /\ mem = n) ~> (file >= n \/ phase = "down")

\* A daemon that is told to stop ends, whatever its last writes come to
\* (serve.go cmdServe, store.go RunHealthFlusher).
ShutdownEnds == phase = "closing" ~> phase = "down"
=============================================================================
