------------------------------ MODULE Publish ------------------------------
(***************************************************************************)
(* The files of a transfer: Manager.Teleport writes the archive of a       *)
(* compaction, then lets the target's writer stage and publish the main    *)
(* thread and its delegated runs, and undoes what it made when a step      *)
(* fails.  The process may die between any two steps, and two transfers    *)
(* (of two projects) may run at once; what they share is kimi.json.        *)
(***************************************************************************)
EXTENDS Naturals, FiniteSets, Sequences, SequencesExt

CONSTANTS
    Transfers,  \* the transfers, each of a project of its own
    Targets,    \* the forms that are written
    Branches,   \* the delegated runs of every session
    Known       \* the projects that kimi.json lists at the start

ASSUME PublishAssumption ==
    /\ Targets \subseteq {"claude", "codex", "opencode", "kimi", "legacy"}
    /\ Known \subseteq Transfers
    /\ IsFiniteSet(Branches)
    /\ Branches \cap {"main", "main.tmp", "plan", "plan.tmp", "stage", "tree", "archive", "archive.tmp"} = {}

VARIABLES
    target,     \* the form each transfer writes
    compacted,  \* it has an archive
    pc,         \* its next step; 0 before it begins
    outcome,    \* "idle", "running", "ok", "failed" or "crashed"
    disk,       \* what it has on disk
    stuck,      \* the transfers whose rollback OpenCode did not carry out
    listed,     \* the projects kimi.json lists
    draft,      \* kimi.json.agentswap.tmp: a set of projects, or none
    seen        \* what a transfer has read of kimi.json

vars == <<target, compacted, pc, outcome, disk, stuck, listed, draft, seen>>

-----------------------------------------------------------------------------
(* The steps of each writer, in the order of the code.                      *)

Put(gain, lose) == [op |-> "put", gain |-> gain, lose |-> lose]
Op(name) == [op |-> name, gain |-> {}, lose |-> {}]
Each == [i \in 1..Cardinality(Branches) |-> Put({SetToSeq(Branches)[i]}, {})]
Whole == {"main"} \cup Branches

(* Archive.Write: a whole directory is staged and renamed.                  *)
ArchiveSteps == << Put({"archive.tmp"}, {}), Put({"archive"}, {"archive.tmp"}) >>

(* The runs and the plan go to their places; the main log is renamed last.  *)
MainFirst == << Put({"main"}, {}) >> \o Each \o << Put({"plan"}, {}) >>  \* mutant
ClaudeSteps == << Put({"main.tmp"}, {}) >> \o Each
               \o << Put({"plan.tmp"}, {}), Put({"plan"}, {"plan.tmp"}), Put({"main"}, {"main.tmp"}) >>

(* Every thread is staged; the runs are published, the root after them.     *)
CodexSteps == << Put({"stage"}, {}) >> \o Each \o << Put({"main"}, {}), Put({}, {"stage"}) >>

KimiSteps == << Put({"stage"}, {}), Put(Whole, {"stage"}) >>

(* The tree is renamed into place before kimi.json is read, written to a    *)
(* file of a fixed name, and renamed.                                       *)
LegacySteps == KimiSteps \o << Op("look"), Op("draft"), Op("list") >>

(* OpenCode imports the root, then the runs; the tree manifest is last.     *)
OpenCodeSteps == << Put({"main"}, {}) >> \o Each \o << Put({"tree"}, {}) >>

Writer(a) ==
    CASE a = "claude"   -> ClaudeSteps
      [] a = "codex"    -> CodexSteps
      [] a = "kimi"     -> KimiSteps
      [] a = "legacy"   -> LegacySteps
      [] a = "opencode" -> OpenCodeSteps

(* Manager.Teleport; Finalize names the new session in the manifest.        *)
WriterFirst(t) ==  \* mutant: the archive after the target
    IF compacted[t] THEN Writer(target[t]) \o ArchiveSteps \o << Op("name") >> ELSE Writer(target[t])
Steps(t) ==
    IF compacted[t] THEN ArchiveSteps \o Writer(target[t]) \o << Op("name") >> ELSE Writer(target[t])
Now(t) == Steps(t)[pc[t]]
Runs(t) == outcome[t] = "running"

(* What the deferred cleanup of a writer removes when it has not committed. *)
NoRuns(a) == {"main.tmp", "plan.tmp", "plan"}  \* mutant: the session's directory stays
Undone(a) ==
    CASE a = "claude"   -> {"main.tmp", "plan.tmp", "plan"} \cup Branches
      [] a = "codex"    -> {"stage"} \cup Branches
      [] a = "kimi"     -> {"stage"}
      [] a = "legacy"   -> {"stage"} \cup Whole
      [] a = "opencode" -> {"tree"} \cup Whole

-----------------------------------------------------------------------------
Init ==
    /\ target \in [Transfers -> Targets] /\ compacted \in [Transfers -> BOOLEAN]
    /\ pc = [t \in Transfers |-> 0]
    /\ outcome = [t \in Transfers |-> "idle"]
    /\ disk = [t \in Transfers |-> {}]
    /\ stuck = {} /\ listed = Known /\ draft = {}
    /\ seen = [t \in Transfers |-> {}]

Begin(t) ==
    /\ outcome[t] = "idle"
    /\ outcome' = [outcome EXCEPT ![t] = "running"]
    /\ pc' = [pc EXCEPT ![t] = 1]
    /\ UNCHANGED <<target, compacted, disk, stuck, listed, draft, seen>>

Advance(t) ==
    /\ pc' = [pc EXCEPT ![t] = @ + 1]
    /\ outcome' = IF pc[t] = Len(Steps(t)) THEN [outcome EXCEPT ![t] = "ok"] ELSE outcome
    /\ UNCHANGED <<target, compacted, stuck>>

(* A file or directory is made or renamed, a session is imported.           *)
Make(t) ==
    /\ Runs(t) /\ Now(t).op = "put"
    /\ disk' = [disk EXCEPT ![t] = (@ \ Now(t).lose) \cup Now(t).gain]
    /\ Advance(t)
    /\ UNCHANGED <<listed, draft, seen>>

(* updateKimiLegacyMetadata *)
Look(t) ==
    /\ Runs(t) /\ Now(t).op = "look"
    /\ seen' = [seen EXCEPT ![t] = listed]
    /\ Advance(t)
    /\ UNCHANGED <<disk, listed, draft>>

Draft(t) ==
    /\ Runs(t) /\ Now(t).op = "draft"
    /\ draft' = seen[t] \cup {t}
    /\ Advance(t)
    /\ UNCHANGED <<disk, listed, seen>>

List(t) ==
    /\ Runs(t) /\ Now(t).op = "list" /\ draft # {}
    /\ listed' = draft /\ draft' = {}
    /\ Advance(t)
    /\ UNCHANGED <<disk, seen>>

(* Finalize: a failure is a warning.                                        *)
Name(t) ==
    /\ Runs(t) /\ Now(t).op = "name"
    /\ Advance(t)
    /\ UNCHANGED <<disk, listed, draft, seen>>

(* A step fails: the writer undoes its own, Teleport removes the archive.   *)
(* A failed import may have imported, and deleting a session again is       *)
(* OpenCode's to do or not.                                                 *)
Fail(t) ==
    /\ Runs(t) /\ Now(t).op # "name"
    /\ Now(t) # Put({}, {"stage"})
    /\ outcome' = [outcome EXCEPT ![t] = "failed"]
    /\ LET left == disk[t] \ ({"archive", "archive.tmp"} \cup Undone(target[t])) IN
       \/ disk' = [disk EXCEPT ![t] = left] /\ UNCHANGED stuck
       \/ /\ target[t] = "opencode" /\ (disk[t] \cup Now(t).gain) \cap Whole # {}
          /\ \E kept \in SUBSET ((disk[t] \cup Now(t).gain) \cap Whole) \ {{}} :
                disk' = [disk EXCEPT ![t] = left \cup kept]
          /\ stuck' = stuck \cup {t}
    /\ draft' = IF Now(t).op = "list" THEN {} ELSE draft
    /\ UNCHANGED <<target, compacted, pc, listed, seen>>

Crash(t) ==
    /\ Runs(t)
    /\ outcome' = [outcome EXCEPT ![t] = "crashed"]
    /\ UNCHANGED <<target, compacted, pc, disk, stuck, listed, draft, seen>>

Next == \E t \in Transfers :
    \/ Begin(t) \/ Make(t) \/ Look(t) \/ Draft(t) \/ List(t) \/ Name(t)
    \/ Fail(t) \/ Crash(t)
Spec == Init /\ [][Next]_vars

-----------------------------------------------------------------------------
(* Properties *)

(* What of a transfer's files discovery lists as a session: a main thread   *)
(* in its place and, of the old Kimi, any directory with a wire log, the    *)
(* staged tree included.                                                    *)
Discovered(t) ==
    IF target[t] = "legacy" /\ t \notin listed THEN {}
    ELSE disk[t] \cap ({"main"} \cup IF target[t] = "legacy" THEN {"stage"} ELSE {})

(* A session discovery lists has all its delegated runs, while transfers    *)
(* run, fail and die (codex_branches.go:221).  Two forms are excepted.      *)
(* OpenCode's import is whole when the transfer ends, if its rollback       *)
(* works.  And the old Kimi's discovery lists the staged tree of a transfer *)
(* that runs or has died (kimi.go:223), but of no other.                    *)
DiscoveredIsWhole == \A t \in Transfers : \A session \in Discovered(t) :
    \/ session = "main" /\ Whole \subseteq disk[t]
    \/ session = "main" /\ target[t] = "opencode"
          /\ (outcome[t] \in {"running", "crashed"} \/ t \in stuck)
    \/ session = "stage" /\ target[t] = "legacy" /\ outcome[t] \in {"running", "crashed"}

(* A transfer that fails leaves nothing of its own (docs/sessions.md:230,   *)
(* archive.go:249); one that succeeds leaves the session and, if it was     *)
(* compacted, its archive, and nothing staged.                              *)
AllOrNothing == \A t \in Transfers :
    /\ outcome[t] = "failed" /\ t \notin stuck => disk[t] = {}
    /\ outcome[t] = "ok" =>
          /\ Whole \subseteq disk[t] /\ (compacted[t] <=> "archive" \in disk[t])
          /\ disk[t] \cap {"stage", "main.tmp", "plan.tmp", "archive.tmp"} = {}

(* A session whose markers name an archive is never there before the        *)
(* archive is, whole, nor after it has been removed (archive.go:187,        *)
(* docs/sessions.md:362), whatever fails and whenever the process dies.     *)
(* One case is excepted: the write to OpenCode failed, its rollback did     *)
(* too, which rollbackOpenCode ignores (opencode.go:469), and Teleport has  *)
(* removed the archive all the same (manager.go:145).                       *)
ArchiveBeforeTarget == \A t \in Transfers :
    compacted[t] /\ disk[t] \cap Whole # {} =>
        "archive" \in disk[t] \/ (target[t] = "opencode" /\ t \in stuck)

(* Violated: the case ArchiveBeforeTarget excepts.  "A target never points  *)
(* at an archive that is not there" (docs/sessions.md:362).                 *)
ArchiveOutlivesSession == \A t \in Transfers :
    compacted[t] /\ disk[t] \cap Whole # {} => "archive" \in disk[t]

(* Violated: the case DiscoveredIsWhole excepts, of the old Kimi: its       *)
(* discovery lists the staged tree of a transfer that runs or died.         *)
StagedIsNeverListed == \A t \in Transfers : "stage" \notin Discovered(t)

(* Violated: two transfers read kimi.json before either writes it, or       *)
(* rename each other's draft, and one project is not listed (kimi.go:1684). *)
CommittedIsListed == \A t \in Transfers :
    target[t] = "legacy" /\ outcome[t] = "ok" => t \in listed
=============================================================================
