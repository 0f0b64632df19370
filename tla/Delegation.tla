----------------------------- MODULE Delegation -----------------------------
(***************************************************************************)
(* The delegated runs (branches) of a session: what each harness records   *)
(* of who spawned whom, how the readers recover the tree from it, and how  *)
(* the tree is written again when the session moves.  Stream 0 is the main *)
(* thread (an empty ParentID), stream b the run b.  Fresh native ids are a *)
(* renaming that remapDelegation applies to every reference a delegating   *)
(* result holds, so a run keeps its number here.                           *)
(***************************************************************************)
EXTENDS Naturals, FiniteSets, Sequences, SequencesExt, FiniteSetsExt

CONSTANTS
    Homes,      \* the harnesses that may record and receive the session
    CallIds,    \* tool call ids; scoped to the stream that makes the call
    MaxRuns,    \* bound: delegated runs
    MaxCalls,   \* bound: delegating calls
    MaxQuotes,  \* bound: results that name a run they did not start
    MaxHops     \* bound: moves

ASSUME DelegationAssumption ==
    /\ Homes \subseteq {"claude", "codex", "opencode", "kimi", "legacy"}
    /\ {MaxRuns, MaxCalls, MaxQuotes, MaxHops} \subseteq Nat
    /\ "none" \notin CallIds

VARIABLES
    home,     \* the harness that holds the session
    origin,   \* the harness that recorded it: its results name runs its way
    runs,     \* how many runs there are
    calls,    \* the delegating calls, in order: [stream, id, starts, swarm, says]
    side,     \* what is recorded beside run b: [parent, call, label]
    quotes,   \* how many results name a run they did not start
    first,    \* the tree the original was read as, once it is moved
    hops,     \* how often it was moved
    refused   \* a move was refused

vars == <<home, origin, runs, calls, side, quotes, first, hops, refused>>

Link == [parent : 0..MaxRuns, call : CallIds \cup {"none"}]
Loose(s) == [parent |-> s, call |-> "none"]
Names(i, b) == b \in calls[i].says
CallsOf(s) == {i \in DOMAIN calls : calls[i].stream = s}

-----------------------------------------------------------------------------
(* The readers.  Each yields the tree, a Link for every run it finds.       *)

(* The stream that owns a call id, if one does; a run recorded with a call  *)
(* and no parent belongs to it.                                             *)
Owners(c) == {s \in 0..runs : \E i \in CallsOf(s) : calls[i].id = c}
ByOwner(b, l) ==
    IF l.parent = 0 /\ Cardinality(Owners(l.call)) = 1 /\ b \notin Owners(l.call)
    THEN [l EXCEPT !.parent = CHOOSE s \in Owners(l.call) : TRUE]
    ELSE l

(* Any token of a delegating result may be a run's id; the run's own        *)
(* results do not link it, and two links link nothing.                      *)
TokenLinks(b) ==
    {[parent |-> calls[i].stream, call |-> calls[i].id] :
        i \in {j \in DOMAIN calls : Names(j, b) /\ calls[j].stream # b}}
AnyToken(b, l) ==  \* mutant: two claims are no ambiguity
    IF l.call = "none" /\ TokenLinks(b) # {} THEN CHOOSE t \in TokenLinks(b) : TRUE ELSE l
FromTokens(b, l) ==
    IF l.call = "none" /\ Cardinality(TokenLinks(b)) = 1
    THEN CHOOSE t \in TokenLinks(b) : TRUE
    ELSE l

(* The sidecar's call, else the one result that names the run; the parent   *)
(* is the call's owner unless agentswap wrote the sidecar.                  *)
ClaudeLink(b) ==
    LET saved  == [parent |-> side[b].parent, call |-> side[b].call]
        linked == ByOwner(b, FromTokens(b, saved))
    IN  IF hops > 0 THEN [linked EXCEPT !.parent = saved.parent] ELSE linked

(* A key (an agent id a result prints, or a swarm item) that one call       *)
(* claims belongs to it.  Only Kimi's own results print ids its way.        *)
IdClaims(b) == IF origin = "kimi" THEN {calls[i].id : i \in {j \in DOMAIN calls : Names(j, b)}} ELSE {}
ItemClaims(b) == {calls[i].id : i \in {j \in DOMAIN calls :
                    calls[j].swarm /\ side[b].label \in 1..Cardinality(calls[j].starts)}}
KimiLink(b) ==
    LET call == IF side[b].call = "none" /\ Cardinality(IdClaims(b)) = 1 THEN CHOOSE c \in IdClaims(b) : TRUE
                ELSE IF side[b].call = "none" /\ Cardinality(ItemClaims(b)) = 1
                     THEN CHOOSE c \in ItemClaims(b) : TRUE
                ELSE side[b].call
    IN  ByOwner(b, [parent |-> side[b].parent, call |-> call])

(* The last call of a stream whose result is read as naming the run.        *)
ReadsIds == origin \in {"codex", "legacy"}
LastNaming(s, b) == IF ReadsIds THEN {i \in CallsOf(s) : Names(i, b)} ELSE {}
Namers(b) == {s \in 0..runs : LastNaming(s, b) # {}}

(* meta.json names call and parent; without a call the last stream whose    *)
(* results name the run is its parent.                                      *)
LegacyLink(b) ==
    IF side[b].call # "none" \/ Namers(b) = {}
    THEN [parent |-> side[b].parent, call |-> side[b].call]
    ELSE LET s == Max(Namers(b))
         IN  [parent |-> IF s = 0 THEN side[b].parent ELSE s,
              call   |-> calls[Max(LastNaming(s, b))].id]

(* The parent thread's metadata and, in its log, the spawn event or else    *)
(* the last result that names the thread.                                   *)
CodexLink(b) ==
    LET s == side[b].parent
    IN  [parent |-> s,
         call   |-> IF side[b].call # "none" \/ LastNaming(s, b) = {} THEN side[b].call
                    ELSE calls[Max(LastNaming(s, b))].id]

(* Runs are found from the calls that name them (or from what agentswap     *)
(* recorded beside the session), a stream's runs in the order of their ids, *)
(* each with its own runs before the next; a run found under a stream that  *)
(* is not its declared parent fails the read.  What is left of the loops of *)
(* load that are open is one sequence, the innermost first.                 *)
FirstNaming(s, b) == Min({i \in CallsOf(s) : Names(i, b)})
Linked(s) ==
    IF hops > 0 THEN {b \in 1..runs : side[b].parent = s}
    ELSE {b \in 1..runs : \E i \in CallsOf(s) : Names(i, b)}
OpenCodeLink(s, b) ==
    [parent |-> s, call |-> IF hops > 0 THEN side[b].call ELSE calls[FirstNaming(s, b)].id]
DeclaresMain(b, s) == side[b].parent = 0  \* mutant: of every run the main thread is expected
Declares(b, s) == side[b].parent = s
Loop(s) == [b \in 1..runs |-> [under |-> s, run |-> b]]
Turn(f) ==
    LET s == Head(f.left).under
        b == Head(f.left).run
    IN  CASE b \notin Linked(s) \/ b \in DOMAIN f.tree -> [f EXCEPT !.left = Tail(@)]
          [] b \in Linked(s) \ DOMAIN f.tree /\ ~Declares(b, s) -> [f EXCEPT !.ok = FALSE, !.left = <<>>]
          [] OTHER -> [f EXCEPT !.tree = [c \in {b} \cup DOMAIN @ |-> IF c = b THEN OpenCodeLink(s, b) ELSE @[c]],
                                !.left = Loop(b) \o Tail(@)]
Turns == runs * (runs + 1)
Load[n \in 0..Turns] ==
    IF n = 0 THEN [ok |-> TRUE, tree |-> <<>>, left |-> Loop(0)]
    ELSE LET f == Load[n - 1] IN IF f.left = <<>> THEN f ELSE Turn(f)

Always(tree) == [ok |-> TRUE, tree |-> tree]
Tree ==
    CASE home = "claude"   -> Always([b \in 1..runs |-> ClaudeLink(b)])
      [] home = "kimi"     -> Always([b \in 1..runs |-> KimiLink(b)])
      [] home = "legacy"   -> Always([b \in 1..runs |-> LegacyLink(b)])
      [] home = "codex"    -> Always([b \in 1..runs |-> CodexLink(b)])
      [] home = "opencode" -> Load[Turns]

(* orderedBranches: no run has an unknown parent, and no runs are each      *)
(* other's ancestors.                                                       *)
Ordered(tree) ==
    /\ \A b \in DOMAIN tree : tree[b].parent \in {0} \cup DOMAIN tree
    /\ \A B \in SUBSET DOMAIN tree : B # {} => \E b \in B : tree[b].parent \notin B
Movable == Tree.ok /\ Ordered(Tree.tree)

-----------------------------------------------------------------------------
Init ==
    /\ home \in Homes /\ origin = home
    /\ runs = 0 /\ calls = <<>> /\ side = <<>>
    /\ quotes = 0 /\ first = <<>> /\ hops = 0 /\ refused = FALSE

Recording == hops = 0 /\ ~refused

(* Claude's call ids are unique in the session.                             *)
Fresh(s, c) == \A i \in DOMAIN calls : calls[i].id = c => home # "claude" /\ calls[i].stream # s

(* What a harness records beside a run that s starts with call c: Claude    *)
(* the call, Codex and Kimi the parent always and the call in an event or a *)
(* task, old Kimi both or neither, OpenCode the parent; a task is never     *)
(* written for a swarm member, which is known by its item.                  *)
Beside(s, c, noted, label) ==
    [parent |-> IF home \in {"codex", "kimi", "opencode"} \/ (home = "legacy" /\ noted) THEN s ELSE 0,
     call   |-> IF noted THEN c ELSE "none",
     label  |-> label]

(* A stream starts n runs with one call; its result, if it has one, names   *)
(* them.                                                                    *)
Delegate(s, c, n, noted, answered) ==
    /\ Recording /\ Len(calls) < MaxCalls /\ runs + n <= MaxRuns
    /\ Fresh(s, c)
    /\ noted => home # "opencode" /\ n = 1
    /\ n > 1 => home = "kimi"
    /\ LET new == (runs + 1)..(runs + n) IN
       /\ calls' = Append(calls, [stream |-> s, id |-> c, starts |-> new, swarm |-> n > 1,
                                  says |-> IF answered THEN new ELSE {}])
       /\ side' = side \o [i \in 1..n |-> Beside(s, c, noted, IF n > 1 THEN i ELSE 0)]
    /\ runs' = runs + n
    /\ UNCHANGED <<home, origin, quotes, first, hops, refused>>

(* A stream calls a run that exists again; all but Codex's result names it. *)
Resume(s, c, b) ==
    /\ Recording /\ Len(calls) < MaxCalls /\ b # s
    /\ home \in {"kimi", "legacy"} => \E i \in CallsOf(s) : b \in calls[i].starts
    /\ Fresh(s, c)
    /\ calls' = Append(calls, [stream |-> s, id |-> c, starts |-> {}, swarm |-> FALSE,
                               says |-> IF home = "codex" THEN {} ELSE {b}])
    /\ UNCHANGED <<home, origin, runs, side, quotes, first, hops, refused>>

(* The text of a result happens to hold the id of some run.                 *)
Quote(i, b) ==
    /\ Recording /\ home = "claude" /\ quotes < MaxQuotes
    /\ ~Names(i, b)
    /\ calls' = [calls EXCEPT ![i].says = @ \cup {b}]
    /\ quotes' = quotes + 1
    /\ UNCHANGED <<home, origin, runs, side, first, hops, refused>>

(* The sidecars every writer leaves: fresh ids, the parent's fresh id, the  *)
(* call.                                                                    *)
Unparented(tree) == [b \in DOMAIN tree |-> [parent |-> 0, call |-> tree[b].call, label |-> 0]]  \* mutant
Sidecars(tree) == [b \in DOMAIN tree |-> [parent |-> tree[b].parent, call |-> tree[b].call, label |-> 0]]

Agent(a) == IF a = "legacy" THEN "kimi" ELSE a
MayMove(a) == Agent(home) # Agent(a) \/ home = "codex"

(* A run the reader does not find is not written; the rest keep their order. *)
Move(a) ==
    /\ MayMove(a) /\ ~refused /\ hops < MaxHops /\ runs > 0
    /\ Movable /\ DOMAIN Tree.tree = 1..runs
    /\ home' = a
    /\ side' = Sidecars(Tree.tree)
    /\ first' = IF hops = 0 THEN Tree.tree ELSE first
    /\ hops' = hops + 1
    /\ UNCHANGED <<origin, runs, calls, quotes, refused>>

Refuse ==
    /\ ~refused /\ hops < MaxHops /\ ~Movable
    /\ refused' = TRUE
    /\ UNCHANGED <<home, origin, runs, calls, side, quotes, first, hops>>

Next ==
    \/ \E s \in 0..runs, c \in CallIds, n \in 1..2, noted, answered \in BOOLEAN :
          Delegate(s, c, n, noted, answered)
    \/ \E s \in 0..runs, c \in CallIds, b \in 1..runs : Resume(s, c, b)
    \/ \E i \in DOMAIN calls, b \in 1..runs : Quote(i, b)
    \/ \E a \in Homes : Move(a)
    \/ Refuse

Spec == Init /\ [][Next]_vars

-----------------------------------------------------------------------------
(* Properties *)

TypeOK ==
    /\ {home, origin} \subseteq Homes /\ runs \in 0..MaxRuns
    /\ DOMAIN side = 1..runs /\ Len(calls) <= MaxCalls
    /\ \A b \in DOMAIN first : first[b] \in Link

SpawnOf(b) == CHOOSE i \in DOMAIN calls : b \in calls[i].starts
Truth(b) == [parent |-> calls[SpawnOf(b)].stream, call |-> calls[SpawnOf(b)].id]
Told(b) == side[b].call # "none" \/ Names(SpawnOf(b), b)
AllTold(b) == \E A \in SUBSET (1..runs) :
    b \in A /\ \A a \in A : Told(a) /\ Truth(a).parent \in {0} \cup A

(* A run whose spawning call is recorded, in a sidecar or in its own        *)
(* result, is attached to that call or to none, whatever other results name *)
(* it (branches.go:218); old Kimi's last result that names it may be a      *)
(* later call of its spawner.                                               *)
AttachedWhereSpawned == hops = 0 =>
    \A b \in DOMAIN Tree.tree :
        Told(b) /\ Tree.tree[b].call # "none" =>
            /\ Tree.tree[b].parent = Truth(b).parent
            /\ \/ Tree.tree[b].call = Truth(b).call
               \/ home = "legacy" /\ \E i \in CallsOf(Truth(b).parent) :
                    Names(i, b) /\ calls[i].id = Tree.tree[b].call

(* A run that a stream not its parent called again.                         *)
Elsewhere(b) == \E i \in DOMAIN calls : Names(i, b) /\ calls[i].stream # Truth(b).parent

(* A session whose spawning calls are all recorded can be moved: the tree   *)
(* that is read is a tree (branches.go:27) and the harness's own parents    *)
(* agree (opencode_branches.go:76), unless an OpenCode run was called again *)
(* by another stream.  No such run is left behind: whatever else is in the  *)
(* session, the reader finds a run whose own and whose parents' spawning    *)
(* calls are recorded, before and after a move.                             *)
RecordedIsMovable ==
    /\ hops = 0 =>
          \/ Movable
          \/ \E b \in 1..runs : ~AllTold(b) \/ (home = "opencode" /\ Elsewhere(b))
    /\ Tree.ok => \A b \in 1..runs : AllTold(b) => b \in DOMAIN Tree.tree

(* Every move keeps every run, its parent and its call, in each target's    *)
(* own records (docs/sessions.md:187); a run without a call may find one.   *)
TreeSurvives == hops > 0 =>
    /\ Tree.ok /\ DOMAIN Tree.tree = DOMAIN first
    /\ \A b \in DOMAIN first :
          /\ Tree.tree[b].parent = first[b].parent
          /\ Tree.tree[b].call = first[b].call \/ first[b].call = "none"

(* Violated: a run whose spawning call has no result is attached to the     *)
(* other call whose result names it (docs/sessions.md:251).                 *)
NoGuessedLink == hops = 0 =>
    \A b \in DOMAIN Tree.tree :
        Tree.tree[b].call \in {"none", Truth(b).call}

(* Violated: two runs whose results name each other are each other's        *)
(* parents, and the session cannot be moved at all.                         *)
AlwaysMovable == ~refused
=============================================================================
