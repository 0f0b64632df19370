-------------------------- MODULE DelegationProofs --------------------------
(***************************************************************************)
(* Theorems about Delegation, for any number of runs, calls and moves: a   *)
(* run is attached where it was spawned, a session that records its        *)
(* spawning calls can be moved, and a move keeps the tree.                 *)
(***************************************************************************)
EXTENDS Delegation, TLAPS, FiniteSetTheorems, SequenceTheorems, WellFoundedInduction

-----------------------------------------------------------------------------
(* The invariant.                                                          *)

CallRecs == [stream : 0..runs, id : CallIds, starts : SUBSET (1..runs), swarm : BOOLEAN,
             says : SUBSET (1..runs)]
Sides == [parent : 0..runs, call : CallIds \cup {"none"}, label : Nat]
Links == [parent : 0..runs, call : CallIds \cup {"none"}]

Typed ==
    /\ home \in Homes /\ origin \in Homes
    /\ runs \in 0..MaxRuns /\ hops \in Nat /\ refused \in BOOLEAN
    /\ calls \in Seq(CallRecs) /\ Len(calls) <= MaxCalls
    /\ side \in [1..runs -> Sides]
    /\ hops = 0 => home = origin /\ first = <<>>
    /\ hops > 0 => first \in [1..runs -> Links]

\* One call starts a run, of a stream that was there before it.
Spawned ==
    /\ \A b \in 1..runs : \E i \in DOMAIN calls : b \in calls[i].starts
    /\ \A i, j \in DOMAIN calls : \A b \in calls[i].starts : b \in calls[j].starts => i = j
    /\ \A i \in DOMAIN calls : \A b \in calls[i].starts : calls[i].stream < b

\* A stream makes one call under an id, and in Claude's session no other does.
Numbered == \A i, j \in DOMAIN calls :
    calls[i].id = calls[j].id /\ (origin = "claude" \/ calls[i].stream = calls[j].stream) => i = j

\* Only Claude's results name a run before it is spawned, and only Claude's
\* and OpenCode's those of another stream than its spawner; Codex names a run once.
Naming == \A i, j \in DOMAIN calls : \A b \in calls[i].says : b \in calls[j].starts =>
    /\ origin # "claude" => j <= i
    /\ origin \in {"kimi", "legacy"} => calls[i].stream = calls[j].stream
    /\ origin = "codex" => i = j

\* What the harness recorded beside a run is true of the call that started it.
RecordedBeside(b, i) ==
    /\ side[b].call \in {"none", calls[i].id}
    /\ side[b].parent \in {0, calls[i].stream}
    /\ home \in {"codex", "kimi", "opencode"} => side[b].parent = calls[i].stream
    /\ home = "claude" => side[b].parent = 0
    /\ home = "legacy" /\ side[b].call # "none" => side[b].parent = calls[i].stream
    /\ home = "opencode" => side[b].call = "none"
    /\ side[b].label = 0 \/ (calls[i].swarm /\ side[b].label <= Cardinality(calls[i].starts))
Recorded == hops = 0 =>
    \A i \in DOMAIN calls : \A b \in calls[i].starts : RecordedBeside(b, i)

\* A link names a call of the parent; a run without one is named by no
\* call of another stream, or in Claude's session by none or by several.
Owned(l) == l.call # "none" => \E i \in CallsOf(l.parent) : calls[i].id = l.call
Silent(b, l) == l.call = "none" =>
    IF origin = "claude" THEN Cardinality(TokenLinks(b)) # 1
    ELSE \A i \in DOMAIN calls : Names(i, b) => calls[i].stream = l.parent

\* What a move left beside a run is its link in the tree that was first read.
Carried == hops > 0 =>
    /\ Ordered(first)
    /\ \A b \in 1..runs :
          /\ side[b].parent = first[b].parent
          /\ side[b].call = first[b].call \/ first[b].call = "none"
          /\ side[b].label = 0
          /\ Owned(side[b]) /\ Silent(b, side[b])

IInv == Typed /\ Spawned /\ Numbered /\ Naming /\ Recorded /\ Carried

-----------------------------------------------------------------------------
(* Numbers, and sets of one member.                                        *)


\* A set of naturals has a least member.
LEMMA LeastNumber ==
    ASSUME NEW S \in SUBSET Nat, S # {}
    PROVE  \E low \in S : \A n \in S : low <= n
<1>1. PICK low \in S : \A n \in S : <<n, low>> \notin OpToRel(<, Nat)
  BY NatLessThanWellFounded, WFMin
<1>2. \A n \in S : ~(n < low)
  BY <1>1 DEF OpToRel
<1> QED BY <1>2

\* What holds at the start of a range and from each number to the next holds
\* throughout: else there were a first number where it does not.
LEMMA Stepwise ==
    ASSUME NEW N \in Nat, NEW T, 0 \in T, \A n \in 0..(N - 1) : n \in T => n + 1 \in T
    PROVE  \A n \in 0..N : n \in T
<1> DEFINE S == {n \in 0..N : n \notin T}
<1> SUFFICES ASSUME S # {} PROVE FALSE
  OBVIOUS
<1>1. PICK low \in S : \A n \in S : low <= n
  <2> S \subseteq Nat
    OBVIOUS
  <2> HIDE DEF S
  <2> QED BY LeastNumber
<1>2. low # 0 /\ low \in 0..N
  OBVIOUS
<1>3. low - 1 \in 0..(N - 1) /\ low - 1 \notin S
  BY <1>1, <1>2
<1>4. (low - 1) + 1 \in T
  BY <1>3
<1> QED BY <1>1, <1>2, <1>4

\* The largest of a bounded set of naturals is one of them.
LEMMA MaxIsMember ==
    ASSUME NEW S \in SUBSET Nat, S # {}, NEW N \in Nat, \A n \in S : n <= N
    PROVE  Max(S) \in S /\ \A n \in S : n <= Max(S)
<1> DEFINE B == {u \in Nat : \A n \in S : n <= u}
<1>1. N \in B
  OBVIOUS
<1>2. PICK top \in B : \A u \in B : top <= u
  <2> B \subseteq Nat /\ B # {}
    BY <1>1
  <2> HIDE DEF B
  <2> QED BY LeastNumber
<1>3. top \in S
  <2> SUFFICES ASSUME top \notin S PROVE FALSE
    OBVIOUS
  <2>1. \A n \in S : n < top
    OBVIOUS
  <2>2. PICK x \in S : x < top
    BY <2>1
  <2>3. top - 1 \in Nat /\ \A n \in S : n <= top - 1
    BY <2>1, <2>2
  <2> QED BY <1>2, <2>3
<1>4. \A n \in S : top >= n
  OBVIOUS
<1> QED BY <1>3, <1>4 DEF Max


\* The least of a set of naturals is one of them.
LEMMA MinIsMember ==
    ASSUME NEW S \in SUBSET Nat, S # {}
    PROVE  Min(S) \in S /\ \A n \in S : Min(S) <= n
<1>1. \E low \in S : \A n \in S : low <= n
  BY LeastNumber
<1> QED BY <1>1 DEF Min

\* A set of one member is that of any member it has.
LEMMA OneMember ==
    ASSUME NEW S, NEW x \in S, IsFiniteSet(S), Cardinality(S) = 1
    PROVE  S = {x} /\ (CHOOSE t \in S : TRUE) = x
<1>1. IsFiniteSet(S \ {x}) /\ Cardinality(S \ {x}) = 0
  BY FS_RemoveElement
<1>2. S \ {x} = {}
  BY <1>1, FS_EmptySet
<1>3. S = {x}
  BY <1>2
<1> QED BY <1>3

\* What is made of each of the calls is finite.
LEMMA FiniteOfCalls ==
    ASSUME Typed, NEW J \in SUBSET DOMAIN calls, NEW f, f = [i \in J |-> f[i]]
    PROVE  IsFiniteSet({f[i] : i \in J})
<1>1. DOMAIN calls = 1..Len(calls) /\ Len(calls) \in Nat
  BY DEF Typed
<1>2. IsFiniteSet(J)
  <2>1. \A n \in Nat : IsFiniteSet(1..n)
    BY FS_Interval
  <2>2. IsFiniteSet(1..Len(calls))
    BY <1>1, <2>1
  <2> QED BY <1>1, <2>2, FS_Subset
<1>3. PICK T : T = {f[i] : i \in J}
  OBVIOUS
<1>4. f \in Surjection(J, T)
  <2>1. \A i \in J : f[i] \in T
    BY <1>3
  <2>2. f \in [J -> T]
    BY <2>1
  <2>3. \A t \in T : \E i \in J : f[i] = t
    BY <1>3
  <2> QED BY <2>2, <2>3 DEF Surjection
<1> QED BY <1>2, <1>3, <1>4, FS_Surjection

-----------------------------------------------------------------------------
(* Calls and their owners.                                                 *)

\* What a recorded call consists of.
LEMMA CallIs ==
    ASSUME Typed, NEW i \in DOMAIN calls
    PROVE  /\ calls[i] \in CallRecs /\ i \in Nat \ {0}
           /\ calls[i].stream \in 0..runs /\ calls[i].id \in CallIds /\ calls[i].id # "none"
           /\ calls[i].starts \in SUBSET (1..runs) /\ calls[i].says \in SUBSET (1..runs)
<1>1. calls \in Seq(CallRecs)
  BY DEF Typed
<1>2. calls[i] \in CallRecs /\ i \in Nat \ {0}
  <2> HIDE DEF CallRecs
  <2> QED BY <1>1
<1> QED BY <1>2, DelegationAssumption DEF CallRecs

\* The call that started a run.
LEMMA SpawnIs ==
    ASSUME Spawned, NEW i \in DOMAIN calls, NEW b \in calls[i].starts
    PROVE  SpawnOf(b) = i /\ Truth(b) = [parent |-> calls[i].stream, call |-> calls[i].id]
<1>1. \A j \in DOMAIN calls : b \in calls[j].starts => j = i
  BY DEF Spawned
<1>2. SpawnOf(b) = i
  BY <1>1 DEF SpawnOf
<1> QED BY <1>2 DEF Truth

\* No stream owns the call that a run has not.
LEMMA NoneIsUnowned ==
    ASSUME Typed, NEW b, NEW l, l.call = "none"
    PROVE  ByOwner(b, l) = l
<1>1. Owners("none") = {}
  BY CallIs DEF Owners, CallsOf
<1>2. Cardinality(Owners(l.call)) = 0
  BY <1>1, FS_EmptySet
<1> QED BY <1>2 DEF ByOwner

\* Finitely many streams own a call id.
LEMMA OwnersAreFinite ==
    ASSUME Typed, NEW c
    PROVE  IsFiniteSet(Owners(c))
<1>1. IsFiniteSet(0..runs)
  BY FS_Interval DEF Typed
<1> QED BY <1>1, FS_Subset DEF Owners

\* A link to a call of its parent keeps its parent.
LEMMA OwnerIsKept ==
    ASSUME Typed, NEW b, NEW l \in Links, Owned(l)
    PROVE  ByOwner(b, l) = l
<1>1. CASE l.call = "none"
  BY <1>1, NoneIsUnowned
<1>2. CASE l.call # "none" /\ l.parent = 0 /\ Cardinality(Owners(l.call)) = 1
  <2>1. 0 \in Owners(l.call)
    BY <1>2 DEF Owned, Owners, Typed
  <2>2. (CHOOSE s \in Owners(l.call) : TRUE) = 0
    BY <1>2, <2>1, OwnersAreFinite, OneMember
  <2>3. [l EXCEPT !.parent = 0] = l
    BY <1>2 DEF Links
  <2> QED BY <2>2, <2>3 DEF ByOwner
<1>3. CASE ~(l.parent = 0 /\ Cardinality(Owners(l.call)) = 1)
  BY <1>3 DEF ByOwner
<1> QED BY <1>1, <1>2, <1>3

-----------------------------------------------------------------------------
(* The readers, harness by harness.  What is recorded beside a run is made  *)
(* good by what the results of calls say of it; a link that is recorded is  *)
(* never changed.                                                           *)

\* The link is to a call of its parent, and it has the recorded call if there is one.
Found(b, l) ==
    /\ l \in Links /\ Owned(l)
    /\ side[b].call # "none" => l.call = side[b].call

\* Kimi finds a call in the stream it has for parent.
LEMMA KimiReads ==
    ASSUME Typed, NEW b \in 1..runs, Owned(side[b]),
           side[b].call = "none" => \A i \in DOMAIN calls : origin = "kimi" /\ Names(i, b) =>
                                        calls[i].stream = side[b].parent,
           NEW t \in DOMAIN calls, side[b].label # 0 =>
               calls[t].stream = side[b].parent /\ calls[t].swarm
               /\ side[b].label <= Cardinality(calls[t].starts)
    PROVE  /\ Found(b, KimiLink(b)) /\ KimiLink(b).parent = side[b].parent
           /\ KimiLink(b).call = "none" => side[b].call = "none"
           /\ side[b].call = "none" /\ KimiLink(b).call # "none" =>
                \/ IsFiniteSet(IdClaims(b)) /\ IdClaims(b) = {KimiLink(b).call}
                \/ side[b].label # 0 /\ KimiLink(b).call = calls[t].id
<1> DEFINE s == side[b].parent
           ids == {j \in DOMAIN calls : Names(j, b)}
           items == {j \in DOMAIN calls : calls[j].swarm /\ side[b].label \in 1..Cardinality(calls[j].starts)}
           byId == side[b].call = "none" /\ Cardinality(IdClaims(b)) = 1
           byItem == side[b].call = "none" /\ Cardinality(ItemClaims(b)) = 1
           c == IF byId THEN CHOOSE x \in IdClaims(b) : TRUE
                ELSE IF byItem THEN CHOOSE x \in ItemClaims(b) : TRUE
                ELSE side[b].call
           l == [parent |-> s, call |-> c]
<1>1. side[b] \in Sides
  BY DEF Typed
<1>2. IsFiniteSet(IdClaims(b)) /\ IsFiniteSet(ItemClaims(b))
  <2> DEFINE f == [i \in ids |-> calls[i].id]
             g == [i \in items |-> calls[i].id]
  <2>1. IsFiniteSet({f[i] : i \in ids})
    <3>1. ids \in SUBSET DOMAIN calls /\ f = [i \in ids |-> f[i]]
      OBVIOUS
    <3> HIDE DEF f, ids
    <3> QED BY <3>1, FiniteOfCalls
  <2>2. IsFiniteSet({g[i] : i \in items})
    <3>1. items \in SUBSET DOMAIN calls /\ g = [i \in items |-> g[i]]
      OBVIOUS
    <3> HIDE DEF g, items
    <3> QED BY <3>1, FiniteOfCalls
  <2>3. {f[i] : i \in ids} = {calls[i].id : i \in ids} /\ {g[i] : i \in items} = {calls[i].id : i \in items}
    OBVIOUS
  <2> QED BY <2>1, <2>2, <2>3, FS_EmptySet DEF IdClaims, ItemClaims
<1>3. CASE byId
  <2>1. PICK x \in IdClaims(b) : TRUE
    <3>1. IdClaims(b) # {}
      BY <1>3, FS_EmptySet
    <3> QED BY <3>1
  <2>2. IdClaims(b) = {x} /\ c = x
    BY <1>2, <1>3, <2>1, OneMember
  <2>3. PICK i \in DOMAIN calls : Names(i, b) /\ calls[i].id = x /\ origin = "kimi"
    BY <2>1 DEF IdClaims
  <2>4. calls[i].stream = s
    BY <1>3, <2>3
  <2>5. x \in CallIds /\ x # "none" /\ s \in 0..runs
    BY <1>1, <2>3, CallIs DEF Sides
  <2>6. l \in Links /\ Owned(l)
    BY <2>2, <2>3, <2>4, <2>5 DEF Links, Owned, CallsOf
  <2>7. KimiLink(b) = ByOwner(b, l)
    BY DEF KimiLink
  <2>8. KimiLink(b) = l
    <3> HIDE DEF l
    <3> QED BY <2>6, <2>7, OwnerIsKept
  <2>9. l.call = x /\ l.parent = s
    BY <2>2
  <2> HIDE DEF l
  <2> QED BY <1>2, <1>3, <2>2, <2>5, <2>6, <2>8, <2>9 DEF Found
<1>4. CASE ~byId /\ byItem
  <2>1. PICK x \in ItemClaims(b) : TRUE
    <3>1. ItemClaims(b) # {}
      BY <1>4, FS_EmptySet
    <3> QED BY <3>1
  <2>2. ItemClaims(b) = {x} /\ c = x
    BY <1>2, <1>4, <2>1, OneMember
  <2>3. side[b].label # 0 /\ side[b].label \in Nat
    BY <1>1, <2>1 DEF ItemClaims, Sides
  <2>4. calls[t].id \in ItemClaims(b) /\ calls[t].stream = s
    <3>1. side[b].label <= Cardinality(calls[t].starts) /\ calls[t].swarm
      BY <2>3
    <3>2. Cardinality(calls[t].starts) \in Nat
      <4>1. IsFiniteSet(1..runs)
        BY FS_Interval DEF Typed
      <4>2. calls[t].starts \subseteq 1..runs
        BY CallIs
      <4> QED BY <4>1, <4>2, FS_Subset, FS_CardinalityType
    <3>3. side[b].label \in 1..Cardinality(calls[t].starts)
      BY <2>3, <3>1, <3>2
    <3> QED BY <2>3, <3>1, <3>3 DEF ItemClaims
  <2>5. x = calls[t].id
    BY <2>2, <2>4
  <2>6. x \in CallIds /\ x # "none" /\ s \in 0..runs
    BY <1>1, <2>5, CallIs DEF Sides
  <2>7. l \in Links /\ Owned(l)
    BY <2>2, <2>4, <2>5, <2>6 DEF Links, Owned, CallsOf
  <2>8. KimiLink(b) = ByOwner(b, l)
    BY DEF KimiLink
  <2>9. KimiLink(b) = l
    <3> HIDE DEF l
    <3> QED BY <2>7, <2>8, OwnerIsKept
  <2>10. l.call = x /\ l.parent = s
    BY <2>2
  <2> HIDE DEF l
  <2> QED BY <1>4, <2>3, <2>5, <2>6, <2>7, <2>9, <2>10 DEF Found
<1>5. CASE ~byId /\ ~byItem
  <2>1. c = side[b].call
    BY <1>5
  <2>2. l \in Links /\ l.parent = s /\ l.call = side[b].call
    BY <1>1, <2>1 DEF Links, Sides
  <2>3. KimiLink(b) = ByOwner(b, l)
    BY DEF KimiLink
  <2> HIDE DEF l
  <2>4. Owned(l)
    BY <2>2 DEF Owned
  <2>5. KimiLink(b) = l
    BY <2>2, <2>3, <2>4, OwnerIsKept
  <2> QED BY <2>2, <2>4, <2>5 DEF Found
<1> QED BY <1>3, <1>4, <1>5

\* The last of a stream's calls that name the run, where results are read for ids.
LEMMA LastNames ==
    ASSUME Typed, NEW s, NEW b, LastNaming(s, b) # {}
    PROVE  /\ ReadsIds /\ Max(LastNaming(s, b)) \in CallsOf(s)
           /\ Names(Max(LastNaming(s, b)), b)
<1>1. ReadsIds /\ LastNaming(s, b) = {i \in CallsOf(s) : Names(i, b)}
  BY DEF LastNaming
<1>2. \A i \in LastNaming(s, b) : i \in Nat /\ i <= Len(calls)
  BY <1>1 DEF Typed, CallsOf
<1>3. LastNaming(s, b) \in SUBSET Nat /\ Len(calls) \in Nat
  BY <1>2 DEF Typed
<1>4. Max(LastNaming(s, b)) \in LastNaming(s, b)
  BY <1>2, <1>3, MaxIsMember
<1> QED BY <1>1, <1>4

\* Old Kimi finds a call in the stream p whose results alone name the run.
LEMMA LegacyReads ==
    ASSUME Typed, NEW b \in 1..runs, NEW p \in 0..runs, side[b].parent \in {0, p}, Owned(side[b]),
           side[b].call = "none" => \A i \in DOMAIN calls : ReadsIds /\ Names(i, b) =>
                                        calls[i].stream = p
    PROVE  /\ Found(b, LegacyLink(b)) /\ LegacyLink(b).parent \in {side[b].parent, p}
           /\ side[b].call = "none" /\ LegacyLink(b).call # "none" =>
                /\ LegacyLink(b).parent = p
                /\ \E i \in CallsOf(p) : Names(i, b) /\ calls[i].id = LegacyLink(b).call
           /\ LegacyLink(b).call = "none" =>
                LegacyLink(b).parent = side[b].parent /\ LastNaming(p, b) = {}
<1> DEFINE s == Max(Namers(b))
           i == Max(LastNaming(s, b))
<1>1. side[b] \in Sides
  BY DEF Typed
<1>2. CASE side[b].call # "none" \/ Namers(b) = {}
  <2>1. LegacyLink(b) = [parent |-> side[b].parent, call |-> side[b].call]
    BY <1>2 DEF LegacyLink
  <2>2. LegacyLink(b) \in Links /\ Owned(LegacyLink(b))
    BY <1>1, <2>1 DEF Links, Sides, Owned
  <2>3. side[b].call = "none" => LastNaming(p, b) = {}
    BY <1>2 DEF Namers
  <2> QED BY <2>1, <2>2, <2>3 DEF Found
<1>3. CASE side[b].call = "none" /\ Namers(b) # {}
  <2>1. \A n \in Namers(b) : n = p
    <3> SUFFICES ASSUME NEW n \in Namers(b) PROVE n = p
      OBVIOUS
    <3>1. LastNaming(n, b) # {}
      BY DEF Namers
    <3>2. PICK j \in DOMAIN calls : j \in CallsOf(n) /\ Names(j, b) /\ ReadsIds
      BY <3>1, LastNames DEF CallsOf
    <3> QED BY <1>3, <3>2 DEF CallsOf
  <2>2. Namers(b) = {p}
    BY <1>3, <2>1
  <2>3. s = p
    <3>1. {p} \in SUBSET Nat /\ p \in {p} /\ \A n \in {p} : n <= p
      BY DEF Typed
    <3>2. Max({p}) = p
      BY <3>1 DEF Max
    <3> QED BY <2>2, <3>2
  <2>4. LastNaming(s, b) # {}
    BY <2>2, <2>3 DEF Namers
  <2>5. i \in CallsOf(p) /\ Names(i, b)
    BY <2>3, <2>4, LastNames
  <2>6. i \in DOMAIN calls /\ calls[i].stream = p
    BY <2>5 DEF CallsOf
  <2>7. LegacyLink(b) = [parent |-> IF s = 0 THEN side[b].parent ELSE s, call |-> calls[i].id]
    BY <1>3 DEF LegacyLink
  <2> HIDE DEF i, s
  <2>8. LegacyLink(b) = [parent |-> p, call |-> calls[i].id]
    BY <2>3, <2>7
  <2>9. LegacyLink(b) \in Links /\ calls[i].id # "none"
    BY <2>6, <2>8, CallIs DEF Links
  <2>10. Owned(LegacyLink(b))
    BY <2>5, <2>8 DEF Owned
  <2> QED BY <1>3, <2>5, <2>8, <2>9, <2>10 DEF Found
<1> QED BY <1>2, <1>3

\* Codex finds a call in the thread it has for parent.
LEMMA CodexReads ==
    ASSUME Typed, NEW b \in 1..runs, Owned(side[b])
    PROVE  /\ Found(b, CodexLink(b)) /\ CodexLink(b).parent = side[b].parent
           /\ side[b].call = "none" /\ CodexLink(b).call # "none" =>
                \E i \in CallsOf(side[b].parent) : Names(i, b) /\ calls[i].id = CodexLink(b).call
           /\ CodexLink(b).call = "none" => side[b].call = "none"
<1> DEFINE s == side[b].parent
           i == Max(LastNaming(s, b))
<1>1. side[b] \in Sides
  BY DEF Typed
<1>2. CASE side[b].call # "none" \/ LastNaming(s, b) = {}
  <2>1. CodexLink(b) = [parent |-> s, call |-> side[b].call]
    BY <1>2 DEF CodexLink
  <2> QED BY <1>1, <2>1 DEF Links, Sides, Owned, Found
<1>3. CASE side[b].call = "none" /\ LastNaming(s, b) # {}
  <2>1. CodexLink(b) = [parent |-> s, call |-> calls[i].id]
    BY <1>3 DEF CodexLink
  <2>2. i \in CallsOf(s) /\ Names(i, b) /\ i \in DOMAIN calls
    BY <1>3, LastNames DEF CallsOf
  <2> HIDE DEF i
  <2>3. CodexLink(b) \in Links
    BY <1>1, <2>1, <2>2, CallIs DEF Links, Sides
  <2> QED BY <1>3, <2>1, <2>2, <2>3 DEF Found, Owned
<1> QED BY <1>2, <1>3

\* The links that tokens give are finitely many, each to a call that names the run.
LEMMA TokensAreLinks ==
    ASSUME Typed, NEW b
    PROVE  /\ IsFiniteSet(TokenLinks(b))
           /\ \A t \in TokenLinks(b) : \E i \in DOMAIN calls :
                /\ Names(i, b) /\ calls[i].stream # b
                /\ t = [parent |-> calls[i].stream, call |-> calls[i].id]
<1> DEFINE J == {j \in DOMAIN calls : Names(j, b) /\ calls[j].stream # b}
           f == [i \in J |-> [parent |-> calls[i].stream, call |-> calls[i].id]]
<1>1. IsFiniteSet({f[i] : i \in J})
  <2>1. J \in SUBSET DOMAIN calls /\ f = [i \in J |-> f[i]]
    OBVIOUS
  <2> HIDE DEF f, J
  <2> QED BY <2>1, FiniteOfCalls
<1>2. TokenLinks(b) = {f[i] : i \in J}
  BY DEF TokenLinks
<1> HIDE DEF f
<1>3. \A t \in TokenLinks(b) : \E i \in J : t = f[i]
  BY <1>2
<1>4. \A i \in J : f[i] = [parent |-> calls[i].stream, call |-> calls[i].id]
  BY DEF f
<1> QED BY <1>1, <1>2, <1>3, <1>4

\* In Claude's own session an id has one owner.
LEMMA OwnerIsFound ==
    ASSUME Typed, Numbered, origin = "claude", NEW b, NEW i \in DOMAIN calls, calls[i].stream # b,
           NEW l, l.parent \in {0, calls[i].stream}, l = [parent |-> l.parent, call |-> calls[i].id]
    PROVE  /\ ByOwner(b, l) = [parent |-> calls[i].stream, call |-> calls[i].id]
           /\ ByOwner(b, l) \in Links /\ Owned(ByOwner(b, l))
<1>1. Owners(calls[i].id) = {calls[i].stream}
  <2>1. \A j \in DOMAIN calls : calls[j].id = calls[i].id => j = i
    BY DEF Numbered
  <2> QED BY <2>1, CallIs DEF Owners, CallsOf
<1>2. Cardinality(Owners(calls[i].id)) = 1 /\ (CHOOSE s \in Owners(calls[i].id) : TRUE) = calls[i].stream
  BY <1>1, FS_Singleton
<1>3. l.call = calls[i].id /\ b \notin Owners(calls[i].id)
  BY <1>1
<1>4. CASE l.parent = 0
  <2>1. ByOwner(b, l) = [l EXCEPT !.parent = calls[i].stream]
    BY <1>2, <1>3, <1>4 DEF ByOwner
  <2> QED BY <2>1, CallIs DEF Links, Owned, CallsOf
<1>5. CASE l.parent # 0
  <2>1. ByOwner(b, l) = l /\ l.parent = calls[i].stream
    BY <1>5 DEF ByOwner
  <2> QED BY <2>1, CallIs DEF Links, Owned, CallsOf
<1> QED BY <1>4, <1>5

\* Claude finds the call that started the run, one whose result alone names it, or none.
LEMMA ClaudeReads ==
    ASSUME Typed, Spawned, Numbered, hops = 0, home = "claude", origin = "claude",
           NEW t \in DOMAIN calls, NEW b \in calls[t].starts, RecordedBeside(b, t)
    PROVE  /\ Found(b, ClaudeLink(b))
           /\ ClaudeLink(b).call = "none" =>
                /\ side[b].call = "none" /\ ClaudeLink(b).parent = 0
                /\ Cardinality(TokenLinks(b)) # 1
           /\ ClaudeLink(b).call # "none" /\ (side[b].call # "none" \/ Names(t, b)) =>
                ClaudeLink(b) = [parent |-> calls[t].stream, call |-> calls[t].id]
<1> DEFINE saved == [parent |-> side[b].parent, call |-> side[b].call]
<1>1. b \in 1..runs /\ side[b] \in Sides /\ side[b].parent = 0 /\ side[b].call \in {"none", calls[t].id}
  BY CallIs DEF Typed, RecordedBeside
<1>2. calls[t].stream # b
  BY <1>1, CallIs DEF Spawned
<1>3. ClaudeLink(b) = ByOwner(b, FromTokens(b, saved))
  BY DEF ClaudeLink
<1>4. CASE side[b].call # "none"
  <2>1. FromTokens(b, saved) = saved
    BY <1>4 DEF FromTokens
  <2>2. saved.parent \in {0, calls[t].stream} /\ saved = [parent |-> saved.parent, call |-> calls[t].id]
    BY <1>1, <1>4
  <2> HIDE DEF saved
  <2>3. /\ ByOwner(b, saved) = [parent |-> calls[t].stream, call |-> calls[t].id]
        /\ ByOwner(b, saved) \in Links /\ Owned(ByOwner(b, saved))
    BY <1>2, <2>2, OwnerIsFound
  <2>4. ClaudeLink(b) = [parent |-> calls[t].stream, call |-> calls[t].id]
    BY <1>3, <2>1, <2>3
  <2>5. ClaudeLink(b).call = calls[t].id /\ calls[t].id # "none"
    BY <2>4, CallIs
  <2> QED BY <1>1, <1>3, <1>4, <2>1, <2>3, <2>4, <2>5 DEF Found
<1>5. CASE side[b].call = "none" /\ Cardinality(TokenLinks(b)) = 1
  <2> DEFINE x == CHOOSE y \in TokenLinks(b) : TRUE
  <2>1. TokenLinks(b) # {}
    BY <1>5, FS_EmptySet
  <2>2. x \in TokenLinks(b)
    BY <2>1
  <2>3. TokenLinks(b) = {x}
    <3> HIDE DEF x
    <3> QED BY <1>5, <2>2, OneMember, TokensAreLinks
  <2>4. FromTokens(b, saved) = x
    BY <1>5 DEF FromTokens
  <2> HIDE DEF x
  <2>5. PICK i \in DOMAIN calls : calls[i].stream # b /\ x = [parent |-> calls[i].stream, call |-> calls[i].id]
    BY <2>2, TokensAreLinks
  <2>6. x.parent \in {0, calls[i].stream} /\ x = [parent |-> x.parent, call |-> calls[i].id]
    BY <2>5
  <2>7. /\ ByOwner(b, x) = [parent |-> calls[i].stream, call |-> calls[i].id]
        /\ ByOwner(b, x) \in Links /\ Owned(ByOwner(b, x))
    BY <2>5, <2>6, OwnerIsFound
  <2>8. ClaudeLink(b) = x /\ ClaudeLink(b).call = calls[i].id /\ calls[i].id # "none"
    BY <1>3, <2>4, <2>5, <2>7, CallIs
  <2>9. Names(t, b) => [parent |-> calls[t].stream, call |-> calls[t].id] \in TokenLinks(b)
    BY <1>2 DEF TokenLinks
  <2>10. Names(t, b) => x = [parent |-> calls[t].stream, call |-> calls[t].id]
    BY <2>3, <2>9
  <2> QED BY <1>3, <1>5, <2>4, <2>7, <2>8, <2>10 DEF Found
<1>6. CASE side[b].call = "none" /\ Cardinality(TokenLinks(b)) # 1
  <2>1. FromTokens(b, saved) = saved
    BY <1>6 DEF FromTokens
  <2>2. ByOwner(b, saved) = saved
    <3>1. saved.call = "none"
      BY <1>6
    <3> HIDE DEF saved
    <3> QED BY <3>1, NoneIsUnowned
  <2>3. ClaudeLink(b) = saved
    BY <1>3, <2>1, <2>2
  <2>4. ClaudeLink(b).parent = 0 /\ ClaudeLink(b).call = "none" /\ ClaudeLink(b) \in Links
    BY <1>1, <1>6, <2>3 DEF Links, Sides
  <2> QED BY <1>6, <2>4 DEF Found, Owned
<1> QED BY <1>4, <1>5, <1>6

\* After a move Claude has the parent that is recorded, and a call of it.
LEMMA ClaudeReadsMoved ==
    ASSUME Typed, hops > 0, NEW b \in 1..runs, Owned(side[b]), Silent(b, side[b])
    PROVE  /\ Found(b, ClaudeLink(b)) /\ ClaudeLink(b).parent = side[b].parent
           /\ ClaudeLink(b).call = "none" => side[b].call = "none"
<1> DEFINE saved == [parent |-> side[b].parent, call |-> side[b].call]
           linked == ByOwner(b, FromTokens(b, saved))
<1>1. side[b] \in Sides
  BY DEF Typed
<1>2. ClaudeLink(b) = [linked EXCEPT !.parent = side[b].parent]
  BY DEF ClaudeLink
<1>3. CASE side[b].call # "none" \/ Cardinality(TokenLinks(b)) # 1
  <2>1. FromTokens(b, saved) = saved
    BY <1>3 DEF FromTokens
  <2>2. saved \in Links /\ Owned(saved)
    BY <1>1 DEF Links, Sides, Owned
  <2>3. linked = saved
    <3> HIDE DEF saved
    <3> QED BY <2>1, <2>2, OwnerIsKept
  <2>4. ClaudeLink(b) = saved
    <3> HIDE DEF linked
    <3> QED BY <1>2, <2>3
  <2> QED BY <2>2, <2>4 DEF Found
<1>4. CASE side[b].call = "none" /\ Cardinality(TokenLinks(b)) = 1
  <2> DEFINE x == CHOOSE y \in TokenLinks(b) : TRUE
  <2>1. TokenLinks(b) # {}
    BY <1>4, FS_EmptySet
  <2>2. x \in TokenLinks(b)
    BY <2>1
  <2>3. FromTokens(b, saved) = x
    BY <1>4 DEF FromTokens
  <2> HIDE DEF x
  <2>4. PICK i \in DOMAIN calls : Names(i, b) /\ x = [parent |-> calls[i].stream, call |-> calls[i].id]
    BY <2>2, TokensAreLinks
  <2>5. calls[i].stream = side[b].parent
    BY <1>4, <2>4 DEF Silent
  <2>6. x \in Links /\ Owned(x) /\ x.parent = side[b].parent /\ x.call # "none"
    BY <2>4, <2>5, CallIs DEF Links, Owned, CallsOf
  <2>7. linked = x
    BY <2>3, <2>6, OwnerIsKept
  <2>8. ClaudeLink(b) = x
    <3> HIDE DEF linked
    <3> QED BY <1>2, <2>6, <2>7 DEF Links
  <2> QED BY <1>4, <2>6, <2>8 DEF Found
<1> QED BY <1>3, <1>4

-----------------------------------------------------------------------------
(* OpenCode's search.  It finds every run that a stream it has found links,  *)
(* and it ends: a turn takes a member of the open loops away, and only a     *)
(* run found, at most once each, adds one loop over the runs.                *)

Start == [ok |-> TRUE, tree |-> <<>>, left |-> Loop(0)]
After(f) == IF f.left = <<>> THEN f ELSE Turn(f)

\* The recursive definition has a solution, by its turns.
LEMMA LoadTurns ==
    ASSUME Typed
    PROVE  /\ Turns \in Nat /\ Load[0] = Start
           /\ \A n \in 1..Turns : Load[n] = After(Load[n - 1])
<1> DEFINE Goes(k, g) == g = [n \in 0..k |-> IF n = 0 THEN Start ELSE After(g[n - 1])]
           T == {k \in 0..Turns : \E g : Goes(k, g)}
<1>1. Turns \in Nat
  BY DEF Typed, Turns
<1>2. 0 \in T
  <2> DEFINE g == [n \in 0..0 |-> Start]
  <2>1. Goes(0, g)
    OBVIOUS
  <2>2. \E x : Goes(0, x)
    <3> HIDE DEF Goes, g
    <3> QED BY <2>1
  <2> QED BY <1>1, <2>2
<1>3. ASSUME NEW k \in 0..(Turns - 1), k \in T PROVE k + 1 \in T
  <2>1. PICK g : Goes(k, g)
    BY <1>3
  <2> DEFINE up == [n \in 0..(k + 1) |-> IF n = k + 1 THEN After(g[k]) ELSE g[n]]
  <2>2. ASSUME NEW n \in 0..(k + 1)
        PROVE  up[n] = IF n = 0 THEN Start ELSE After(up[n - 1])
    <3>1. CASE n = k + 1
      BY <3>1, <1>1
    <3>2. CASE n \in 0..k
      BY <2>1, <3>2
    <3> QED BY <3>1, <3>2, <1>1
  <2>3. Goes(k + 1, up)
    BY <2>2
  <2>4. k + 1 \in 0..Turns
    BY <1>1
  <2>5. \E x : Goes(k + 1, x)
    <3> HIDE DEF Goes, up
    <3> QED BY <2>3
  <2> QED BY <2>4, <2>5
<1>4. \E g : Goes(Turns, g)
  <2>1. \A k \in 0..(Turns - 1) : k \in T => k + 1 \in T
    BY <1>3
  <2>2. Turns \in T
    <3> HIDE DEF T
    <3> QED BY <1>1, <1>2, <2>1, Stepwise
  <2> QED BY <2>2
<1>5. Load = CHOOSE g : Goes(Turns, g)
  BY DEF Load, Start, After
<1>6. Goes(Turns, Load)
  <2> HIDE DEF Goes
  <2> QED BY <1>4, <1>5
<1> QED BY <1>1, <1>6

\* Two sequences, one after the other.
LEMMA Joined ==
    ASSUME NEW S, NEW u \in Seq(S), NEW v \in Seq(S), NEW n, n = Len(u)
    PROVE  /\ u \o v \in Seq(S) /\ Len(u \o v) = n + Len(v)
           /\ \A k \in 1..n : (u \o v)[k] = u[k]
           /\ \A k \in 1..Len(v) : (u \o v)[n + k] = v[k]
<1>1. n \in Nat /\ Len(v) \in Nat
  BY LenProperties
<1>2. /\ u \o v \in Seq(S) /\ Len(u \o v) = Len(u) + Len(v)
      /\ \A k \in 1..(Len(u) + Len(v)) : (u \o v)[k] = IF k <= Len(u) THEN u[k] ELSE v[k - Len(u)]
  BY ConcatProperties
<1>3. ASSUME NEW k \in 1..n PROVE (u \o v)[k] = u[k]
  BY <1>1, <1>2
<1>4. ASSUME NEW k \in 1..Len(v) PROVE (u \o v)[n + k] = v[k]
  <2>1. n + k \in 1..(Len(u) + Len(v)) /\ ~(n + k <= Len(u)) /\ (n + k) - Len(u) = k
    BY <1>1
  <2> QED BY <1>2, <2>1
<1> QED BY <1>2, <1>3, <1>4

\* A set of runs is finite and no larger than they are many.
LEMMA RunsAreFinite ==
    ASSUME Typed, NEW S \in SUBSET (1..runs)
    PROVE  runs \in Nat /\ IsFiniteSet(S) /\ Cardinality(S) \in Nat /\ Cardinality(S) <= runs
<1>1. runs \in Nat
  BY DelegationAssumption DEF Typed
<1>2. \A n \in Nat : IsFiniteSet(1..n) /\ Cardinality(1..n) = n
  BY FS_Interval
<1>3. IsFiniteSet(1..runs) /\ Cardinality(1..runs) = runs
  BY <1>1, <1>2
<1> QED BY <1>1, <1>3, FS_Subset, FS_CardinalityType

\* A run found is a loop's length less to do.
LEMMA OneLess ==
    ASSUME NEW r \in Nat, NEW n \in Nat
    PROVE  r * (r - (n + 1)) = r * (r - n) - r /\ r * (r - n) \in Int
<1>1. \A x \in Int : r * (x - 1) = r * x - r /\ r * x \in Int
  OBVIOUS
<1>2. r - n \in Int /\ (r - n) - 1 = r - (n + 1)
  OBVIOUS
<1> QED BY <1>1, <1>2

Members == [under : 0..runs, run : 1..runs]
Pending(f, s, b) == \E k \in 1..Len(f.left) : f.left[k] = [under |-> s, run |-> b]
Astray == \E s \in 0..runs : \E b \in Linked(s) : side[b].parent # s

\* What the search has found hangs together; what a found stream links is
\* found or in a loop that is open; and it fails for a run found astray only.
Searching(f) ==
    /\ f = [ok |-> f.ok, tree |-> f.tree, left |-> f.left]
    /\ f.ok \in BOOLEAN /\ f.left \in Seq(Members)
    /\ DOMAIN f.tree \in SUBSET (1..runs)
    /\ f.tree = [b \in DOMAIN f.tree |-> OpenCodeLink(side[b].parent, b)]
    /\ \A b \in DOMAIN f.tree :
          side[b].parent \in {0} \cup DOMAIN f.tree /\ b \in Linked(side[b].parent)
    /\ \A k \in 1..Len(f.left) : f.left[k].under \in {0} \cup DOMAIN f.tree
    /\ f.ok => \A s \in {0} \cup DOMAIN f.tree : \A b \in Linked(s) :
                  b \in DOMAIN f.tree \/ Pending(f, s, b)
    /\ ~f.ok => f.left = <<>> /\ Astray

\* What is left of the search, in turns.
Work(f) == Len(f.left) + runs * (runs - Cardinality(DOMAIN f.tree))

\* A loop has every run once.
LEMMA LoopIs ==
    ASSUME Typed, NEW s \in 0..runs
    PROVE  /\ Loop(s) \in Seq(Members) /\ Len(Loop(s)) = runs /\ runs \in Nat
           /\ \A b \in 1..runs : Loop(s)[b] = [under |-> s, run |-> b]
<1>1. runs \in Nat
  BY DelegationAssumption DEF Typed
<1>2. Loop(s) \in [1..runs -> Members]
  BY DEF Loop, Members
<1>3. Loop(s) \in Seq(Members)
  BY <1>1, <1>2
<1>4. DOMAIN Loop(s) = 1..runs
  BY DEF Loop
<1>5. Len(Loop(s)) = runs
  BY <1>1, <1>3, <1>4, LenProperties
<1> QED BY <1>1, <1>3, <1>5 DEF Loop

\* What a stream links are runs.
LEMMA LinkedAreRuns ==
    ASSUME NEW s
    PROVE  Linked(s) \in SUBSET (1..runs)
  BY DEF Linked

\* The search starts with the loop of the main thread.
LEMMA SearchStarts ==
    ASSUME Typed
    PROVE  Searching(Start) /\ Work(Start) = Turns
<1>1. 0 \in 0..runs
  BY DEF Typed
<1>2. /\ Loop(0) \in Seq(Members) /\ Len(Loop(0)) = runs /\ runs \in Nat
      /\ \A b \in 1..runs : Loop(0)[b] = [under |-> 0, run |-> b]
  BY <1>1, LoopIs
<1>3. Start = [ok |-> TRUE, tree |-> <<>>, left |-> Loop(0)] /\ DOMAIN Start.tree = {}
  BY DEF Start
<1>4. Start.tree = [b \in DOMAIN Start.tree |-> OpenCodeLink(side[b].parent, b)]
  BY <1>3
<1>5. \A b \in Linked(0) : Pending(Start, 0, b)
  BY <1>2, <1>3, LinkedAreRuns DEF Pending
<1>6. Searching(Start)
  <2>1. Start.ok = TRUE /\ Start.left = Loop(0) /\ Start = [ok |-> Start.ok, tree |-> Start.tree, left |-> Start.left]
    BY <1>3
  <2>2. \A k \in 1..Len(Start.left) : Start.left[k].under \in {0} \cup DOMAIN Start.tree
    <3> SUFFICES ASSUME NEW k \in 1..Len(Start.left) PROVE Start.left[k].under = 0
      OBVIOUS
    <3>1. k \in 1..runs
      BY <1>2, <2>1
    <3>2. Start.left[k] = [under |-> 0, run |-> k]
      BY <1>2, <2>1, <3>1
    <3> QED BY <3>2
  <2>3. \A s \in {0} \cup DOMAIN Start.tree : \A b \in Linked(s) : Pending(Start, s, b)
    BY <1>3, <1>5
  <2> QED BY <1>2, <1>3, <1>4, <2>1, <2>2, <2>3 DEF Searching
<1>7. Work(Start) = Turns
  <2>1. Cardinality(DOMAIN Start.tree) = 0
    BY <1>3, FS_EmptySet
  <2>2. Work(Start) = runs + runs * runs
    BY <1>2, <1>3, <2>1 DEF Work
  <2>3. runs + runs * runs = runs * (runs + 1)
    BY <1>2
  <2> QED BY <2>2, <2>3 DEF Turns
<1> QED BY <1>6, <1>7

\* The next member of the open loops, and what stays when it is taken away.
LEMMA NextMember ==
    ASSUME NEW f, Searching(f), f.left # <<>>
    PROVE  /\ Head(f.left) \in Members /\ Head(f.left) = f.left[1]
           /\ Head(f.left).under \in {0} \cup DOMAIN f.tree
           /\ Tail(f.left) \in Seq(Members) /\ Len(Tail(f.left)) = Len(f.left) - 1
           /\ Len(f.left) \in Nat \ {0}
           /\ \A k \in 1..Len(Tail(f.left)) : Tail(f.left)[k] = f.left[k + 1]
<1>1. f.left \in Seq(Members)
  BY DEF Searching
<1>2. Len(f.left) \in Nat \ {0}
  BY <1>1, EmptySeq, LenProperties
<1>3. Head(f.left) \in Members /\ Head(f.left) = f.left[1]
  BY <1>1, <1>2
<1>4. /\ Tail(f.left) \in Seq(Members) /\ Len(Tail(f.left)) = Len(f.left) - 1
      /\ \A k \in 1..Len(Tail(f.left)) : Tail(f.left)[k] = f.left[k + 1]
  BY <1>1, <1>2, HeadTailProperties
<1>5. f.left[1].under \in {0} \cup DOMAIN f.tree
  BY <1>2 DEF Searching
<1> QED BY <1>2, <1>3, <1>4, <1>5

\* A member that is passed over: no link, or a run found already.
LEMMA PassOver ==
    ASSUME Typed, NEW f, Searching(f), f.left # <<>>,
           Head(f.left).run \notin Linked(Head(f.left).under) \/ Head(f.left).run \in DOMAIN f.tree
    PROVE  Searching(Turn(f)) /\ Work(Turn(f)) = Work(f) - 1
<1> DEFINE s == Head(f.left).under
           b == Head(f.left).run
           g == [ok |-> f.ok, tree |-> f.tree, left |-> Tail(f.left)]
<1>1. Turn(f) = g
  <2>1. Turn(f) = [f EXCEPT !.left = Tail(@)]
    BY DEF Turn
  <2> QED BY <2>1 DEF Searching
<1>2. /\ Head(f.left) \in Members /\ Head(f.left) = f.left[1]
      /\ Tail(f.left) \in Seq(Members) /\ Len(Tail(f.left)) = Len(f.left) - 1
      /\ Len(f.left) \in Nat \ {0}
      /\ \A k \in 1..Len(Tail(f.left)) : Tail(f.left)[k] = f.left[k + 1]
  BY NextMember
<1>3. g.ok = f.ok /\ g.tree = f.tree /\ g.left = Tail(f.left)
  OBVIOUS
<1> HIDE DEF g
<1>4. \A x, y : Pending(f, x, y) => Pending(g, x, y) \/ (x = s /\ y = b)
  <2> SUFFICES ASSUME NEW x, NEW y, Pending(f, x, y), ~(x = s /\ y = b)
               PROVE Pending(g, x, y)
    OBVIOUS
  <2>1. PICK k \in 1..Len(f.left) : f.left[k] = [under |-> x, run |-> y]
    BY DEF Pending
  <2>2. k # 1
    BY <1>2, <2>1
  <2>3. k - 1 \in 1..Len(g.left) /\ g.left[k - 1] = f.left[(k - 1) + 1] /\ (k - 1) + 1 = k
    BY <1>2, <1>3, <2>1, <2>2
  <2> QED BY <2>1, <2>3 DEF Pending
<1>5. \A k \in 1..Len(g.left) : g.left[k].under \in {0} \cup DOMAIN g.tree
  <2> SUFFICES ASSUME NEW k \in 1..Len(g.left) PROVE g.left[k].under \in {0} \cup DOMAIN g.tree
    OBVIOUS
  <2>1. k + 1 \in 1..Len(f.left) /\ g.left[k] = f.left[k + 1]
    BY <1>2, <1>3
  <2> QED BY <1>3, <2>1 DEF Searching
<1>6. f.ok => \A x \in {0} \cup DOMAIN g.tree : \A y \in Linked(x) : y \in DOMAIN g.tree \/ Pending(g, x, y)
  BY <1>3, <1>4 DEF Searching
<1>7. f.ok
  BY DEF Searching
<1>8. Searching(g)
  BY <1>2, <1>3, <1>5, <1>6, <1>7 DEF Searching, g
<1>9. Work(g) = Work(f) - 1
  <2>1. Cardinality(DOMAIN f.tree) \in Nat /\ runs \in Nat
    BY RunsAreFinite DEF Searching
  <2>2. runs * (runs - Cardinality(DOMAIN f.tree)) \in Int
    BY <2>1
  <2> QED BY <1>2, <1>3, <2>2 DEF Work
<1> QED BY <1>1, <1>8, <1>9

\* A run found under its parent: the loop over what it links is opened.
LEMMA FindRun ==
    ASSUME Typed, NEW f, Searching(f), f.left # <<>>,
           Head(f.left).run \in Linked(Head(f.left).under) \ DOMAIN f.tree,
           side[Head(f.left).run].parent = Head(f.left).under
    PROVE  Searching(Turn(f)) /\ Work(Turn(f)) = Work(f) - 1
<1> DEFINE s == Head(f.left).under
           b == Head(f.left).run
           tree == [c \in {b} \cup DOMAIN f.tree |-> IF c = b THEN OpenCodeLink(s, b) ELSE f.tree[c]]
           g == [ok |-> f.ok, tree |-> tree, left |-> Loop(b) \o Tail(f.left)]
<1>1. Turn(f) = g
  <2>1. Turn(f) = [f EXCEPT !.tree = tree, !.left = Loop(b) \o Tail(f.left)]
    BY DEF Turn, Declares
  <2> QED BY <2>1 DEF Searching
<1>2. /\ Head(f.left) \in Members /\ Head(f.left) = f.left[1]
      /\ Head(f.left).under \in {0} \cup DOMAIN f.tree
      /\ Tail(f.left) \in Seq(Members) /\ Len(Tail(f.left)) = Len(f.left) - 1
      /\ Len(f.left) \in Nat \ {0}
      /\ \A k \in 1..Len(Tail(f.left)) : Tail(f.left)[k] = f.left[k + 1]
  BY NextMember
<1>3. s \in {0} \cup DOMAIN f.tree /\ b \in 1..runs /\ b \in Linked(s) /\ b \notin DOMAIN f.tree
      /\ side[b].parent = s /\ f.left[1] = [under |-> s, run |-> b]
  BY <1>2 DEF Members
<1>4. /\ Loop(b) \in Seq(Members) /\ Len(Loop(b)) = runs /\ runs \in Nat
      /\ \A c \in 1..runs : Loop(b)[c] = [under |-> b, run |-> c]
  <2>1. b \in 0..runs
    BY <1>3
  <2> HIDE DEF b
  <2> QED BY <2>1, LoopIs
<1>5. DOMAIN tree = {b} \cup DOMAIN f.tree /\ tree[b] = OpenCodeLink(s, b)
      /\ \A c \in DOMAIN f.tree : tree[c] = f.tree[c]
  BY <1>3
<1>6. tree = [c \in DOMAIN tree |-> OpenCodeLink(side[c].parent, c)]
  <2>1. tree = [c \in DOMAIN tree |-> tree[c]]
    OBVIOUS
  <2> HIDE DEF tree
  <2>2. \A c \in DOMAIN f.tree : f.tree[c] = OpenCodeLink(side[c].parent, c)
    BY DEF Searching
  <2>3. \A c \in DOMAIN tree : tree[c] = OpenCodeLink(side[c].parent, c)
    BY <1>3, <1>5, <2>2
  <2> QED BY <2>1, <2>3
<1> HIDE DEF tree
<1>7. g.ok = f.ok /\ g.tree = tree /\ g.left = Loop(b) \o Tail(f.left)
      /\ g = [ok |-> g.ok, tree |-> g.tree, left |-> g.left]
  OBVIOUS
<1> HIDE DEF g
<1>8. /\ g.left \in Seq(Members) /\ Len(g.left) = runs + Len(Tail(f.left))
      /\ \A k \in 1..runs : g.left[k] = [under |-> b, run |-> k]
      /\ \A k \in 1..Len(Tail(f.left)) : g.left[runs + k] = f.left[k + 1]
  <2> DEFINE u == Loop(b)
             v == Tail(f.left)
  <2>1. /\ u \in Seq(Members) /\ v \in Seq(Members) /\ g.left = u \o v /\ runs = Len(u)
        /\ \A k \in 1..runs : u[k] = [under |-> b, run |-> k]
        /\ \A k \in 1..Len(v) : v[k] = f.left[k + 1]
    BY <1>2, <1>4, <1>7
  <2> HIDE DEF u, v
  <2>2. /\ g.left \in Seq(Members) /\ Len(g.left) = runs + Len(v)
        /\ \A k \in 1..runs : g.left[k] = u[k]
        /\ \A k \in 1..Len(v) : g.left[runs + k] = v[k]
    BY <2>1, Joined
  <2> HIDE DEF b
  <2>3. /\ g.left \in Seq(Members) /\ Len(g.left) = runs + Len(v)
        /\ \A k \in 1..runs : g.left[k] = [under |-> b, run |-> k]
        /\ \A k \in 1..Len(v) : g.left[runs + k] = f.left[k + 1]
    BY <2>1, <2>2
  <2> QED BY <2>3 DEF v
<1>9. \A x, y : Pending(f, x, y) => Pending(g, x, y) \/ (x = s /\ y = b)
  <2> SUFFICES ASSUME NEW x, NEW y, Pending(f, x, y), ~(x = s /\ y = b)
               PROVE Pending(g, x, y)
    OBVIOUS
  <2>1. PICK k \in 1..Len(f.left) : f.left[k] = [under |-> x, run |-> y]
    BY DEF Pending
  <2>2. k # 1
    BY <1>3, <2>1
  <2>3. k - 1 \in 1..Len(Tail(f.left)) /\ (k - 1) + 1 = k
    BY <1>2, <2>1, <2>2
  <2>4. g.left[runs + (k - 1)] = f.left[k]
    BY <1>8, <2>3
  <2>5. runs + (k - 1) \in 1..Len(g.left)
    BY <1>2, <1>4, <1>8, <2>3
  <2> QED BY <2>1, <2>4, <2>5 DEF Pending
<1>10. \A k \in 1..Len(g.left) : g.left[k].under \in {0} \cup DOMAIN g.tree
  <2> SUFFICES ASSUME NEW k \in 1..Len(g.left) PROVE g.left[k].under \in {0} \cup DOMAIN g.tree
    OBVIOUS
  <2>1. CASE k <= runs
    <3>1. g.left[k] = [under |-> b, run |-> k]
      BY <1>4, <1>8, <2>1
    <3>2. g.left[k].under = b
      BY <3>1
    <3> QED BY <1>5, <1>7, <3>2
  <2>2. CASE k > runs
    <3>1. k - runs \in 1..Len(Tail(f.left)) /\ runs + (k - runs) = k
      BY <1>2, <1>4, <1>8, <2>2
    <3>2. g.left[k] = f.left[(k - runs) + 1] /\ (k - runs) + 1 \in 1..Len(f.left)
      BY <1>2, <1>8, <3>1
    <3>3. g.left[k].under \in {0} \cup DOMAIN f.tree
      BY <3>2 DEF Searching
    <3> QED BY <1>5, <1>7, <3>3
  <2> QED BY <1>4, <2>1, <2>2
<1>11. f.ok
  BY DEF Searching
<1>12. \A x \in {0} \cup DOMAIN g.tree : \A y \in Linked(x) : y \in DOMAIN g.tree \/ Pending(g, x, y)
  <2> SUFFICES ASSUME NEW x \in {0} \cup DOMAIN g.tree, NEW y \in Linked(x)
               PROVE  y \in DOMAIN g.tree \/ Pending(g, x, y)
    OBVIOUS
  <2>1. CASE x = b
    <3>1. y \in 1..runs
      BY LinkedAreRuns
    <3>2. g.left[y] = [under |-> x, run |-> y] /\ y \in 1..Len(g.left)
      BY <1>2, <1>4, <1>8, <2>1, <3>1
    <3> QED BY <3>2 DEF Pending
  <2>2. CASE x \in {0} \cup DOMAIN f.tree
    <3>1. y \in DOMAIN f.tree \/ Pending(f, x, y)
      BY <1>11, <2>2 DEF Searching
    <3> QED BY <1>5, <1>7, <1>9, <3>1
  <2> QED BY <1>5, <1>7, <2>1, <2>2
<1>13. \A c \in DOMAIN g.tree :
          side[c].parent \in {0} \cup DOMAIN g.tree /\ c \in Linked(side[c].parent)
  <2>1. \A c \in DOMAIN f.tree :
          side[c].parent \in {0} \cup DOMAIN f.tree /\ c \in Linked(side[c].parent)
    BY DEF Searching
  <2> QED BY <1>3, <1>5, <1>7, <2>1
<1>14. DOMAIN g.tree \in SUBSET (1..runs)
  BY <1>3, <1>5, <1>7 DEF Searching
<1>15. Searching(g)
  <2>1. g.ok \in BOOLEAN /\ g.ok
    BY <1>7, <1>11 DEF Searching
  <2>2. g.tree = [c \in DOMAIN g.tree |-> OpenCodeLink(side[c].parent, c)]
    BY <1>6, <1>7
  <2> QED BY <1>7, <1>8, <1>10, <1>12, <1>13, <1>14, <2>1, <2>2 DEF Searching
<1>16. Work(g) = Work(f) - 1
  <2>1. IsFiniteSet(DOMAIN f.tree)
    BY RunsAreFinite DEF Searching
  <2> DEFINE n == Cardinality(DOMAIN f.tree)
  <2>2. n \in Nat /\ Cardinality(DOMAIN g.tree) = n + 1
    <3>1. Cardinality(DOMAIN f.tree \cup {b}) = n + 1 /\ n \in Nat
      BY <1>3, <2>1, FS_AddElement, FS_CardinalityType
    <3> QED BY <1>5, <1>7, <3>1
  <2> HIDE DEF n
  <2>3. Work(g) = runs + (Len(f.left) - 1) + runs * (runs - (n + 1))
    BY <1>2, <1>8, <2>2 DEF Work
  <2>4. runs * (runs - (n + 1)) = runs * (runs - n) - runs /\ runs * (runs - n) \in Int
    BY <1>4, <2>2, OneLess
  <2>5. Work(f) = Len(f.left) + runs * (runs - n)
    BY DEF Work, n
  <2> QED BY <1>2, <1>4, <2>3, <2>4, <2>5
<1> QED BY <1>1, <1>15, <1>16

\* A run found under another stream than its parent: the search fails.
LEMMA FindAstray ==
    ASSUME Typed, NEW f, Searching(f), f.left # <<>>,
           Head(f.left).run \in Linked(Head(f.left).under) \ DOMAIN f.tree,
           side[Head(f.left).run].parent # Head(f.left).under
    PROVE  Searching(Turn(f)) /\ Turn(f).left = <<>>
<1> DEFINE g == [ok |-> FALSE, tree |-> f.tree, left |-> <<>>]
<1>1. Turn(f) = g
  <2>1. Turn(f) = [f EXCEPT !.ok = FALSE, !.left = <<>>]
    BY DEF Turn, Declares
  <2> QED BY <2>1 DEF Searching
<1>2. Astray
  <2>1. Head(f.left) \in Members
    BY NextMember
  <2> QED BY <2>1 DEF Members, Astray
<1>3. g.ok = FALSE /\ g.tree = f.tree /\ g.left = <<>>
      /\ g = [ok |-> g.ok, tree |-> g.tree, left |-> g.left]
  OBVIOUS
<1> HIDE DEF g
<1>4. g.left \in Seq(Members) /\ Len(g.left) = 0 /\ 1..0 = {}
  BY <1>3, EmptySeq
<1>5. Searching(g)
  BY <1>2, <1>3, <1>4 DEF Searching
<1> QED BY <1>1, <1>3, <1>5

\* Every turn keeps what the search has found and has less to do, or ends it.
LEMMA TurnKeeps ==
    ASSUME Typed, NEW f, Searching(f), f.left # <<>>
    PROVE  /\ Searching(Turn(f))
           /\ Turn(f).left = <<>> \/ Work(Turn(f)) = Work(f) - 1
<1>1. CASE Head(f.left).run \notin Linked(Head(f.left).under) \/ Head(f.left).run \in DOMAIN f.tree
  BY <1>1, PassOver
<1>2. CASE /\ Head(f.left).run \in Linked(Head(f.left).under) \ DOMAIN f.tree
           /\ side[Head(f.left).run].parent = Head(f.left).under
  BY <1>2, FindRun
<1>3. CASE /\ Head(f.left).run \in Linked(Head(f.left).under) \ DOMAIN f.tree
           /\ side[Head(f.left).run].parent # Head(f.left).under
  BY <1>3, FindAstray
<1> QED BY <1>1, <1>2, <1>3

\* The search comes to its end within its turns.
LEMMA SearchEnds ==
    ASSUME Typed
    PROVE  Searching(Load[Turns]) /\ Load[Turns].left = <<>>
<1> DEFINE T == {n \in 0..Turns : /\ Searching(Load[n])
                                  /\ Load[n].left = <<>> \/ Work(Load[n]) = Turns - n}
<1>1. /\ Turns \in Nat /\ Load[0] = Start
      /\ \A n \in 1..Turns : Load[n] = After(Load[n - 1])
  BY LoadTurns
<1>2. 0 \in T
  BY <1>1, SearchStarts
<1>3. ASSUME NEW n \in 0..(Turns - 1), n \in T PROVE n + 1 \in T
  <2> DEFINE f == Load[n]
  <2>1. Load[n + 1] = After(f) /\ n + 1 \in 0..Turns
    BY <1>1
  <2>2. Searching(f) /\ (f.left = <<>> \/ Work(f) = Turns - n)
    BY <1>3
  <2> HIDE DEF f
  <2>3. CASE f.left = <<>>
    <3>1. Load[n + 1] = f
      BY <2>1, <2>3 DEF After
    <3> QED BY <2>1, <2>2, <2>3, <3>1
  <2>4. CASE f.left # <<>>
    <3>1. Load[n + 1] = Turn(f)
      BY <2>1, <2>4 DEF After
    <3>2. Searching(Turn(f)) /\ (Turn(f).left = <<>> \/ Work(Turn(f)) = Work(f) - 1)
      BY <2>2, <2>4, TurnKeeps
    <3>3. (Turns - n) - 1 = Turns - (n + 1)
      BY <1>1
    <3> QED BY <2>1, <2>2, <2>4, <3>1, <3>2, <3>3
  <2> QED BY <2>3, <2>4
<1>4. Turns \in T
  <2>1. \A n \in 0..(Turns - 1) : n \in T => n + 1 \in T
    BY <1>3
  <2> HIDE DEF T
  <2> QED BY <1>1, <1>2, <2>1, Stepwise
<1> DEFINE f == Load[Turns]
<1>5. Searching(f) /\ (f.left = <<>> \/ Work(f) = Turns - Turns)
  BY <1>4
<1> HIDE DEF f
<1>6. f.left = <<>>
  <2> SUFFICES ASSUME f.left # <<>> PROVE FALSE
    OBVIOUS
  <2>1. Len(f.left) \in Nat \ {0}
    BY <1>5, NextMember
  <2>2. runs \in Nat /\ Cardinality(DOMAIN f.tree) \in Nat /\ Cardinality(DOMAIN f.tree) <= runs
    BY <1>5, RunsAreFinite DEF Searching
  <2>4. runs * (runs - Cardinality(DOMAIN f.tree)) >= 0
        /\ runs * (runs - Cardinality(DOMAIN f.tree)) \in Int
    <3>1. runs - Cardinality(DOMAIN f.tree) \in Nat
      BY <2>2
    <3>2. \A m, n \in Nat : m * n \in Nat
      OBVIOUS
    <3> QED BY <2>2, <3>1, <3>2
  <2>5. Work(f) = 0
    BY <1>1, <1>5
  <2> QED BY <2>1, <2>4, <2>5 DEF Work
<1> QED BY <1>5, <1>6 DEF f

-----------------------------------------------------------------------------
(* Before a move: a run is linked to the call that started it, wherever      *)
(* that call is recorded.                                                    *)

Attached(b, l) ==
    /\ l.parent = Truth(b).parent
    /\ \/ l.call = Truth(b).call
       \/ home = "legacy" /\ \E i \in CallsOf(Truth(b).parent) : Names(i, b) /\ calls[i].id = l.call

FirstLink(b, l) ==
    /\ l \in Links /\ Owned(l) /\ Silent(b, l)
    /\ Told(b) /\ l.call # "none" => Attached(b, l)
    /\ Told(b) => l.parent \in Nat /\ l.parent < b

\* The call that started a run, and what is recorded of it.
LEMMA Origin ==
    ASSUME Typed, Spawned, Recorded, hops = 0, NEW b \in 1..runs
    PROVE  \E t \in DOMAIN calls :
             /\ b \in calls[t].starts /\ RecordedBeside(b, t) /\ SpawnOf(b) = t
             /\ Truth(b) = [parent |-> calls[t].stream, call |-> calls[t].id]
             /\ calls[t].stream \in 0..runs /\ calls[t].stream < b /\ calls[t].id # "none"
             /\ calls[t].stream \in Nat /\ b \in Nat
             /\ home = origin /\ side[b] \in Sides
<1>1. PICK t \in DOMAIN calls : b \in calls[t].starts
  BY DEF Spawned
<1>2. RecordedBeside(b, t)
  BY <1>1 DEF Recorded
<1>3. calls[t].stream < b
  BY <1>1 DEF Spawned
<1>4. home = origin /\ side[b] \in Sides
  BY DEF Typed
<1>5. calls[t].stream \in 0..runs /\ calls[t].id # "none"
  BY CallIs
<1>6. SpawnOf(b) = t /\ Truth(b) = [parent |-> calls[t].stream, call |-> calls[t].id]
  BY <1>1, SpawnIs
<1>7. calls[t].stream \in Nat /\ b \in Nat
  BY <1>5
<1> QED BY <1>1, <1>2, <1>3, <1>4, <1>5, <1>6, <1>7

\* Claude: the recorded call, or the one call whose result has the run's token.
LEMMA ClaudeFirst ==
    ASSUME Typed, Spawned, Numbered, Recorded, hops = 0, home = "claude", NEW b \in 1..runs
    PROVE  FirstLink(b, ClaudeLink(b))
<1>1. PICK t \in DOMAIN calls :
             /\ b \in calls[t].starts /\ RecordedBeside(b, t) /\ SpawnOf(b) = t
             /\ Truth(b) = [parent |-> calls[t].stream, call |-> calls[t].id]
             /\ calls[t].stream \in 0..runs /\ calls[t].stream < b /\ calls[t].id # "none"
             /\ calls[t].stream \in Nat /\ b \in Nat
             /\ home = origin /\ side[b] \in Sides
  BY Origin
<1> DEFINE l == ClaudeLink(b)
<1>2. /\ Found(b, l)
      /\ l.call = "none" => l.parent = 0 /\ Cardinality(TokenLinks(b)) # 1
      /\ l.call # "none" /\ (side[b].call # "none" \/ Names(t, b)) => l = Truth(b)
  BY <1>1, ClaudeReads
<1> HIDE DEF l
<1>3. Told(b) <=> side[b].call # "none" \/ Names(t, b)
  BY <1>1 DEF Told
<1>4. Silent(b, l)
  BY <1>1, <1>2 DEF Silent
<1>5. Told(b) => l.parent \in Nat /\ l.parent < b
  BY <1>1, <1>2, <1>3
<1> QED BY <1>2, <1>3, <1>4, <1>5 DEF FirstLink, Found, Attached, l

\* Kimi: a result's ids and a swarm's items lead to the call that started the run.
LEMMA KimiFirst ==
    ASSUME Typed, Spawned, Naming, Recorded, hops = 0, home = "kimi", NEW b \in 1..runs
    PROVE  FirstLink(b, KimiLink(b))
<1>1. PICK t \in DOMAIN calls :
             /\ b \in calls[t].starts /\ RecordedBeside(b, t) /\ SpawnOf(b) = t
             /\ Truth(b) = [parent |-> calls[t].stream, call |-> calls[t].id]
             /\ calls[t].stream \in 0..runs /\ calls[t].stream < b /\ calls[t].id # "none"
             /\ calls[t].stream \in Nat /\ b \in Nat
             /\ home = origin /\ side[b] \in Sides
  BY Origin
<1> DEFINE l == KimiLink(b)
<1>2. side[b].parent = calls[t].stream /\ side[b].call \in {"none", calls[t].id}
  BY <1>1 DEF RecordedBeside
<1>3. Owned(side[b])
  BY <1>1, <1>2 DEF Owned, CallsOf
<1>4. \A i \in DOMAIN calls : Names(i, b) => calls[i].stream = side[b].parent
  BY <1>1, <1>2 DEF Naming, Names
<1>5. side[b].label # 0 => calls[t].stream = side[b].parent /\ calls[t].swarm
                           /\ side[b].label <= Cardinality(calls[t].starts)
  BY <1>1, <1>2 DEF RecordedBeside
<1>6. /\ Found(b, l) /\ l.parent = side[b].parent
      /\ l.call = "none" => side[b].call = "none"
      /\ side[b].call = "none" /\ l.call # "none" =>
           \/ IsFiniteSet(IdClaims(b)) /\ IdClaims(b) = {l.call}
           \/ side[b].label # 0 /\ l.call = calls[t].id
  BY <1>3, <1>4, <1>5, KimiReads
<1> HIDE DEF l
<1>7. Silent(b, l)
  BY <1>1, <1>4, <1>6 DEF Silent
<1>8. ASSUME Told(b), l.call # "none" PROVE l.call = calls[t].id
  <2>1. CASE side[b].call # "none"
    BY <1>2, <1>6, <2>1 DEF Found
  <2>2. CASE side[b].call = "none"
    <3>1. Names(t, b)
      BY <1>1, <1>8, <2>2 DEF Told
    <3>2. calls[t].id \in IdClaims(b)
      BY <1>1, <3>1 DEF IdClaims
    <3> QED BY <1>6, <1>8, <2>2, <3>2
  <2> QED BY <2>1, <2>2
<1> QED BY <1>1, <1>2, <1>6, <1>7, <1>8 DEF FirstLink, Found, Attached, l

\* Old Kimi: the results that name a run are its spawner's.
LEMMA LegacyFirst ==
    ASSUME Typed, Spawned, Naming, Recorded, hops = 0, home = "legacy", NEW b \in 1..runs
    PROVE  FirstLink(b, LegacyLink(b))
<1>1. PICK t \in DOMAIN calls :
             /\ b \in calls[t].starts /\ RecordedBeside(b, t) /\ SpawnOf(b) = t
             /\ Truth(b) = [parent |-> calls[t].stream, call |-> calls[t].id]
             /\ calls[t].stream \in 0..runs /\ calls[t].stream < b /\ calls[t].id # "none"
             /\ calls[t].stream \in Nat /\ b \in Nat
             /\ home = origin /\ side[b] \in Sides
  BY Origin
<1> DEFINE l == LegacyLink(b)
           p == calls[t].stream
<1>2. /\ side[b].parent \in {0, p} /\ side[b].call \in {"none", calls[t].id}
      /\ side[b].call # "none" => side[b].parent = p
  BY <1>1 DEF RecordedBeside
<1>3. Owned(side[b])
  BY <1>1, <1>2 DEF Owned, CallsOf
<1>4. \A i \in DOMAIN calls : Names(i, b) => calls[i].stream = p
  BY <1>1 DEF Naming, Names
<1>5. /\ Found(b, l) /\ l.parent \in {side[b].parent, p}
      /\ side[b].call = "none" /\ l.call # "none" =>
           /\ l.parent = p
           /\ \E i \in CallsOf(p) : Names(i, b) /\ calls[i].id = l.call
      /\ l.call = "none" => l.parent = side[b].parent /\ LastNaming(p, b) = {}
  <2>1. p \in 0..runs
    BY <1>1
  <2> HIDE DEF p
  <2> QED BY <1>2, <1>3, <1>4, <2>1, LegacyReads
<1> HIDE DEF l
<1>6. Silent(b, l)
  <2> SUFFICES ASSUME l.call = "none" PROVE \A i \in DOMAIN calls : ~Names(i, b)
    BY <1>1 DEF Silent
  <2>1. {i \in CallsOf(p) : Names(i, b)} = {}
    BY <1>1, <1>5 DEF LastNaming, ReadsIds
  <2> QED BY <1>4, <2>1 DEF CallsOf
<1>7. l.parent \in Nat /\ l.parent < b
  BY <1>1, <1>2, <1>5
<1>8. ASSUME l.call # "none" PROVE Attached(b, l)
  <2>1. CASE side[b].call # "none"
    BY <1>1, <1>2, <1>5, <2>1 DEF Found, Attached
  <2>2. CASE side[b].call = "none"
    BY <1>1, <1>5, <1>8, <2>2 DEF Attached
  <2> QED BY <2>1, <2>2
<1> QED BY <1>5, <1>6, <1>7, <1>8 DEF FirstLink, Found, l

\* Codex: a thread's own parent and the event of its spawning.
LEMMA CodexFirst ==
    ASSUME Typed, Spawned, Naming, Recorded, hops = 0, home = "codex", NEW b \in 1..runs
    PROVE  FirstLink(b, CodexLink(b))
<1>1. PICK t \in DOMAIN calls :
             /\ b \in calls[t].starts /\ RecordedBeside(b, t) /\ SpawnOf(b) = t
             /\ Truth(b) = [parent |-> calls[t].stream, call |-> calls[t].id]
             /\ calls[t].stream \in 0..runs /\ calls[t].stream < b /\ calls[t].id # "none"
             /\ calls[t].stream \in Nat /\ b \in Nat
             /\ home = origin /\ side[b] \in Sides
  BY Origin
<1> DEFINE l == CodexLink(b)
<1>2. side[b].parent = calls[t].stream /\ side[b].call \in {"none", calls[t].id}
  BY <1>1 DEF RecordedBeside
<1>3. Owned(side[b])
  BY <1>1, <1>2 DEF Owned, CallsOf
<1>4. \A i \in DOMAIN calls : Names(i, b) => i = t
  BY <1>1 DEF Naming, Names
<1>5. /\ Found(b, l) /\ l.parent = side[b].parent
      /\ side[b].call = "none" /\ l.call # "none" =>
           \E i \in CallsOf(side[b].parent) : Names(i, b) /\ calls[i].id = l.call
  BY <1>3, CodexReads
<1> HIDE DEF l
<1>6. Silent(b, l)
  BY <1>1, <1>2, <1>4, <1>5 DEF Silent
<1>7. ASSUME l.call # "none" PROVE l.call = calls[t].id
  <2>1. CASE side[b].call # "none"
    BY <1>2, <1>5, <2>1 DEF Found
  <2>2. CASE side[b].call = "none"
    BY <1>4, <1>5, <1>7, <2>2 DEF CallsOf
  <2> QED BY <2>1, <2>2
<1> QED BY <1>1, <1>2, <1>5, <1>6, <1>7 DEF FirstLink, Found, Attached, l

\* OpenCode finds a run with the first call of its parent that names it.
LEMMA OpenCodeFirst ==
    ASSUME Typed, Spawned, Naming, Recorded, hops = 0, home = "opencode", NEW b \in 1..runs,
           b \in Linked(side[b].parent)
    PROVE  FirstLink(b, OpenCodeLink(side[b].parent, b))
<1>1. PICK t \in DOMAIN calls :
             /\ b \in calls[t].starts /\ RecordedBeside(b, t) /\ SpawnOf(b) = t
             /\ Truth(b) = [parent |-> calls[t].stream, call |-> calls[t].id]
             /\ calls[t].stream \in 0..runs /\ calls[t].stream < b /\ calls[t].id # "none"
             /\ calls[t].stream \in Nat /\ b \in Nat
             /\ home = origin /\ side[b] \in Sides
  BY Origin
<1> DEFINE s == side[b].parent
           l == OpenCodeLink(s, b)
           N == {i \in CallsOf(s) : Names(i, b)}
           i == FirstNaming(s, b)
<1>2. s = calls[t].stream /\ side[b].call = "none"
  BY <1>1 DEF RecordedBeside
<1>3. i \in N /\ \A j \in N : i <= j
  <2>1. N # {}
    BY DEF Linked
  <2>2. N \in SUBSET Nat
    BY CallIs DEF CallsOf
  <2>3. i = Min(N)
    BY DEF FirstNaming
  <2> HIDE DEF N, i
  <2> QED BY <2>1, <2>2, <2>3, MinIsMember
<1>4. l = [parent |-> s, call |-> calls[i].id]
  BY DEF OpenCodeLink
<1> HIDE DEF i, l
<1>5. i \in DOMAIN calls /\ calls[i].stream = s /\ calls[i].id \in CallIds /\ calls[i].id # "none" /\ i \in Nat
  BY <1>3, CallIs DEF CallsOf
<1>6. l \in Links /\ Owned(l) /\ Silent(b, l)
  BY <1>1, <1>2, <1>4, <1>5 DEF Links, Owned, Silent, CallsOf
<1>7. Told(b) => i = t
  <2> SUFFICES ASSUME Told(b) PROVE i = t
    OBVIOUS
  <2>1. Names(t, b)
    BY <1>1, <1>2 DEF Told
  <2>2. t \in N /\ t \in Nat
    BY <1>1, <1>2, <2>1, CallIs DEF CallsOf
  <2>3. i <= t
    BY <1>3, <2>2
  <2>4. t <= i
    BY <1>1, <1>3, <1>5 DEF Naming, Names
  <2> QED BY <1>5, <2>2, <2>3, <2>4
<1> QED BY <1>1, <1>2, <1>4, <1>6, <1>7 DEF FirstLink, Attached, l

-----------------------------------------------------------------------------
(* After a move: a run has the parent that was written beside it, and the    *)
(* call, or one of that parent where none was written.                       *)

MovedLink(b, l) ==
    /\ l \in Links /\ Owned(l) /\ Silent(b, l)
    /\ l.parent = side[b].parent
    /\ side[b].call # "none" => l.call = side[b].call

CarriedBeside(b) == side[b].label = 0 /\ Owned(side[b]) /\ Silent(b, side[b])

\* A link that has the recorded parent, and no call only where none is recorded.
LEMMA StillSilent ==
    ASSUME NEW b, NEW l, CarriedBeside(b), Found(b, l), l.parent = side[b].parent
    PROVE  MovedLink(b, l)
<1>1. l.call = "none" => side[b].call = "none"
  BY DEF Found
<1> QED BY <1>1 DEF MovedLink, Found, Silent, CarriedBeside

\* After a move every reader recovers the link that is recorded.
LEMMA LinkMoved ==
    ASSUME Typed, Spawned, Carried, hops > 0, NEW b \in 1..runs
    PROVE  /\ MovedLink(b, ClaudeLink(b)) /\ MovedLink(b, KimiLink(b))
           /\ MovedLink(b, LegacyLink(b)) /\ MovedLink(b, CodexLink(b))
           /\ MovedLink(b, OpenCodeLink(side[b].parent, b))
<1>1. side[b] \in Sides /\ CarriedBeside(b)
  BY DEF Typed, Carried, CarriedBeside
<1>2. Owned(side[b]) /\ Silent(b, side[b]) /\ side[b].label = 0 /\ side[b].parent \in 0..runs
  BY <1>1 DEF CarriedBeside, Sides
<1>3. origin # "claude" /\ side[b].call = "none" =>
        \A i \in DOMAIN calls : Names(i, b) => calls[i].stream = side[b].parent
  BY <1>2 DEF Silent
<1>4. MovedLink(b, ClaudeLink(b))
  <2>1. Found(b, ClaudeLink(b)) /\ ClaudeLink(b).parent = side[b].parent
    BY <1>2, ClaudeReadsMoved
  <2> QED BY <1>1, <2>1, StillSilent
<1>5. MovedLink(b, KimiLink(b))
  <2>1. PICK t \in DOMAIN calls : b \in calls[t].starts
    BY DEF Spawned
  <2>2. Found(b, KimiLink(b)) /\ KimiLink(b).parent = side[b].parent
    BY <1>2, <1>3, <2>1, KimiReads
  <2> QED BY <1>1, <2>2, StillSilent
<1>6. MovedLink(b, LegacyLink(b))
  <2>1. Found(b, LegacyLink(b)) /\ LegacyLink(b).parent \in {side[b].parent, side[b].parent}
    <3>1. side[b].parent \in {0, side[b].parent}
      OBVIOUS
    <3>2. side[b].call = "none" => \A i \in DOMAIN calls : ReadsIds /\ Names(i, b) =>
                                        calls[i].stream = side[b].parent
      BY <1>3 DEF ReadsIds
    <3> QED BY <1>2, <3>1, <3>2, LegacyReads
  <2> QED BY <1>1, <2>1, StillSilent
<1>7. MovedLink(b, CodexLink(b))
  <2>1. Found(b, CodexLink(b)) /\ CodexLink(b).parent = side[b].parent
    BY <1>2, CodexReads
  <2> QED BY <1>1, <2>1, StillSilent
<1>8. MovedLink(b, OpenCodeLink(side[b].parent, b))
  <2> DEFINE l == OpenCodeLink(side[b].parent, b)
  <2>1. l = [parent |-> side[b].parent, call |-> side[b].call]
    BY DEF OpenCodeLink
  <2>2. Found(b, l) /\ l.parent = side[b].parent
    BY <1>1, <1>2, <2>1 DEF Found, Links, Sides, Owned
  <2> HIDE DEF l
  <2>3. MovedLink(b, l)
    BY <1>1, <2>2, StillSilent
  <2> QED BY <2>3 DEF l
<1> QED BY <1>4, <1>5, <1>6, <1>7, <1>8

-----------------------------------------------------------------------------
(* The tree that is read.                                                    *)

\* What every harness's reader yields.
TreeRead ==
    /\ DOMAIN Tree.tree \in SUBSET (1..runs) /\ Tree.ok \in BOOLEAN
    /\ Tree.tree = [b \in DOMAIN Tree.tree |-> Tree.tree[b]]
    /\ home # "opencode" => Tree.ok /\ DOMAIN Tree.tree = 1..runs
    /\ \A b \in DOMAIN Tree.tree :
          /\ hops = 0 => FirstLink(b, Tree.tree[b])
          /\ hops > 0 => MovedLink(b, Tree.tree[b])

\* The tree of a harness that reads each run for itself.
LEMMA TreeIs ==
    ASSUME Typed
    PROVE  /\ home \in {"claude", "codex", "opencode", "kimi", "legacy"}
           /\ home # "opencode" => /\ Tree.ok /\ DOMAIN Tree.tree = 1..runs
                                   /\ Tree.tree = [b \in DOMAIN Tree.tree |-> Tree.tree[b]]
           /\ home = "claude" => \A b \in 1..runs : Tree.tree[b] = ClaudeLink(b)
           /\ home = "kimi" => \A b \in 1..runs : Tree.tree[b] = KimiLink(b)
           /\ home = "legacy" => \A b \in 1..runs : Tree.tree[b] = LegacyLink(b)
           /\ home = "codex" => \A b \in 1..runs : Tree.tree[b] = CodexLink(b)
           /\ home = "opencode" => Tree = Load[Turns]
<1>1. home \in {"claude", "codex", "opencode", "kimi", "legacy"}
  BY DelegationAssumption DEF Typed
<1>2. CASE home = "claude"
  <2>1. Tree = [ok |-> TRUE, tree |-> [b \in 1..runs |-> ClaudeLink(b)]]
    BY <1>2 DEF Tree, Always
  <2>2. Tree.ok /\ Tree.tree = [b \in 1..runs |-> ClaudeLink(b)]
    BY <2>1
  <2> QED BY <1>2, <2>2
<1>3. CASE home = "kimi"
  <2>1. Tree = [ok |-> TRUE, tree |-> [b \in 1..runs |-> KimiLink(b)]]
    BY <1>3 DEF Tree, Always
  <2>2. Tree.ok /\ Tree.tree = [b \in 1..runs |-> KimiLink(b)]
    BY <2>1
  <2> QED BY <1>3, <2>2
<1>4. CASE home = "legacy"
  <2>1. Tree = [ok |-> TRUE, tree |-> [b \in 1..runs |-> LegacyLink(b)]]
    BY <1>4 DEF Tree, Always
  <2>2. Tree.ok /\ Tree.tree = [b \in 1..runs |-> LegacyLink(b)]
    BY <2>1
  <2> QED BY <1>4, <2>2
<1>5. CASE home = "codex"
  <2>1. Tree = [ok |-> TRUE, tree |-> [b \in 1..runs |-> CodexLink(b)]]
    BY <1>5 DEF Tree, Always
  <2>2. Tree.ok /\ Tree.tree = [b \in 1..runs |-> CodexLink(b)]
    BY <2>1
  <2> QED BY <1>5, <2>2
<1>6. CASE home = "opencode"
  BY <1>6 DEF Tree
<1> QED BY <1>1, <1>2, <1>3, <1>4, <1>5, <1>6

\* What OpenCode's search has when it ends: all that is linked, if nothing is astray.
LEMMA OpenCodeTree ==
    ASSUME Typed, home = "opencode"
    PROVE  /\ Tree.ok \in BOOLEAN /\ DOMAIN Tree.tree \in SUBSET (1..runs)
           /\ Tree.tree = [b \in DOMAIN Tree.tree |-> Tree.tree[b]]
           /\ \A b \in DOMAIN Tree.tree :
                /\ Tree.tree[b] = OpenCodeLink(side[b].parent, b)
                /\ side[b].parent \in {0} \cup DOMAIN Tree.tree
                /\ b \in Linked(side[b].parent)
           /\ Tree.ok => \A s \in {0} \cup DOMAIN Tree.tree : Linked(s) \subseteq DOMAIN Tree.tree
           /\ ~Tree.ok => Astray
<1> DEFINE f == Load[Turns]
<1>1. Tree = f
  BY TreeIs
<1>2. Searching(f) /\ f.left = <<>>
  BY SearchEnds
<1> HIDE DEF f
<1>3. \A s, b : ~Pending(f, s, b)
  <2>1. 1..Len(f.left) = {}
    BY <1>2, EmptySeq
  <2> QED BY <2>1 DEF Pending
<1>4. \A b \in DOMAIN f.tree : f.tree[b] = OpenCodeLink(side[b].parent, b)
  BY <1>2 DEF Searching
<1>5. f.tree = [b \in DOMAIN f.tree |-> f.tree[b]]
  BY <1>2, <1>4 DEF Searching
<1> QED BY <1>1, <1>2, <1>3, <1>4, <1>5 DEF Searching

\* Whatever the harness, the tree consists of such links.
LEMMA TreeIsRead ==
    ASSUME IInv
    PROVE  TreeRead
<1>1. Typed /\ Spawned /\ Numbered /\ Naming /\ Recorded /\ Carried
  BY DEF IInv
<1>2. hops = 0 \/ hops > 0
  BY <1>1 DEF Typed
<1>3. CASE home = "claude"
  <2>1. /\ DOMAIN Tree.tree = 1..runs /\ Tree.ok /\ \A b \in 1..runs : Tree.tree[b] = ClaudeLink(b)
        /\ Tree.tree = [b \in DOMAIN Tree.tree |-> Tree.tree[b]]
    BY <1>1, <1>3, TreeIs
  <2> QED BY <1>1, <1>3, <2>1, ClaudeFirst, LinkMoved DEF TreeRead
<1>4. CASE home = "kimi"
  <2>1. /\ DOMAIN Tree.tree = 1..runs /\ Tree.ok /\ \A b \in 1..runs : Tree.tree[b] = KimiLink(b)
        /\ Tree.tree = [b \in DOMAIN Tree.tree |-> Tree.tree[b]]
    BY <1>1, <1>4, TreeIs
  <2> QED BY <1>1, <1>4, <2>1, KimiFirst, LinkMoved DEF TreeRead
<1>5. CASE home = "legacy"
  <2>1. /\ DOMAIN Tree.tree = 1..runs /\ Tree.ok /\ \A b \in 1..runs : Tree.tree[b] = LegacyLink(b)
        /\ Tree.tree = [b \in DOMAIN Tree.tree |-> Tree.tree[b]]
    BY <1>1, <1>5, TreeIs
  <2> QED BY <1>1, <1>5, <2>1, LegacyFirst, LinkMoved DEF TreeRead
<1>6. CASE home = "codex"
  <2>1. /\ DOMAIN Tree.tree = 1..runs /\ Tree.ok /\ \A b \in 1..runs : Tree.tree[b] = CodexLink(b)
        /\ Tree.tree = [b \in DOMAIN Tree.tree |-> Tree.tree[b]]
    BY <1>1, <1>6, TreeIs
  <2> QED BY <1>1, <1>6, <2>1, CodexFirst, LinkMoved DEF TreeRead
<1>7. CASE home = "opencode"
  <2>1. /\ Tree.ok \in BOOLEAN /\ DOMAIN Tree.tree \in SUBSET (1..runs)
        /\ Tree.tree = [b \in DOMAIN Tree.tree |-> Tree.tree[b]]
        /\ \A b \in DOMAIN Tree.tree :
             /\ Tree.tree[b] = OpenCodeLink(side[b].parent, b)
             /\ b \in Linked(side[b].parent)
    BY <1>1, <1>7, OpenCodeTree
  <2>2. ASSUME NEW b \in DOMAIN Tree.tree
        PROVE  /\ hops = 0 => FirstLink(b, Tree.tree[b])
               /\ hops > 0 => MovedLink(b, Tree.tree[b])
    <3>1. b \in 1..runs
      BY <2>1
    <3> QED BY <1>1, <1>7, <2>1, <3>1, OpenCodeFirst, LinkMoved
  <2> QED BY <1>7, <2>1, <2>2 DEF TreeRead
<1> QED BY <1>1, <1>3, <1>4, <1>5, <1>6, <1>7, TreeIs

\* A tree whose parents come before their children is ordered.
LEMMA OrderedByBirth ==
    ASSUME NEW t, NEW n \in Nat, DOMAIN t \in SUBSET (1..n),
           \A b \in DOMAIN t : t[b].parent \in {0} \cup DOMAIN t /\ t[b].parent < b
    PROVE  Ordered(t)
<1>1. ASSUME NEW B \in SUBSET DOMAIN t, B # {} PROVE \E b \in B : t[b].parent \notin B
  <2>1. PICK low \in B : \A m \in B : low <= m
    <3>1. B \in SUBSET Nat
      OBVIOUS
    <3> QED BY <1>1, <3>1, LeastNumber
  <2>2. t[low].parent < low /\ low \in Nat
    OBVIOUS
  <2>3. t[low].parent \notin B
    <3> SUFFICES ASSUME t[low].parent \in B PROVE FALSE
      OBVIOUS
    <3>1. low <= t[low].parent /\ t[low].parent \in Nat
      BY <2>1
    <3> QED BY <2>2, <3>1
  <2> QED BY <2>3
<1> QED BY <1>1 DEF Ordered

-----------------------------------------------------------------------------
(* The properties follow from the invariant.                                 *)

\* A run is attached where it was spawned.
LEMMA Attachment == IInv => AttachedWhereSpawned
<1> SUFFICES ASSUME IInv, hops = 0, NEW b \in DOMAIN Tree.tree, Told(b), Tree.tree[b].call # "none"
             PROVE  Attached(b, Tree.tree[b])
  BY DEF AttachedWhereSpawned, Attached
<1>1. FirstLink(b, Tree.tree[b])
  BY TreeIsRead DEF TreeRead
<1> QED BY <1>1 DEF FirstLink

\* A run recorded up to the main thread is recorded itself.
LEMMA AllToldAreTold ==
    ASSUME NEW b, AllTold(b)
    PROVE  Told(b)
  BY DEF AllTold

\* A session whose spawning calls are all recorded can be moved.
LEMMA Moving == IInv /\ hops = 0 =>
    Movable \/ \E b \in 1..runs : ~AllTold(b) \/ (home = "opencode" /\ Elsewhere(b))
<1> SUFFICES ASSUME IInv, hops = 0, \A b \in 1..runs : AllTold(b),
                    home = "opencode" => \A b \in 1..runs : ~Elsewhere(b)
             PROVE  Movable
  OBVIOUS
<1>1. Typed /\ Spawned /\ Naming /\ Recorded
  BY DEF IInv
<1>2. TreeRead /\ runs \in Nat
  BY <1>1, TreeIsRead, DelegationAssumption DEF Typed
<1>3. \A b \in DOMAIN Tree.tree : Tree.tree[b].parent < b /\ Tree.tree[b].parent \in 0..runs
  <2> SUFFICES ASSUME NEW b \in DOMAIN Tree.tree
               PROVE  Tree.tree[b].parent < b /\ Tree.tree[b].parent \in 0..runs
    OBVIOUS
  <2>1. FirstLink(b, Tree.tree[b]) /\ b \in 1..runs
    BY <1>2 DEF TreeRead
  <2>2. Told(b)
    BY <2>1, AllToldAreTold
  <2> QED BY <2>1, <2>2 DEF FirstLink, Links
<1>4. CASE home # "opencode"
  <2>1. Tree.ok /\ DOMAIN Tree.tree = 1..runs
    BY <1>2, <1>4 DEF TreeRead
  <2>2. \A b \in DOMAIN Tree.tree : Tree.tree[b].parent \in {0} \cup DOMAIN Tree.tree
    BY <1>2, <1>3, <2>1
  <2>3. Ordered(Tree.tree)
    <3>1. DOMAIN Tree.tree \in SUBSET (1..runs)
      BY <2>1
    <3> QED BY <1>2, <1>3, <2>2, <3>1, OrderedByBirth
  <2> QED BY <2>1, <2>3 DEF Movable
<1>5. CASE home = "opencode"
  <2>1. /\ DOMAIN Tree.tree \in SUBSET (1..runs) /\ Tree.ok \in BOOLEAN
        /\ \A b \in DOMAIN Tree.tree :
             /\ Tree.tree[b] = OpenCodeLink(side[b].parent, b)
             /\ side[b].parent \in {0} \cup DOMAIN Tree.tree
        /\ ~Tree.ok => Astray
    BY <1>1, <1>5, OpenCodeTree
  <2>2. \A b \in DOMAIN Tree.tree : Tree.tree[b].parent \in {0} \cup DOMAIN Tree.tree
    <3>1. \A s, b : OpenCodeLink(s, b).parent = s
      BY DEF OpenCodeLink
    <3> QED BY <2>1, <3>1
  <2>3. Ordered(Tree.tree)
    BY <1>2, <1>3, <2>1, <2>2, OrderedByBirth
  <2>4. ~Astray
    <3> SUFFICES ASSUME NEW s \in 0..runs, NEW b \in Linked(s), side[b].parent # s
                 PROVE  FALSE
      BY DEF Astray
    <3>1. b \in 1..runs
      BY LinkedAreRuns
    <3>2. PICK i \in CallsOf(s) : Names(i, b)
      BY DEF Linked
    <3>3. side[b].parent = Truth(b).parent
      <4>1. PICK t \in DOMAIN calls : RecordedBeside(b, t)
                 /\ Truth(b) = [parent |-> calls[t].stream, call |-> calls[t].id]
        BY <1>1, <3>1, Origin
      <4> QED BY <1>5, <4>1 DEF RecordedBeside
    <3>4. Elsewhere(b)
      BY <3>2, <3>3 DEF Elsewhere, CallsOf
    <3> QED BY <1>5, <3>1, <3>4
  <2> QED BY <2>1, <2>3, <2>4 DEF Movable
<1> QED BY <1>4, <1>5

\* A run recorded up to the main thread is found.
LEMMA Finding == IInv /\ Tree.ok => \A b \in 1..runs : AllTold(b) => b \in DOMAIN Tree.tree
<1> SUFFICES ASSUME IInv, Tree.ok, NEW b \in 1..runs, AllTold(b)
             PROVE  b \in DOMAIN Tree.tree
  OBVIOUS
<1>1. Typed /\ Spawned /\ Naming /\ Recorded /\ Carried
  BY DEF IInv
<1>2. TreeRead /\ runs \in Nat
  BY <1>1, TreeIsRead, DelegationAssumption DEF Typed
<1>3. CASE home # "opencode"
  BY <1>2, <1>3 DEF TreeRead
<1>4. ASSUME home = "opencode" PROVE \A s \in {0} \cup DOMAIN Tree.tree : Linked(s) \subseteq DOMAIN Tree.tree
  BY <1>1, <1>4, OpenCodeTree
<1>5. CASE home = "opencode" /\ hops = 0
  <2>1. PICK A \in SUBSET (1..runs) : b \in A /\ \A a \in A : Told(a) /\ Truth(a).parent \in {0} \cup A
    BY DEF AllTold
  <2> SUFFICES ASSUME b \notin DOMAIN Tree.tree PROVE FALSE
    OBVIOUS
  <2> DEFINE B == A \ DOMAIN Tree.tree
  <2>2. PICK low \in B : \A m \in B : low <= m
    <3>1. 1..runs \subseteq Nat
      BY <1>2
    <3>2. B \in SUBSET Nat /\ B # {}
      BY <2>1, <3>1
    <3> HIDE DEF B
    <3> QED BY <3>2, LeastNumber
  <2>3. low \in 1..runs /\ low \in A /\ low \notin DOMAIN Tree.tree
    BY <2>1, <2>2
  <2>4. PICK t \in DOMAIN calls :
             /\ low \in calls[t].starts /\ RecordedBeside(low, t) /\ SpawnOf(low) = t
             /\ Truth(low) = [parent |-> calls[t].stream, call |-> calls[t].id]
             /\ calls[t].stream < low /\ calls[t].stream \in Nat
    BY <1>1, <1>5, <2>3, Origin
  <2> DEFINE s == calls[t].stream
  <2>5. s \in {0} \cup DOMAIN Tree.tree
    <3>1. s \in {0} \cup A
      BY <2>1, <2>3, <2>4
    <3>2. s \notin B
      <4> SUFFICES ASSUME s \in B PROVE FALSE
        OBVIOUS
      <4>1. low <= s
        BY <2>2
      <4>2. low \in Nat
        BY <1>2, <2>3
      <4> QED BY <2>4, <4>1, <4>2
    <3> QED BY <3>1, <3>2
  <2>6. low \in Linked(s)
    <3>1. Told(low)
      BY <2>1, <2>3
    <3>2. Names(t, low)
      BY <1>5, <2>4, <3>1 DEF Told, RecordedBeside
    <3> QED BY <1>5, <2>3, <3>2 DEF Linked, CallsOf
  <2> QED BY <1>4, <1>5, <2>3, <2>5, <2>6
<1>6. CASE home = "opencode" /\ hops > 0
  <2> SUFFICES ASSUME b \notin DOMAIN Tree.tree PROVE FALSE
    OBVIOUS
  <2> DEFINE B == (1..runs) \ DOMAIN Tree.tree
  <2>1. Ordered(first) /\ DOMAIN first = 1..runs
    BY <1>1, <1>6 DEF Carried, Typed
  <2>2. PICK a \in B : first[a].parent \notin B
    BY <2>1 DEF Ordered
  <2>3. first[a].parent \in {0} \cup (1..runs) /\ side[a].parent = first[a].parent /\ a \in 1..runs
    BY <1>1, <1>6, <2>1 DEF Ordered, Carried
  <2>4. a \in Linked(side[a].parent)
    BY <1>6, <2>3 DEF Linked
  <2> QED BY <1>4, <1>6, <2>2, <2>3, <2>4
<1> QED BY <1>1, <1>3, <1>5, <1>6 DEF Typed

\* Both together.
LEMMA FoundWhole == IInv => RecordedIsMovable
  BY Moving, Finding DEF RecordedIsMovable

\* A moved tree is read as it was written.
LEMMA Surviving == IInv => TreeSurvives
<1> SUFFICES ASSUME IInv, hops > 0
             PROVE  /\ Tree.ok /\ DOMAIN Tree.tree = DOMAIN first
                    /\ \A b \in DOMAIN first :
                          /\ Tree.tree[b].parent = first[b].parent
                          /\ Tree.tree[b].call = first[b].call \/ first[b].call = "none"
  BY DEF TreeSurvives
<1>1. Typed /\ Carried
  BY DEF IInv
<1>2. DOMAIN first = 1..runs /\ Ordered(first)
  BY <1>1 DEF Typed, Carried
<1>3. TreeRead
  BY TreeIsRead
<1>4. Tree.ok /\ DOMAIN Tree.tree = 1..runs
  <2>1. CASE home # "opencode"
    BY <1>3, <2>1 DEF TreeRead
  <2>2. CASE home = "opencode"
    <3>1. Tree.ok
      <4>1. ~Astray
        BY DEF Astray, Linked
      <4> QED BY <1>1, <2>2, <4>1, OpenCodeTree
    <3>2. \A s \in {0} \cup DOMAIN Tree.tree : Linked(s) \subseteq DOMAIN Tree.tree
      BY <1>1, <2>2, <3>1, OpenCodeTree
    <3> DEFINE B == (1..runs) \ DOMAIN Tree.tree
    <3>3. B = {}
      <4> SUFFICES ASSUME B # {} PROVE FALSE
        OBVIOUS
      <4>1. PICK a \in B : first[a].parent \notin B
        BY <1>2 DEF Ordered
      <4>2. first[a].parent \in {0} \cup (1..runs) /\ side[a].parent = first[a].parent /\ a \in 1..runs
        BY <1>1, <1>2 DEF Ordered, Carried
      <4>3. a \in Linked(side[a].parent)
        BY <4>2 DEF Linked
      <4> QED BY <3>2, <4>1, <4>2, <4>3
    <3> QED BY <1>3, <3>1, <3>3 DEF TreeRead
  <2> QED BY <2>1, <2>2
<1>5. ASSUME NEW b \in 1..runs
      PROVE  /\ Tree.tree[b].parent = first[b].parent
             /\ Tree.tree[b].call = first[b].call \/ first[b].call = "none"
  <2>1. MovedLink(b, Tree.tree[b])
    BY <1>3, <1>4 DEF TreeRead
  <2>2. /\ side[b].parent = first[b].parent
        /\ side[b].call = first[b].call \/ first[b].call = "none"
    BY <1>1 DEF Carried
  <2> QED BY <2>1, <2>2 DEF MovedLink
<1> QED BY <1>2, <1>4, <1>5

-----------------------------------------------------------------------------
(* The invariant is kept.                                                    *)

\* A call is added behind those there are.
LEMMA CallAdded ==
    ASSUME Typed, NEW r, calls' = Append(calls, r), NEW n \in Nat, NEW S,
           CallRecs \subseteq S, r \in S
    PROVE  /\ calls' \in Seq(S) /\ Len(calls') = Len(calls) + 1 /\ Len(calls) \in Nat
           /\ DOMAIN calls' = DOMAIN calls \cup {Len(calls) + 1}
           /\ Len(calls) + 1 \notin DOMAIN calls
           /\ calls'[Len(calls) + 1] = r
           /\ \A i \in DOMAIN calls : calls'[i] = calls[i]
<1>1. calls \in Seq(S)
  <2>1. calls \in Seq(CallRecs)
    BY DEF Typed
  <2> HIDE DEF CallRecs
  <2>2. calls \in [1..Len(calls) -> CallRecs] /\ Len(calls) \in Nat
    BY <2>1
  <2>3. calls \in [1..Len(calls) -> S]
    BY <2>2
  <2> QED BY <2>2, <2>3
<1>2. /\ calls' \in Seq(S) /\ Len(calls') = Len(calls) + 1
      /\ \A i \in 1..Len(calls) : calls'[i] = calls[i]
      /\ calls'[Len(calls) + 1] = r
  BY <1>1, AppendProperties
<1>3. Len(calls) \in Nat /\ DOMAIN calls = 1..Len(calls) /\ DOMAIN calls' = 1..Len(calls')
  BY <1>1, <1>2, LenProperties
<1> QED BY <1>2, <1>3

\* Nothing is recorded at first.
LEMMA IInvAtFirst == Init => IInv
<1> SUFFICES ASSUME Init PROVE IInv
  OBVIOUS
<1>1. /\ home \in Homes /\ origin = home /\ runs = 0 /\ calls = <<>> /\ side = <<>>
      /\ first = <<>> /\ hops = 0 /\ refused = FALSE
  BY DEF Init
<1>2. 1..runs = {} /\ DOMAIN calls = {} /\ Len(calls) = 0 /\ calls \in Seq(CallRecs)
  BY <1>1, EmptySeq
<1>3. side \in [1..runs -> Sides]
  BY <1>1, <1>2
<1>4. Typed
  <2>1. MaxRuns \in Nat /\ MaxCalls \in Nat
    BY DelegationAssumption
  <2>2. 0 \in 0..MaxRuns /\ 0 <= MaxCalls
    BY <2>1
  <2> QED BY <1>1, <1>2, <1>3, <2>2 DEF Typed
<1>5. Spawned /\ Numbered /\ Naming /\ Recorded
  BY <1>2 DEF Spawned, Numbered, Naming, Recorded
<1>6. Carried
  BY <1>1 DEF Carried
<1> QED BY <1>4, <1>5, <1>6 DEF IInv

\* A call that starts n runs starts n.
LEMMA NewRuns ==
    ASSUME NEW u \in Nat, NEW n \in Nat \ {0}
    PROVE  Cardinality((u + 1)..(u + n)) = n
<1>1. u + 1 \in Int /\ u + n \in Int /\ ~(u + 1 > u + n) /\ (u + n) - (u + 1) + 1 = n
  OBVIOUS
<1>2. Cardinality((u + 1)..(u + n)) = (u + n) - (u + 1) + 1
  BY <1>1, FS_Interval
<1> QED BY <1>1, <1>2

\* What a call that starts runs adds to the state.
Added(s, c, n, noted, m) ==
    /\ runs \in Nat /\ runs' = runs + n /\ runs' \in 0..MaxRuns
    /\ calls' \in Seq(CallRecs') /\ Len(calls') <= MaxCalls
    /\ m \notin DOMAIN calls /\ DOMAIN calls' = DOMAIN calls \cup {m}
    /\ \A i \in DOMAIN calls : calls'[i] = calls[i] /\ i < m
    /\ calls'[m].stream = s /\ calls'[m].id = c /\ calls'[m].swarm = (n > 1)
    /\ calls'[m].starts = (runs + 1)..(runs + n)
    /\ calls'[m].says \subseteq (runs + 1)..(runs + n)
    /\ side' \in [1..runs' -> Sides']
    /\ \A b \in 1..runs : side'[b] = side[b]
    /\ \A k \in 1..n : side'[runs + k] = Beside(s, c, noted, IF n > 1 THEN k ELSE 0)

\* A call that starts runs adds them, and itself, to the records.
LEMMA RunsAdded ==
    ASSUME Typed, NEW s \in 0..runs, NEW c \in CallIds, NEW n \in 1..2, NEW noted \in BOOLEAN,
           NEW answered \in BOOLEAN, Delegate(s, c, n, noted, answered)
    PROVE  Added(s, c, n, noted, Len(calls) + 1)
<1> DEFINE new == (runs + 1)..(runs + n)
           m == Len(calls) + 1
           r == [stream |-> s, id |-> c, starts |-> new, swarm |-> n > 1,
                 says |-> IF answered THEN new ELSE {}]
           row == [k \in 1..n |-> Beside(s, c, noted, IF n > 1 THEN k ELSE 0)]
<1>1. /\ Len(calls) < MaxCalls /\ runs + n <= MaxRuns /\ runs' = runs + n
      /\ calls' = Append(calls, r) /\ side' = side \o row
  BY DEF Delegate
<1>2. runs \in Nat /\ MaxRuns \in Nat /\ MaxCalls \in Nat
  BY DelegationAssumption DEF Typed
<1>3. runs' \in 0..MaxRuns /\ runs' \in Nat /\ new \in SUBSET (1..runs') /\ 0..runs \subseteq 0..runs'
      /\ 1..runs \subseteq 1..runs'
  BY <1>1, <1>2
<1>4. /\ r \in CallRecs' /\ r.stream = s /\ r.id = c /\ r.swarm = (n > 1) /\ r.starts = new
      /\ r.says \subseteq new
  <2>1. (n > 1) \in BOOLEAN /\ (IF answered THEN new ELSE {}) \in SUBSET (1..runs') /\ s \in 0..runs'
    BY <1>3
  <2>2. (IF answered THEN new ELSE {}) \subseteq new
    OBVIOUS
  <2> HIDE DEF new
  <2> QED BY <1>3, <2>1, <2>2 DEF CallRecs
<1>5. CallRecs \subseteq CallRecs'
  BY <1>3 DEF CallRecs
<1> HIDE DEF r
<1>6. /\ calls' \in Seq(CallRecs') /\ Len(calls') = Len(calls) + 1 /\ Len(calls) \in Nat
      /\ DOMAIN calls' = DOMAIN calls \cup {m} /\ m \notin DOMAIN calls
      /\ calls'[m] = r
      /\ \A i \in DOMAIN calls : calls'[i] = calls[i]
  <2> HIDE DEF CallRecs
  <2>1. n \in Nat
    OBVIOUS
  <2> QED BY <1>1, <1>4, <1>5, <2>1, CallAdded
<1>7. \A i \in DOMAIN calls : i < m
  BY <1>6 DEF Typed
<1>8. Len(calls') <= MaxCalls
  BY <1>1, <1>2, <1>6
<1>9. Sides \subseteq Sides'
  BY <1>3 DEF Sides
<1>10. row \in Seq(Sides') /\ Len(row) = n /\ n \in Nat
  <2>1. \A k \in 1..n : Beside(s, c, noted, IF n > 1 THEN k ELSE 0) \in Sides'
    <3> SUFFICES ASSUME NEW k \in 1..n PROVE Beside(s, c, noted, IF n > 1 THEN k ELSE 0) \in Sides'
      OBVIOUS
    <3>1. (IF n > 1 THEN k ELSE 0) \in Nat
      OBVIOUS
    <3>2. s \in 0..runs' /\ 0 \in 0..runs'
      BY <1>3
    <3> QED BY <3>1, <3>2 DEF Beside, Sides
  <2>2. row \in [1..n -> Sides']
    BY <2>1
  <2>3. row \in Seq(Sides')
    BY <2>2
  <2>4. DOMAIN row = 1..n /\ n \in Nat
    OBVIOUS
  <2> HIDE DEF row
  <2> QED BY <2>3, <2>4, LenProperties
<1>11. side \in Seq(Sides') /\ Len(side) = runs
  <2>1. side \in [1..runs -> Sides'] /\ DOMAIN side = 1..runs
    BY <1>9 DEF Typed
  <2>2. side \in Seq(Sides')
    BY <1>2, <2>1
  <2> QED BY <1>2, <2>1, <2>2, LenProperties
<1>12. \A k \in 1..n : row[k] = Beside(s, c, noted, IF n > 1 THEN k ELSE 0)
  OBVIOUS
<1> HIDE DEF row
<1>13. /\ side' \in Seq(Sides') /\ Len(side') = runs + Len(row)
       /\ \A k \in 1..runs : side'[k] = side[k]
       /\ \A k \in 1..Len(row) : side'[runs + k] = row[k]
  <2> DEFINE S == Sides'
  <2>1. side \in Seq(S) /\ row \in Seq(S) /\ runs = Len(side) /\ side' = side \o row
    BY <1>1, <1>10, <1>11
  <2> HIDE DEF S
  <2>2. /\ side' \in Seq(S) /\ Len(side') = runs + Len(row)
        /\ \A k \in 1..runs : side'[k] = side[k]
        /\ \A k \in 1..Len(row) : side'[runs + k] = row[k]
    BY <2>1, Joined
  <2> QED BY <2>2 DEF S
<1>14. side' \in [1..runs' -> Sides']
  <2> DEFINE S == Sides'
  <2>1. side' \in Seq(S) /\ Len(side') = runs'
    BY <1>1, <1>10, <1>13
  <2> HIDE DEF S
  <2>2. side' \in [1..runs' -> S]
    BY <2>1
  <2> QED BY <2>2 DEF S
<1>15. \A k \in 1..n : side'[runs + k] = Beside(s, c, noted, IF n > 1 THEN k ELSE 0)
  BY <1>10, <1>12, <1>13
<1> QED BY <1>1, <1>2, <1>3, <1>4, <1>6, <1>7, <1>8, <1>10, <1>13, <1>14, <1>15 DEF Added

\* A call that starts runs keeps the invariant: its runs and its number are new.
LEMMA DelegateKeeps ==
    ASSUME IInv, NEW s \in 0..runs, NEW c \in CallIds, NEW n \in 1..2, NEW noted \in BOOLEAN,
           NEW answered \in BOOLEAN, Delegate(s, c, n, noted, answered)
    PROVE  IInv'
<1> DEFINE m == Len(calls) + 1
           new == (runs + 1)..(runs + n)
<1>1. Typed /\ Spawned /\ Numbered /\ Naming /\ Recorded
  BY DEF IInv
<1>2. /\ runs \in Nat /\ runs' = runs + n /\ runs' \in 0..MaxRuns
      /\ calls' \in Seq(CallRecs') /\ Len(calls') <= MaxCalls
      /\ m \notin DOMAIN calls /\ DOMAIN calls' = DOMAIN calls \cup {m}
      /\ \A i \in DOMAIN calls : calls'[i] = calls[i] /\ i < m
      /\ calls'[m].stream = s /\ calls'[m].id = c /\ calls'[m].swarm = (n > 1)
      /\ calls'[m].starts = new /\ calls'[m].says \subseteq new
      /\ side' \in [1..runs' -> Sides']
      /\ \A b \in 1..runs : side'[b] = side[b]
      /\ \A k \in 1..n : side'[runs + k] = Beside(s, c, noted, IF n > 1 THEN k ELSE 0)
  <2>1. Added(s, c, n, noted, m)
    BY <1>1, RunsAdded
  <2> QED BY <2>1 DEF Added
<1>3. /\ hops = 0 /\ hops' = 0 /\ refused' \in BOOLEAN /\ home' = home /\ origin' = origin
      /\ first' = first /\ home = origin /\ Fresh(s, c)
      /\ home \in Homes /\ first = <<>> /\ hops \in Nat
      /\ (noted => home # "opencode" /\ n = 1) /\ (n > 1 => home = "kimi")
  BY <1>1 DEF Delegate, Recording, Typed
<1> HIDE DEF m
<1>4. \A i \in DOMAIN calls : /\ calls[i].starts \in SUBSET (1..runs) /\ calls[i].says \in SUBSET (1..runs)
                              /\ calls[i].stream \in 0..runs
  BY <1>1, CallIs
<1>5. new \cap (1..runs) = {} /\ 1..runs' = (1..runs) \cup new /\ \A b \in new : s < b /\ b \in 1..runs'
  BY <1>2
<1> HIDE DEF new
<1>6. \A i \in DOMAIN calls' : i \in DOMAIN calls \/ i = m
  BY <1>2
<1>7. Typed'
  <2>1. /\ home' \in Homes /\ origin' \in Homes /\ hops' \in Nat /\ refused' \in BOOLEAN
        /\ home' = origin' /\ first' = <<>>
    BY <1>3
  <2>2. ~(hops' > 0)
    BY <1>3
  <2> QED BY <1>2, <2>1, <2>2 DEF Typed
<1>8. Spawned'
  <2>1. \A b \in 1..runs' : \E i \in DOMAIN calls' : b \in calls'[i].starts
    <3> SUFFICES ASSUME NEW b \in 1..runs' PROVE \E i \in DOMAIN calls' : b \in calls'[i].starts
      OBVIOUS
    <3>1. CASE b \in new
      BY <1>2, <3>1
    <3>2. CASE b \in 1..runs
      <4>1. PICK i \in DOMAIN calls : b \in calls[i].starts
        BY <1>1, <3>2 DEF Spawned
      <4> QED BY <1>2, <4>1
    <3> QED BY <1>5, <3>1, <3>2
  <2>2. ASSUME NEW i \in DOMAIN calls', NEW j \in DOMAIN calls', NEW b \in calls'[i].starts,
               b \in calls'[j].starts
        PROVE  i = j
    <3>1. CASE i = m /\ j = m
      BY <3>1
    <3>2. CASE i \in DOMAIN calls /\ j \in DOMAIN calls
      BY <1>1, <1>2, <2>2, <3>2 DEF Spawned
    <3>3. CASE i = m /\ j \in DOMAIN calls
      BY <1>2, <1>4, <1>5, <2>2, <3>3
    <3>4. CASE i \in DOMAIN calls /\ j = m
      BY <1>2, <1>4, <1>5, <2>2, <3>4
    <3> QED BY <1>6, <3>1, <3>2, <3>3, <3>4
  <2>3. ASSUME NEW i \in DOMAIN calls', NEW b \in calls'[i].starts PROVE calls'[i].stream < b
    <3>1. CASE i = m
      BY <1>2, <1>5, <3>1
    <3>2. CASE i \in DOMAIN calls
      BY <1>1, <1>2, <3>2 DEF Spawned
    <3> QED BY <1>6, <3>1, <3>2
  <2> QED BY <2>1, <2>2, <2>3 DEF Spawned
<1>9. Numbered'
  <2>1. \A i \in DOMAIN calls : calls[i].id = c => origin # "claude" /\ calls[i].stream # s
    BY <1>3 DEF Fresh
  <2>2. ASSUME NEW i \in DOMAIN calls', NEW j \in DOMAIN calls', calls'[i].id = calls'[j].id,
               origin' = "claude" \/ calls'[i].stream = calls'[j].stream
        PROVE  i = j
    <3>1. CASE i = m /\ j = m
      BY <3>1
    <3>2. CASE i \in DOMAIN calls /\ j \in DOMAIN calls
      BY <1>1, <1>2, <1>3, <2>2, <3>2 DEF Numbered
    <3>3. CASE i = m /\ j \in DOMAIN calls
      BY <1>2, <1>3, <2>1, <2>2, <3>3
    <3>4. CASE i \in DOMAIN calls /\ j = m
      BY <1>2, <1>3, <2>1, <2>2, <3>4
    <3> QED BY <1>6, <3>1, <3>2, <3>3, <3>4
  <2> QED BY <2>2 DEF Numbered
<1>10. Naming'
  <2>1. ASSUME NEW i \in DOMAIN calls', NEW j \in DOMAIN calls', NEW b \in calls'[i].says,
               b \in calls'[j].starts
        PROVE  /\ origin' # "claude" => j <= i
               /\ origin' \in {"kimi", "legacy"} => calls'[i].stream = calls'[j].stream
               /\ origin' = "codex" => i = j
    <3>1. CASE i = m /\ j = m
      <4>1. m \in Nat
        BY <1>1 DEF Typed, m
      <4> QED BY <3>1, <4>1
    <3>2. CASE i \in DOMAIN calls /\ j \in DOMAIN calls
      BY <1>1, <1>2, <1>3, <2>1, <3>2 DEF Naming
    <3>3. CASE i = m /\ j \in DOMAIN calls
      BY <1>2, <1>4, <1>5, <2>1, <3>3
    <3>4. CASE i \in DOMAIN calls /\ j = m
      BY <1>2, <1>4, <1>5, <2>1, <3>4
    <3> QED BY <1>6, <3>1, <3>2, <3>3, <3>4
  <2> QED BY <2>1 DEF Naming
<1>11. Recorded'
  <2>1. ASSUME NEW i \in DOMAIN calls', NEW b \in calls'[i].starts
        PROVE  RecordedBeside(b, i)'
    <3>1. CASE i \in DOMAIN calls
      <4>1. RecordedBeside(b, i) /\ b \in 1..runs
        BY <1>1, <1>2, <1>3, <1>4, <3>1 DEF Recorded
      <4> QED BY <1>2, <1>3, <3>1, <4>1 DEF RecordedBeside
    <3>2. CASE i = m
      <4> DEFINE k == b - runs
      <4>1. k \in 1..n /\ runs + k = b
        BY <1>2, <3>2 DEF new
      <4>2. side'[b] = Beside(s, c, noted, IF n > 1 THEN k ELSE 0)
        <5> HIDE DEF k
        <5> QED BY <1>2, <4>1
      <4>3. /\ side'[b].parent = IF home \in {"codex", "kimi", "opencode"} \/ (home = "legacy" /\ noted)
                                 THEN s ELSE 0
            /\ side'[b].call = IF noted THEN c ELSE "none"
            /\ side'[b].label = IF n > 1 THEN k ELSE 0
        BY <4>2 DEF Beside
      <4>4. Cardinality(new) = n
        BY <1>2, NewRuns DEF new
      <4>5. side'[b].label = 0 \/ (calls'[m].swarm /\ side'[b].label <= Cardinality(calls'[m].starts))
        <5>1. CASE n = 1
          BY <4>3, <5>1
        <5>2. CASE n > 1
          <6>1. side'[b].label = k /\ k <= n
            BY <4>1, <4>3, <5>2
          <6> HIDE DEF k
          <6> QED BY <1>2, <4>4, <5>2, <6>1
        <5> QED BY <5>1, <5>2
      <4> HIDE DEF k
      <4>6. /\ side'[b].call \in {"none", calls'[m].id}
            /\ side'[b].parent \in {0, calls'[m].stream}
        BY <1>2, <4>3
      <4>7. /\ home' \in {"codex", "kimi", "opencode"} => side'[b].parent = calls'[m].stream
            /\ home' = "claude" => side'[b].parent = 0
            /\ home' = "legacy" /\ side'[b].call # "none" => side'[b].parent = calls'[m].stream
            /\ home' = "opencode" => side'[b].call = "none"
        BY <1>2, <1>3, <4>3
      <4> QED BY <3>2, <4>5, <4>6, <4>7 DEF RecordedBeside
    <3> QED BY <1>6, <3>1, <3>2
  <2> QED BY <2>1 DEF Recorded
<1>12. Carried'
  BY <1>3 DEF Carried
<1> QED BY <1>7, <1>8, <1>9, <1>10, <1>11, <1>12 DEF IInv

\* A call to a run that exists keeps it: it starts none.
LEMMA ResumeKeeps ==
    ASSUME IInv, NEW s \in 0..runs, NEW c \in CallIds, NEW b \in 1..runs, Resume(s, c, b)
    PROVE  IInv'
<1> DEFINE m == Len(calls) + 1
           r == [stream |-> s, id |-> c, starts |-> {}, swarm |-> FALSE,
                 says |-> IF home = "codex" THEN {} ELSE {b}]
<1>1. Typed /\ Spawned /\ Numbered /\ Naming /\ Recorded
  BY DEF IInv
<1>2. /\ hops = 0 /\ hops' = 0 /\ home' = home /\ origin' = origin /\ runs' = runs /\ side' = side
      /\ first' = first /\ home = origin /\ Fresh(s, c) /\ Len(calls) < MaxCalls
      /\ home \in Homes /\ first = <<>> /\ hops \in Nat /\ refused' = refused
      /\ home \in {"kimi", "legacy"} => \E i \in CallsOf(s) : b \in calls[i].starts
      /\ calls' = Append(calls, r)
  BY <1>1 DEF Resume, Recording, Typed
<1>3. r \in CallRecs /\ r.stream = s /\ r.id = c /\ r.starts = {} /\ r.says = IF home = "codex" THEN {} ELSE {b}
  BY DEF CallRecs
<1> HIDE DEF r
<1>4. /\ calls' \in Seq(CallRecs) /\ Len(calls') = Len(calls) + 1 /\ Len(calls) \in Nat
      /\ DOMAIN calls' = DOMAIN calls \cup {m} /\ m \notin DOMAIN calls
      /\ calls'[m] = r
      /\ \A i \in DOMAIN calls : calls'[i] = calls[i]
  <2>1. 0 \in Nat /\ CallRecs \subseteq CallRecs
    OBVIOUS
  <2> HIDE DEF CallRecs
  <2> QED BY <1>1, <1>2, <1>3, <2>1, CallAdded
<1>5. \A i \in DOMAIN calls : i < m /\ i \in Nat
  BY <1>1, <1>4 DEF Typed
<1> HIDE DEF m
<1>6. \A i \in DOMAIN calls' : i \in DOMAIN calls \/ i = m
  BY <1>4
<1>7. CallRecs' = CallRecs /\ Sides' = Sides /\ Links' = Links
  BY <1>2 DEF CallRecs, Sides, Links
<1>8. Typed'
  <2>1. MaxCalls \in Nat /\ Len(calls') <= MaxCalls
    BY <1>2, <1>4, DelegationAssumption
  <2> QED BY <1>1, <1>2, <1>4, <1>7, <2>1 DEF Typed
<1>9. Spawned'
  <2>1. \A i \in DOMAIN calls' : \A a \in calls'[i].starts : i \in DOMAIN calls /\ a \in calls[i].starts
    BY <1>3, <1>4, <1>6
  <2>2. \A a \in 1..runs' : \E i \in DOMAIN calls' : a \in calls'[i].starts
    BY <1>1, <1>2, <1>4 DEF Spawned
  <2>3. \A i, j \in DOMAIN calls' : \A a \in calls'[i].starts : a \in calls'[j].starts => i = j
    BY <1>1, <2>1 DEF Spawned
  <2>4. \A i \in DOMAIN calls' : \A a \in calls'[i].starts : calls'[i].stream < a
    BY <1>1, <1>4, <2>1 DEF Spawned
  <2> QED BY <2>2, <2>3, <2>4 DEF Spawned
<1>10. Numbered'
  <2>1. \A i \in DOMAIN calls : calls[i].id = c => origin # "claude" /\ calls[i].stream # s
    BY <1>2 DEF Fresh
  <2>2. ASSUME NEW i \in DOMAIN calls', NEW j \in DOMAIN calls', calls'[i].id = calls'[j].id,
               origin' = "claude" \/ calls'[i].stream = calls'[j].stream
        PROVE  i = j
    <3>1. CASE i = m /\ j = m
      BY <3>1
    <3>2. CASE i \in DOMAIN calls /\ j \in DOMAIN calls
      BY <1>1, <1>2, <1>4, <2>2, <3>2 DEF Numbered
    <3>3. CASE i = m /\ j \in DOMAIN calls
      BY <1>2, <1>3, <1>4, <2>1, <2>2, <3>3
    <3>4. CASE i \in DOMAIN calls /\ j = m
      BY <1>2, <1>3, <1>4, <2>1, <2>2, <3>4
    <3> QED BY <1>6, <3>1, <3>2, <3>3, <3>4
  <2> QED BY <2>2 DEF Numbered
<1>11. Naming'
  <2>1. ASSUME NEW i \in DOMAIN calls', NEW j \in DOMAIN calls', NEW a \in calls'[i].says,
               a \in calls'[j].starts
        PROVE  /\ origin' # "claude" => j <= i
               /\ origin' \in {"kimi", "legacy"} => calls'[i].stream = calls'[j].stream
               /\ origin' = "codex" => i = j
    <3>1. j \in DOMAIN calls /\ a \in calls[j].starts
      BY <1>3, <1>4, <1>6, <2>1
    <3>2. CASE i \in DOMAIN calls
      BY <1>1, <1>2, <1>4, <2>1, <3>1, <3>2 DEF Naming
    <3>3. CASE i = m
      <4>1. a = b /\ origin # "codex"
        BY <1>2, <1>3, <1>4, <2>1, <3>3
      <4>2. j <= i /\ j # i
        BY <1>1, <1>4, <1>5, <3>1, <3>3 DEF Typed, m
      <4>3. origin \in {"kimi", "legacy"} => calls[j].stream = s
        <5> SUFFICES ASSUME origin \in {"kimi", "legacy"} PROVE calls[j].stream = s
          OBVIOUS
        <5>1. PICK i0 \in CallsOf(s) : b \in calls[i0].starts
          BY <1>2
        <5>2. i0 = j
          BY <1>1, <3>1, <4>1, <5>1 DEF Spawned, CallsOf
        <5> QED BY <5>1, <5>2 DEF CallsOf
      <4> QED BY <1>2, <1>3, <1>4, <3>1, <3>3, <4>1, <4>2, <4>3
    <3> QED BY <1>6, <3>2, <3>3
  <2> QED BY <2>1 DEF Naming
<1>12. Recorded'
  <2>1. ASSUME NEW i \in DOMAIN calls', NEW a \in calls'[i].starts
        PROVE  RecordedBeside(a, i)'
    <3>1. i \in DOMAIN calls /\ a \in calls[i].starts /\ calls'[i] = calls[i]
      BY <1>3, <1>4, <1>6, <2>1
    <3>2. RecordedBeside(a, i)
      BY <1>1, <1>2, <3>1 DEF Recorded
    <3> QED BY <1>2, <3>1, <3>2 DEF RecordedBeside
  <2> QED BY <2>1 DEF Recorded
<1>13. Carried'
  BY <1>2 DEF Carried
<1> QED BY <1>8, <1>9, <1>10, <1>11, <1>12, <1>13 DEF IInv

\* A result that quotes an id keeps it: only Claude's may, and they are not believed alone.
LEMMA QuoteKeeps ==
    ASSUME IInv, NEW i \in DOMAIN calls, NEW b \in 1..runs, Quote(i, b)
    PROVE  IInv'
<1>1. Typed /\ Spawned /\ Numbered /\ Naming /\ Recorded
  BY DEF IInv
<1>2. /\ hops = 0 /\ hops' = 0 /\ home' = home /\ origin' = origin /\ runs' = runs /\ side' = side
      /\ first' = first /\ origin = "claude" /\ refused' = refused
      /\ calls' = [calls EXCEPT ![i].says = @ \cup {b}]
  BY <1>1 DEF Quote, Recording, Typed
<1>3. CallRecs' = CallRecs /\ Sides' = Sides /\ Links' = Links
  BY <1>2 DEF CallRecs, Sides, Links
<1>4. calls \in [1..Len(calls) -> CallRecs] /\ Len(calls) \in Nat /\ DOMAIN calls = 1..Len(calls)
  <2>1. calls \in Seq(CallRecs)
    BY <1>1 DEF Typed
  <2> HIDE DEF CallRecs
  <2> QED BY <2>1
<1>5. [calls[i] EXCEPT !.says = @ \cup {b}] \in CallRecs
  <2>1. calls[i] \in CallRecs
    BY <1>1, CallIs
  <2> QED BY <2>1 DEF CallRecs
<1>6. DOMAIN calls' = DOMAIN calls /\ \A j \in DOMAIN calls :
        /\ calls'[j].stream = calls[j].stream /\ calls'[j].id = calls[j].id
        /\ calls'[j].starts = calls[j].starts /\ calls'[j].swarm = calls[j].swarm
  <2>1. \A j \in DOMAIN calls : j # i => calls'[j] = calls[j]
    BY <1>2
  <2>2. calls'[i] = [calls[i] EXCEPT !.says = @ \cup {b}] /\ calls[i] \in CallRecs
    BY <1>1, <1>2, CallIs
  <2>3. /\ calls'[i].stream = calls[i].stream /\ calls'[i].id = calls[i].id
        /\ calls'[i].starts = calls[i].starts /\ calls'[i].swarm = calls[i].swarm
    BY <2>2 DEF CallRecs
  <2>4. DOMAIN calls' = DOMAIN calls
    BY <1>2
  <2> QED BY <2>1, <2>3, <2>4
<1>7. calls' \in Seq(CallRecs) /\ Len(calls') = Len(calls)
  <2> HIDE DEF CallRecs
  <2>1. calls' \in [1..Len(calls) -> CallRecs]
    BY <1>2, <1>4, <1>5
  <2>2. calls' \in Seq(CallRecs)
    BY <1>4, <2>1
  <2> QED BY <1>4, <2>1, <2>2, LenProperties
<1>8. Typed'
  BY <1>1, <1>2, <1>3, <1>7 DEF Typed
<1>9. Spawned'
  BY <1>1, <1>2, <1>6 DEF Spawned
<1>10. Numbered'
  BY <1>1, <1>2, <1>6 DEF Numbered
<1>11. Naming'
  BY <1>2 DEF Naming
<1>12. Recorded'
  <2>1. ASSUME NEW j \in DOMAIN calls', NEW a \in calls'[j].starts
        PROVE  RecordedBeside(a, j)'
    <3>1. RecordedBeside(a, j)
      BY <1>1, <1>2, <1>6, <2>1 DEF Recorded
    <3> QED BY <1>2, <1>6, <2>1, <3>1 DEF RecordedBeside
  <2> QED BY <2>1 DEF Recorded
<1>13. Carried'
  BY <1>2 DEF Carried
<1> QED BY <1>8, <1>9, <1>10, <1>11, <1>12, <1>13 DEF IInv

\* A move keeps it: what it leaves beside a run is the link that was read.
LEMMA MoveKeeps ==
    ASSUME IInv, NEW a \in Homes, Move(a)
    PROVE  IInv'
<1> DEFINE t == Tree.tree
<1>1. Typed /\ Spawned /\ Numbered /\ Naming /\ Recorded /\ Carried
  BY DEF IInv
<1>2. /\ Movable /\ DOMAIN t = 1..runs /\ home' = a /\ side' = Sidecars(t)
      /\ first' = IF hops = 0 THEN t ELSE first
      /\ hops' = hops + 1 /\ origin' = origin /\ runs' = runs /\ calls' = calls /\ refused' = refused
  BY DEF Move
<1>3. hops \in Nat /\ hops' \in Nat /\ hops' > 0 /\ ~(hops' = 0) /\ (hops = 0 \/ hops > 0)
  BY <1>1, <1>2 DEF Typed
<1>4. t = [b \in 1..runs |-> t[b]]
      /\ \A b \in 1..runs : (hops = 0 => FirstLink(b, t[b])) /\ (hops > 0 => MovedLink(b, t[b]))
  BY <1>2, TreeIsRead DEF TreeRead
<1>5. Ordered(t)
  BY <1>2 DEF Movable
<1>6. TreeSurvives
  BY Surviving
<1> HIDE DEF t
<1>7. \A b \in 1..runs : t[b] \in Links /\ Owned(t[b]) /\ Silent(b, t[b])
  BY <1>3, <1>4 DEF FirstLink, MovedLink
<1>8. /\ side' = [b \in 1..runs |-> [parent |-> t[b].parent, call |-> t[b].call, label |-> 0]]
      /\ \A b \in 1..runs : /\ side'[b].parent = t[b].parent /\ side'[b].call = t[b].call
                            /\ side'[b].label = 0
  BY <1>2 DEF Sidecars
<1>9. \A b \in 1..runs : side'[b] = [parent |-> t[b].parent, call |-> t[b].call, label |-> 0]
  BY <1>8
<1>10. CallRecs' = CallRecs /\ Sides' = Sides /\ Links' = Links
  BY <1>2 DEF CallRecs, Sides, Links
<1>11. side' \in [1..runs -> Sides]
  BY <1>7, <1>8 DEF Links, Sides
<1>12. first' \in [1..runs -> Links]
  <2>1. CASE hops = 0
    BY <1>2, <1>4, <1>7, <2>1
  <2>2. CASE hops > 0
    BY <1>1, <1>2, <2>2 DEF Typed
  <2> QED BY <1>3, <2>1, <2>2
<1>13. Typed'
  BY <1>1, <1>2, <1>3, <1>10, <1>11, <1>12 DEF Typed
<1>14. Spawned' /\ Numbered' /\ Naming'
  BY <1>1, <1>2 DEF Spawned, Numbered, Naming
<1>15. Recorded'
  BY <1>3 DEF Recorded
<1>16. Carried'
  <2>1. Ordered(first')
    BY <1>1, <1>2, <1>3, <1>5 DEF Carried
  <2>2. ASSUME NEW b \in 1..runs
        PROVE  /\ side'[b].parent = first'[b].parent
               /\ side'[b].call = first'[b].call \/ first'[b].call = "none"
    <3>1. CASE hops = 0
      BY <1>2, <1>8, <3>1
    <3>2. CASE hops > 0
      <4>1. /\ t[b].parent = first[b].parent
            /\ t[b].call = first[b].call \/ first[b].call = "none"
        BY <1>1, <1>6, <3>2 DEF TreeSurvives, Typed, t
      <4> QED BY <1>2, <1>8, <3>2, <4>1
    <3> QED BY <1>3, <3>1, <3>2
  <2>3. ASSUME NEW b \in 1..runs PROVE Owned(side[b])'
    <3>1. Owned(t[b])
      BY <1>7
    <3> QED BY <1>2, <1>8, <3>1 DEF Owned, CallsOf
  <2>4. ASSUME NEW b \in 1..runs PROVE Silent(b, side[b])'
    <3>1. Silent(b, t[b])
      BY <1>7
    <3>2. TokenLinks(b)' = TokenLinks(b) /\ \A i \in DOMAIN calls : Names(i, b)' = Names(i, b)
      BY <1>2 DEF TokenLinks, Names
    <3> QED BY <1>2, <1>8, <3>1, <3>2 DEF Silent, Names
  <2>5. Ordered(first)'
    BY <2>1 DEF Ordered
  <2> QED BY <1>2, <1>8, <2>2, <2>3, <2>4, <2>5 DEF Carried
<1> QED BY <1>13, <1>14, <1>15, <1>16 DEF IInv

\* A step that leaves all but the refusal alone.
LEMMA AsideKeeps ==
    ASSUME IInv, UNCHANGED <<home, origin, runs, calls, side, first, hops>>, refused' \in BOOLEAN
    PROVE  IInv'
<1>1. Typed'
  BY DEF IInv, Typed, CallRecs, Sides, Links
<1>2. Spawned' /\ Numbered' /\ Naming'
  BY DEF IInv, Spawned, Numbered, Naming
<1>3. Recorded'
  BY DEF IInv, Recorded, RecordedBeside
<1>4. Carried'
  <2>1. Ordered(first)' <=> Ordered(first)
    BY DEF Ordered
  <2>2. \A b : Owned(side[b])' <=> Owned(side[b])
    BY DEF Owned, CallsOf
  <2>3. \A b : TokenLinks(b)' = TokenLinks(b)
    BY DEF TokenLinks, Names
  <2>4. \A b : Silent(b, side[b])' <=> Silent(b, side[b])
    BY <2>3 DEF Silent, Names
  <2> QED BY <2>1, <2>2, <2>4 DEF IInv, Carried
<1> QED BY <1>1, <1>2, <1>3, <1>4 DEF IInv

\* Every step keeps the invariant.
LEMMA StepKeeps == IInv /\ [Next]_vars => IInv'
<1> SUFFICES ASSUME IInv, [Next]_vars PROVE IInv'
  OBVIOUS
<1>1. ASSUME NEW s \in 0..runs, NEW c \in CallIds, NEW n \in 1..2, NEW noted \in BOOLEAN,
             NEW answered \in BOOLEAN, Delegate(s, c, n, noted, answered)
      PROVE  IInv'
  BY <1>1, DelegateKeeps
<1>2. ASSUME NEW s \in 0..runs, NEW c \in CallIds, NEW b \in 1..runs, Resume(s, c, b)
      PROVE  IInv'
  BY <1>2, ResumeKeeps
<1>3. ASSUME NEW i \in DOMAIN calls, NEW b \in 1..runs, Quote(i, b)
      PROVE  IInv'
  BY <1>3, QuoteKeeps
<1>4. ASSUME NEW a \in Homes, Move(a)
      PROVE  IInv'
  BY <1>4, MoveKeeps
<1>5. CASE Refuse
  BY <1>5, AsideKeeps DEF Refuse
<1>6. CASE UNCHANGED vars
  <2>1. refused' \in BOOLEAN
    BY <1>6 DEF vars, IInv, Typed
  <2> QED BY <1>6, <2>1, AsideKeeps DEF vars
<1> QED BY <1>1, <1>2, <1>3, <1>4, <1>5, <1>6 DEF Next

-----------------------------------------------------------------------------
(* The theorems.                                                             *)

(* In every session, recorded and moved in any way: the calls and what is    *)
(* recorded beside the runs are as the harness that recorded them leaves     *)
(* them, and after a move beside each run is its link in the tree that was   *)
(* first read.                                                               *)
THEOREM LinksAreRecorded == Spec => []IInv
<1>1. Init => IInv
  BY IInvAtFirst
<1>2. IInv /\ [Next]_vars => IInv'
  BY StepKeeps
<1> QED BY <1>1, <1>2, PTL DEF Spec

(* Type correctness: runs, calls and what stands beside the runs are as many *)
(* as there may be, and a moved session's first tree links runs.             *)
THEOREM DelegationTyped == Spec => []TypeOK
<1>1. IInv => TypeOK
  <2> SUFFICES ASSUME IInv PROVE TypeOK
    OBVIOUS
  <2>1. /\ {home, origin} \subseteq Homes /\ runs \in 0..MaxRuns
        /\ DOMAIN side = 1..runs /\ Len(calls) <= MaxCalls
    BY DEF IInv, Typed
  <2>2. 0..runs \subseteq 0..MaxRuns
    BY <2>1, DelegationAssumption
  <2>3. \A b \in DOMAIN first : first[b] \in Link
    <3>1. CASE hops = 0
      <4>1. DOMAIN first = {}
        BY <3>1 DEF IInv, Typed
      <4> QED BY <4>1
    <3>2. CASE hops > 0
      BY <3>2, <2>2 DEF IInv, Typed, Links, Link
    <3>3. hops = 0 \/ hops > 0
      BY DEF IInv, Typed
    <3> QED BY <3>1, <3>2, <3>3
  <2> QED BY <2>1, <2>3 DEF TypeOK
<1> QED BY <1>1, LinksAreRecorded, PTL

(* A run whose spawning call is recorded is attached to that call, or to     *)
(* none, whatever other results name it (branches.go:218).                   *)
THEOREM RunsAreAttached == Spec => []AttachedWhereSpawned
  BY LinksAreRecorded, Attachment, PTL

(* A session whose spawning calls are all recorded is read as one tree and   *)
(* can be moved, and no run that is recorded up to the main thread is left   *)
(* behind (branches.go:27, opencode_branches.go:42).                         *)
THEOREM RecordedTreesMove == Spec => []RecordedIsMovable
  BY LinksAreRecorded, FoundWhole, PTL

(* However often the session is moved, every run keeps its parent and its    *)
(* call, in each target's own records.                                       *)
THEOREM TreesSurviveMoves == Spec => []TreeSurvives
  BY LinksAreRecorded, Surviving, PTL
=============================================================================
