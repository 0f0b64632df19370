-------------------------- MODULE CompactionProofs --------------------------
(***************************************************************************)
(* Theorems about Compaction, for every session, every length of its      *)
(* bodies, every budget and every choice of recent turns.                  *)
(***************************************************************************)
EXTENDS Compaction, TLAPS, FiniteSetTheorems, SequenceTheorems, WellFoundedInduction

-----------------------------------------------------------------------------
(* Numbers. *)

\* A set of naturals has a least member.
LEMMA LeastNumber ==
    ASSUME NEW S \in SUBSET Nat, S # {}
    PROVE  \E low \in S : \A n \in S : low <= n
<1>1. PICK low \in S : \A n \in S : <<n, low>> \notin OpToRel(<, Nat)
  BY NatLessThanWellFounded, WFMin
<1>2. \A n \in S : ~(n < low)
  BY <1>1 DEF OpToRel
<1> QED BY <1>2

\* What holds at the start of a range and from each number to the next holds
\* throughout: else there were a first number where it does not.
LEMMA Stepwise ==
    ASSUME NEW N \in Nat, NEW T, 0 \in T, \A n \in 0..(N - 1) : n \in T => n + 1 \in T
    PROVE  \A n \in 0..N : n \in T
<1> DEFINE S == {n \in 0..N : n \notin T}
<1> SUFFICES ASSUME S # {} PROVE FALSE
  OBVIOUS
<1>1. PICK low \in S : \A n \in S : low <= n
  <2> S \subseteq Nat
    OBVIOUS
  <2> HIDE DEF S
  <2> QED BY LeastNumber
<1>2. low # 0 /\ low \in 0..N
  OBVIOUS
<1>3. low - 1 \in 0..(N - 1) /\ low - 1 \notin S
  BY <1>1, <1>2
<1>4. (low - 1) + 1 \in T
  BY <1>3
<1> QED BY <1>1, <1>2, <1>4

\* The largest of a bounded set of naturals is one of them.
LEMMA MaxIsMember ==
    ASSUME NEW S \in SUBSET Nat, S # {}, NEW N \in Nat, \A n \in S : n <= N
    PROVE  Max(S) \in S /\ \A n \in S : n <= Max(S)
<1> DEFINE B == {u \in Nat : \A n \in S : n <= u}
<1>1. N \in B
  OBVIOUS
<1>2. PICK top \in B : \A u \in B : top <= u
  <2> B \subseteq Nat /\ B # {}
    BY <1>1
  <2> HIDE DEF B
  <2> QED BY LeastNumber
<1>3. top \in S
  <2> SUFFICES ASSUME top \notin S PROVE FALSE
    OBVIOUS
  <2>1. \A n \in S : n < top
    OBVIOUS
  <2>2. PICK x \in S : x < top
    BY <2>1
  <2>3. top - 1 \in Nat /\ \A n \in S : n <= top - 1
    BY <2>1, <2>2
  <2> QED BY <1>2, <2>3
<1>4. \A n \in S : top >= n
  OBVIOUS
<1> QED BY <1>3, <1>4 DEF Max

\* Where a number of a set is at least all of them, it is the largest.
LEMMA MaxIs ==
    ASSUME NEW S \in SUBSET Nat, NEW top \in S, \A n \in S : n <= top
    PROVE  Max(S) = top
<1>1. Max(S) \in S /\ \A n \in S : n <= Max(S)
  BY MaxIsMember
<1>2. Max(S) \in Nat /\ top \in Nat /\ Max(S) <= top /\ top <= Max(S)
  BY <1>1
<1> QED BY <1>2

-----------------------------------------------------------------------------
(* Folds.  FoldLeft gathers from the last member down; each of the two that  *)
(* a rung makes is the end of a chain that starts from the base and takes    *)
(* the members in order.                                                     *)

PartsFolded(r, role, b, q) == FoldLeft(LAMBDA u, p : Reduced(r, role, u, p), b, q)
EventsFolded(r, b, q) == FoldLeft(LAMBDA s, e : ReducedEvent(r, s, e), b, q)

PartChain(r, role, b, n, q, chain) ==
    /\ chain[0] = b
    /\ \A i \in 1..n : chain[i] = Reduced(r, role, chain[i - 1], q[i])
    /\ PartsFolded(r, role, b, q) = chain[n]

\* The parts of an event, one after another (applyReduction's inner loop).
LEMMA PartsInOrder ==
    ASSUME NEW r, NEW role, NEW b, NEW n \in Nat, NEW q, DOMAIN q = 1..n
    PROVE  \E chain : PartChain(r, role, b, n, q, chain)
<1> DEFINE Gathers(k, g) == g = [s \in SUBSET (1..k) |->
               IF s = {} THEN b ELSE Reduced(r, role, g[s \ {Max(s)}], q[Max(s)])]
           T == {k \in 0..n : \E g : Gathers(k, g)}
<1>1. 0 \in T
  <2> DEFINE g == [s \in SUBSET (1..0) |-> b]
  <2>1. 1..0 = {}
    OBVIOUS
  <2>2. Gathers(0, g)
    BY <2>1
  <2>3. \E x : Gathers(0, x)
    <3> HIDE DEF Gathers, g
    <3> QED BY <2>2
  <2>4. 0 \in 0..n
    OBVIOUS
  <2> QED BY <2>3, <2>4
<1>2. ASSUME NEW k \in 0..(n - 1), k \in T PROVE k + 1 \in T
  <2>1. PICK g : Gathers(k, g)
    BY <1>2
  <2> DEFINE up == [s \in SUBSET (1..(k + 1)) |-> IF s \subseteq 1..k THEN g[s]
                      ELSE Reduced(r, role, g[s \ {k + 1}], q[k + 1])]
  <2>2. ASSUME NEW s \in SUBSET (1..(k + 1))
        PROVE  up[s] = IF s = {} THEN b ELSE Reduced(r, role, up[s \ {Max(s)}], q[Max(s)])
    <3>1. CASE s \subseteq 1..k
      <4>1. s \ {Max(s)} \subseteq 1..k
        BY <3>1
      <4>2. up[s] = g[s] /\ up[s \ {Max(s)}] = g[s \ {Max(s)}]
        BY <3>1, <4>1
      <4>3. g[s] = IF s = {} THEN b ELSE Reduced(r, role, g[s \ {Max(s)}], q[Max(s)])
        BY <2>1, <3>1
      <4> QED BY <4>2, <4>3
    <3>2. CASE ~(s \subseteq 1..k)
      <4>1. k + 1 \in s
        BY <3>2
      <4>2. Max(s) = k + 1
        <5>1. s \in SUBSET Nat /\ k + 1 \in s /\ \A m \in s : m <= k + 1
          BY <4>1
        <5> QED BY <5>1, MaxIs
      <4>3. s \ {k + 1} \subseteq 1..k
        OBVIOUS
      <4>4. up[s] = Reduced(r, role, g[s \ {k + 1}], q[k + 1]) /\ up[s \ {k + 1}] = g[s \ {k + 1}]
        BY <3>2, <4>3
      <4> QED BY <4>1, <4>2, <4>4
    <3> QED BY <3>1, <3>2
  <2>3. Gathers(k + 1, up)
    BY <2>2
  <2>4. k + 1 \in 0..n
    OBVIOUS
  <2> QED BY <2>3, <2>4
<1>3. \E g : Gathers(n, g)
  <2>1. n \in T
    <3>1. \A k \in 0..(n - 1) : k \in T => k + 1 \in T
      BY <1>2
    <3> HIDE DEF T
    <3>2. \A k \in 0..n : k \in T
      BY <1>1, <3>1, Stepwise
    <3> QED BY <3>2
  <2> QED BY <2>1
<1> DEFINE it == CHOOSE g : Gathers(n, g)
           chain == [i \in 0..n |-> it[1..i]]
<1>4. Gathers(n, it)
  BY <1>3
<1>5. PartsFolded(r, role, b, q) = it[1..n]
  BY DEF PartsFolded, FoldLeft, MapThenFoldSet
<1>6. chain[0] = b
  <2>1. 1..0 = {} /\ {} \in SUBSET (1..n) /\ 0 \in 0..n
    OBVIOUS
  <2>2. it[{}] = b
    <3> HIDE DEF it
    <3> QED BY <1>4, <2>1
  <2> QED BY <2>1, <2>2
<1>7. ASSUME NEW i \in 1..n PROVE chain[i] = Reduced(r, role, chain[i - 1], q[i])
  <2>1. Max(1..i) = i
    <3>1. 1..i \in SUBSET Nat /\ i \in 1..i /\ \A m \in 1..i : m <= i
      OBVIOUS
    <3> QED BY <3>1, MaxIs
  <2>2. (1..i) \ {i} = 1..(i - 1) /\ i \in 1..i /\ 1..i \subseteq 1..n
    OBVIOUS
  <2>3. it[1..i] = Reduced(r, role, it[1..(i - 1)], q[i])
    <3> HIDE DEF it
    <3> QED BY <1>4, <2>1, <2>2
  <2> QED BY <2>3
<1> HIDE DEF chain, it
<1>8. it[1..n] = chain[n]
  BY DEF chain
<1> QED BY <1>5, <1>6, <1>7, <1>8 DEF PartChain

\* The events of the session, one after another (applyReduction's outer loop).
\* The induction is that of PartsInOrder: an operator is no parameter of a lemma.
LEMMA EventsInOrder ==
    ASSUME NEW r, NEW b, NEW n \in Nat, NEW q, DOMAIN q = 1..n
    PROVE  \E chain :
             /\ chain[0] = b
             /\ \A i \in 1..n : chain[i] = ReducedEvent(r, chain[i - 1], q[i])
             /\ EventsFolded(r, b, q) = chain[n]
<1> DEFINE Gathers(k, g) == g = [s \in SUBSET (1..k) |->
               IF s = {} THEN b ELSE ReducedEvent(r, g[s \ {Max(s)}], q[Max(s)])]
           T == {k \in 0..n : \E g : Gathers(k, g)}
<1>1. 0 \in T
  <2> DEFINE g == [s \in SUBSET (1..0) |-> b]
  <2>1. 1..0 = {}
    OBVIOUS
  <2>2. Gathers(0, g)
    BY <2>1
  <2>3. \E x : Gathers(0, x)
    <3> HIDE DEF Gathers, g
    <3> QED BY <2>2
  <2>4. 0 \in 0..n
    OBVIOUS
  <2> QED BY <2>3, <2>4
<1>2. ASSUME NEW k \in 0..(n - 1), k \in T PROVE k + 1 \in T
  <2>1. PICK g : Gathers(k, g)
    BY <1>2
  <2> DEFINE up == [s \in SUBSET (1..(k + 1)) |-> IF s \subseteq 1..k THEN g[s]
                      ELSE ReducedEvent(r, g[s \ {k + 1}], q[k + 1])]
  <2>2. ASSUME NEW s \in SUBSET (1..(k + 1))
        PROVE  up[s] = IF s = {} THEN b ELSE ReducedEvent(r, up[s \ {Max(s)}], q[Max(s)])
    <3>1. CASE s \subseteq 1..k
      <4>1. s \ {Max(s)} \subseteq 1..k
        BY <3>1
      <4>2. up[s] = g[s] /\ up[s \ {Max(s)}] = g[s \ {Max(s)}]
        BY <3>1, <4>1
      <4>3. g[s] = IF s = {} THEN b ELSE ReducedEvent(r, g[s \ {Max(s)}], q[Max(s)])
        BY <2>1, <3>1
      <4> QED BY <4>2, <4>3
    <3>2. CASE ~(s \subseteq 1..k)
      <4>1. k + 1 \in s
        BY <3>2
      <4>2. Max(s) = k + 1
        <5>1. s \in SUBSET Nat /\ k + 1 \in s /\ \A m \in s : m <= k + 1
          BY <4>1
        <5> QED BY <5>1, MaxIs
      <4>3. s \ {k + 1} \subseteq 1..k
        OBVIOUS
      <4>4. up[s] = ReducedEvent(r, g[s \ {k + 1}], q[k + 1]) /\ up[s \ {k + 1}] = g[s \ {k + 1}]
        BY <3>2, <4>3
      <4> QED BY <4>1, <4>2, <4>4
    <3> QED BY <3>1, <3>2
  <2>3. Gathers(k + 1, up)
    BY <2>2
  <2>4. k + 1 \in 0..n
    OBVIOUS
  <2> QED BY <2>3, <2>4
<1>3. \E g : Gathers(n, g)
  <2>1. n \in T
    <3>1. \A k \in 0..(n - 1) : k \in T => k + 1 \in T
      BY <1>2
    <3> HIDE DEF T
    <3>2. \A k \in 0..n : k \in T
      BY <1>1, <3>1, Stepwise
    <3> QED BY <3>2
  <2> QED BY <2>1
<1> DEFINE it == CHOOSE g : Gathers(n, g)
           chain == [i \in 0..n |-> it[1..i]]
<1>4. Gathers(n, it)
  BY <1>3
<1>5. EventsFolded(r, b, q) = it[1..n]
  BY DEF EventsFolded, FoldLeft, MapThenFoldSet
<1>6. chain[0] = b
  <2>1. 1..0 = {} /\ {} \in SUBSET (1..n) /\ 0 \in 0..n
    OBVIOUS
  <2>2. it[{}] = b
    <3> HIDE DEF it
    <3> QED BY <1>4, <2>1
  <2> QED BY <2>1, <2>2
<1>7. ASSUME NEW i \in 1..n PROVE chain[i] = ReducedEvent(r, chain[i - 1], q[i])
  <2>1. Max(1..i) = i
    <3>1. 1..i \in SUBSET Nat /\ i \in 1..i /\ \A m \in 1..i : m <= i
      OBVIOUS
    <3> QED BY <3>1, MaxIs
  <2>2. (1..i) \ {i} = 1..(i - 1) /\ i \in 1..i /\ 1..i \subseteq 1..n
    OBVIOUS
  <2>3. it[1..i] = ReducedEvent(r, it[1..(i - 1)], q[i])
    <3> HIDE DEF it
    <3> QED BY <1>4, <2>1, <2>2
  <2> QED BY <2>3
<1> HIDE DEF chain, it
<1>8. it[1..n] = chain[n]
  BY DEF chain
<1> QED BY <1>5, <1>6, <1>7, <1>8

-----------------------------------------------------------------------------
(* The archive of a cut.  Each of its files holds one part, and no part is   *)
(* in two; while no three parts want one name, a name has the counter 1 or   *)
(* 2 and no two files share it.                                              *)

(* The strings there are, those that compaction writes by name among them:   *)
(* the provers do not know a literal for a string.                           *)
Strings == STRING \cup {None, "user", "text", "result", "marker", "digest", "brief", "media",
                       "attachment", "tool-result", "message", "collapsed"}
Names == Nat \X Strings \X Strings \X Nat
Archives == [name : Names, holds : SUBSET (Nat \X Nat)]

NameOf(a) == FileName(source[a[1]].role, At(source, a))
Second(name) == <<name[1], name[2], name[3], 2>>
FileOf(f, a) == f.holds = {a} /\ Files(At(source, a)) /\ f.name \in {NameOf(a), Second(NameOf(a))}

OwnNames(fs) == \A i, j \in DOMAIN fs : fs[i].name = fs[j].name => i = j
Filed(fs, done) ==
    /\ fs \in Seq(Archives)
    /\ \A i \in DOMAIN fs : \E a \in done : fs[i].holds = {a}
    /\ \A i, j \in DOMAIN fs : fs[i].holds = fs[j].holds => i = j
    /\ ~Crowded => OwnNames(fs) /\ \A i \in DOMAIN fs : \E a \in done : FileOf(fs[i], a)

\* A file's name with another counter is a name.
LEMMA Renumbered ==
    ASSUME NEW name \in Names, NEW k \in Nat
    PROVE  [name EXCEPT ![4] = k] = <<name[1], name[2], name[3], k>> /\ [name EXCEPT ![4] = k] \in Names
BY DEF Names

\* archiveBuilder.add: the name a file gets is the one asked for when no file has
\* it, and the one with the counter 2 when one has.
LEMMA NameIsCounted ==
    ASSUME NEW fs \in Seq(Archives), NEW name \in Names
    PROVE  /\ NameFor(fs, name) \in Names
           /\ (\A i \in DOMAIN fs : fs[i].name # name) => NameFor(fs, name) = name
           /\ \A i \in DOMAIN fs : fs[i].name = name /\ OwnNames(fs) => NameFor(fs, name) = Second(name)
<1> DEFINE same == {i \in DOMAIN fs : fs[i].name = name}
<1>1. IsFiniteSet(same)
  <2>1. DOMAIN fs = 1..Len(fs) /\ Len(fs) \in Nat
    OBVIOUS
  <2>2. IsFiniteSet(1..Len(fs))
    BY <2>1, FS_Interval
  <2> QED BY <2>1, <2>2, FS_Subset
<1>2. Cardinality(same) \in Nat
  BY <1>1, FS_CardinalityType
<1>3. NameFor(fs, name) = IF Cardinality(same) > 0
                          THEN [name EXCEPT ![4] = Cardinality(same) + 1] ELSE name
  BY DEF NameFor, Used
<1>4. NameFor(fs, name) \in Names
  <2> HIDE DEF same
  <2>1. Cardinality(same) + 1 \in Nat
    BY <1>2
  <2>2. [name EXCEPT ![4] = Cardinality(same) + 1] \in Names
    BY <2>1, Renumbered
  <2> QED BY <1>3, <2>2
<1>5. ASSUME \A i \in DOMAIN fs : fs[i].name # name PROVE NameFor(fs, name) = name
  <2>1. same = {}
    BY <1>5
  <2>2. Cardinality(same) = 0
    BY <2>1, FS_EmptySet
  <2> QED BY <1>3, <2>2
<1>6. ASSUME NEW i \in DOMAIN fs, fs[i].name = name, OwnNames(fs) PROVE NameFor(fs, name) = Second(name)
  <2>1. same = {i}
    BY <1>6 DEF OwnNames
  <2>2. Cardinality(same) = 1
    BY <2>1, FS_Singleton
  <2>3. [name EXCEPT ![4] = 2] = Second(name)
    BY Renumbered DEF Second
  <2> QED BY <1>3, <2>2, <2>3
<1> QED BY <1>4, <1>5, <1>6

\* gs is fs with a file more, which holds place a.
FiledNext(fs, gs, done, a) ==
    /\ Filed(gs, done \cup {a})
    /\ LastName(gs) \in Names
    /\ \E i \in DOMAIN gs : gs[i].name = LastName(gs) /\ gs[i].holds = {a}
    /\ \A i \in DOMAIN fs : i \in DOMAIN gs /\ gs[i] = fs[i]

\* archiveBuilder: a part put away gets a file that holds it alone, under the
\* name its marker will carry, and the files before it stay as they are.
LEMMA PartIsFiled ==
    ASSUME NEW fs, NEW done \in SUBSET (Nat \X Nat), Filed(fs, done),
           NEW a \in Nat \X Nat, a \notin done, a \in Places(source), done \subseteq Places(source),
           Files(At(source, a)), NameOf(a) \in Names, NameOf(a)[4] = 1,
           \A d \in done : NameOf(d) \in Names /\ NameOf(d)[4] = 1
    PROVE  FiledNext(fs, Added(fs, NameOf(a), {a}), done, a)
<1> DEFINE f == [name |-> NameFor(fs, NameOf(a)), holds |-> {a}]
           gs == Append(fs, f)
           n == Len(fs)
<1>1. gs = Added(fs, NameOf(a), {a})
  BY DEF Added
<1>2. fs \in Seq(Archives) /\ f \in Archives
  BY NameIsCounted DEF Filed, Archives
<1>3. /\ gs \in Seq(Archives) /\ n \in Nat /\ DOMAIN fs = 1..n /\ DOMAIN gs = 1..(n + 1)
      /\ gs[n + 1] = f /\ Len(gs) = n + 1 /\ \A i \in DOMAIN fs : gs[i] = fs[i]
  BY <1>2
<1> HIDE DEF f, gs, n
<1>4. f.name = NameFor(fs, NameOf(a)) /\ f.holds = {a}
  BY DEF f
<1>5. \A i \in DOMAIN gs : i \in DOMAIN fs \/ i = n + 1
  BY <1>3
<1>6. \A i \in DOMAIN gs : \E d \in done \cup {a} : gs[i].holds = {d}
  <2>1. ASSUME NEW i \in DOMAIN fs PROVE \E d \in done \cup {a} : gs[i].holds = {d}
    BY <1>3 DEF Filed
  <2>2. \E d \in done \cup {a} : gs[n + 1].holds = {d}
    BY <1>3, <1>4
  <2> QED BY <1>5, <2>1, <2>2
<1>7. ASSUME NEW i \in DOMAIN fs PROVE fs[i].holds # {a}
  <2>1. PICK d \in done : fs[i].holds = {d}
    BY DEF Filed
  <2>2. d # a /\ d \in {d}
    OBVIOUS
  <2> QED BY <2>1, <2>2
<1>8. \A i, j \in DOMAIN gs : gs[i].holds = gs[j].holds => i = j
  BY <1>3, <1>4, <1>5, <1>7 DEF Filed
<1>9. ASSUME ~Crowded
      PROVE  OwnNames(gs) /\ \A i \in DOMAIN gs : \E d \in done \cup {a} : FileOf(gs[i], d)
  <2>1. OwnNames(fs) /\ \A i \in DOMAIN fs : \E d \in done : FileOf(fs[i], d)
    BY <1>9 DEF Filed
  <2>2. CASE \A i \in DOMAIN fs : fs[i].name # NameOf(a)
    <3>1. f.name = NameOf(a)
      BY <1>2, <1>4, <2>2, NameIsCounted
    <3>2. FileOf(gs[n + 1], a)
      BY <1>3, <1>4, <3>1 DEF FileOf
    <3>3. \A i \in DOMAIN gs : \E d \in done \cup {a} : FileOf(gs[i], d)
      BY <1>3, <1>5, <2>1, <3>2
    <3>4. OwnNames(gs)
      BY <1>3, <1>5, <2>1, <2>2, <3>1 DEF OwnNames
    <3> QED BY <3>3, <3>4
  <2>3. CASE \E i \in DOMAIN fs : fs[i].name = NameOf(a)
    <3>1. PICK x \in DOMAIN fs : fs[x].name = NameOf(a)
      BY <2>3
    <3>2. f.name = Second(NameOf(a))
      BY <1>2, <1>4, <2>1, <3>1, NameIsCounted
    <3>3. FileOf(gs[n + 1], a)
      BY <1>3, <1>4, <3>2 DEF FileOf
    <3>4. \A i \in DOMAIN gs : \E d \in done \cup {a} : FileOf(gs[i], d)
      BY <1>3, <1>5, <2>1, <3>3
    <3>5. ASSUME NEW y \in DOMAIN fs, fs[y].name = Second(NameOf(a)) PROVE FALSE
      <4>1. PICK dx \in done : FileOf(fs[x], dx)
        BY <2>1
      <4>2. PICK dy \in done : FileOf(fs[y], dy)
        BY <2>1
      <4>3. Second(NameOf(a))[4] = 2 /\ \A d \in done : Second(NameOf(d))[4] = 2
        BY DEF Second
      <4>4. NameOf(dx) = NameOf(a)
        BY <3>1, <4>1, <4>3 DEF FileOf
      <4>5. NameOf(dy) = NameOf(a)
        <5>1. Second(NameOf(dy)) = Second(NameOf(a))
          BY <3>5, <4>2, <4>3 DEF FileOf
        <5>2. NameOf(dy)[1] = NameOf(a)[1] /\ NameOf(dy)[2] = NameOf(a)[2] /\ NameOf(dy)[3] = NameOf(a)[3]
          BY <5>1 DEF Second
        <5> QED BY <5>2 DEF Names
      <4>6. x # y
        BY <3>1, <3>5, <4>3
      <4>7. dx # dy
        <5>1. fs[x].holds # fs[y].holds
          BY <4>6 DEF Filed
        <5>2. fs[x].holds = {dx} /\ fs[y].holds = {dy}
          BY <4>1, <4>2 DEF FileOf
        <5> QED BY <5>1, <5>2
      <4>8. dx # a /\ dy # a
        OBVIOUS
      <4>9. {dx, dy, a} \subseteq Where(source, Files)
        BY <4>1, <4>2 DEF FileOf, Where
      <4> QED BY <1>9, <4>4, <4>5, <4>7, <4>8, <4>9 DEF Crowded, NameOf
    <3>6. OwnNames(gs)
      <4>1. \A i \in DOMAIN fs : gs[i].name # gs[n + 1].name
        BY <1>3, <1>4, <3>2, <3>5
      <4>2. \A i, j \in DOMAIN fs : gs[i].name = gs[j].name => i = j
        BY <1>3, <2>1 DEF OwnNames
      <4> QED BY <1>5, <4>1, <4>2 DEF OwnNames
    <3> QED BY <3>4, <3>6
  <2> QED BY <2>2, <2>3
<1>10. Filed(gs, done \cup {a})
  BY <1>3, <1>6, <1>8, <1>9 DEF Filed
<1>11. LastName(gs) = f.name /\ f.name \in Names
  BY <1>2, <1>3 DEF LastName, Archives
<1>12. /\ LastName(gs) \in Names
       /\ \E i \in DOMAIN gs : gs[i].name = LastName(gs) /\ gs[i].holds = {a}
       /\ \A i \in DOMAIN fs : i \in DOMAIN gs /\ gs[i] = fs[i]
  BY <1>3, <1>4, <1>11
<1> QED BY <1>1, <1>10, <1>12 DEF FiledNext

-----------------------------------------------------------------------------
(* One part, reduced. *)

Rungs == [reasoning : BOOLEAN, results : Nat, text : Nat, media : BOOLEAN, keep : Nat]

\* Every rung of the ladder says what it takes out and how many turns it keeps.
LEMMA LadderTyped == Ladder \in Seq(Rungs)
<1> DEFINE a == Rung(FALSE, 0, 0, FALSE, 0)
           b == Rung(TRUE, 0, 0, FALSE, 0)
           c == Rung(TRUE, 8000, 0, FALSE, 0)
           d == Rung(TRUE, 2000, 0, FALSE, 0)
           e == Rung(TRUE, 600, 0, FALSE, 0)
           f == Rung(TRUE, 600, 6000, FALSE, 0)
           g == Rung(TRUE, 600, 2000, FALSE, 0)
           h == Rung(TRUE, 300, 2000, FALSE, 0)
           i == Rung(TRUE, 300, 2000, TRUE, 0)
           nth(k) == Rung(TRUE, 300, 2000, TRUE, Keeps[k])
           last == [k \in DOMAIN Keeps |-> nth(k)]
<1>1. {a, b, c, d, e, f, g, h, i} \subseteq Rungs
  BY DEF Rung, Rungs
<1>2. DOMAIN Keeps = 1..Len(Keeps) /\ Len(Keeps) \in Nat
  BY CompactionAssumption
<1>3. \A k \in DOMAIN Keeps : nth(k) \in Rungs
  BY CompactionAssumption DEF Rung, Rungs
<1>4. Ladder = <<a, b, c, d, e, f, g, h, i>> \o last
  BY DEF Ladder
<1> HIDE DEF a, b, c, d, e, f, g, h, i, nth
<1>5. <<a, b, c, d, e, f, g, h, i>> \in Seq(Rungs)
  BY <1>1
<1>6. last \in Seq(Rungs)
  BY <1>2, <1>3
<1> HIDE DEF last
<1> QED BY <1>4, <1>5, <1>6

Parts == [kind : Strings, call : Strings, body : Strings, err : BOOLEAN,
          file : Names \cup {<<>>}, limit : Nat, of : Nat \X Nat]
Events == [role : Strings, parts : Seq(Parts)]

(* What the marker of a part says, and in which form (addToolResult,        *)
(* addText and archiveMedia).                                               *)
MarkerOf(role, p, q) ==
    /\ q.of = p.of
    /\ \/ p.kind \in {"result", "text", "tagged"} /\ q.kind = p.kind /\ q.call = p.call /\ q.body = p.body
       \/ /\ p.kind = "media" /\ q.kind = "text" /\ q.body = "marker"
          /\ role # "tool" /\ (role = "assistant" \/ p.call = None)
       \/ /\ p.kind = "media" /\ q.kind = "result" /\ q.call = p.call
          /\ role # "assistant" /\ p.call # None /\ ~ResultElsewhere(p)

(* A picture whose call another event answers with a result leaves none.    *)
Unmarked(role, p) ==
    p.kind = "media" /\ role # "assistant" /\ p.call # None /\ ResultElsewhere(p)

PartState == [parts : Seq(Parts), files : Seq(Archives), took : Nat]

\* What archiveMedia leaves of a picture its role may hold: a text or a result
\* that points to it, or nothing.
LEMMA PictureMarked ==
    ASSUME NEW role, NEW p \in Parts, p.kind = "media", Allowed(role, p), NEW name \in Names
    PROVE  \/ MediaMarker(role, p, name) = <<>> /\ Unmarked(role, p)
           \/ \E q \in Parts : /\ MediaMarker(role, p, name) = <<q>>
                               /\ MarkerOf(role, p, q) /\ q.file = name
<1> DEFINE marked(kind) == Marked([p EXCEPT !.body = "marker"], kind, 0, name)
<1>1. \A kind \in {"text", "result"} : /\ marked(kind) \in Parts /\ marked(kind).of = p.of /\ marked(kind).file = name
                           /\ marked(kind).kind = kind /\ marked(kind).call = p.call /\ marked(kind).body = "marker"
  <2> SUFFICES ASSUME NEW kind \in {"text", "result"}
               PROVE  /\ marked(kind) \in Parts /\ marked(kind).of = p.of /\ marked(kind).file = name
                      /\ marked(kind).kind = kind /\ marked(kind).call = p.call /\ marked(kind).body = "marker"
    OBVIOUS
  <2>1. marked(kind) = [kind |-> kind, call |-> p.call, body |-> "marker", err |-> p.err,
                    file |-> name, limit |-> 0, of |-> p.of]
    <3> DEFINE m == [p EXCEPT !.body = "marker"]
    <3>1. m \in Parts /\ m.call = p.call /\ m.body = "marker" /\ m.err = p.err /\ m.of = p.of
      BY DEF Parts, Strings
    <3>2. marked(kind) = Marked(m, kind, 0, name)
      OBVIOUS
    <3> HIDE DEF m, marked
    <3> QED BY <3>1, <3>2 DEF Marked, Parts
  <2> HIDE DEF marked
  <2>2. {"text", "result", "marker"} \subseteq Strings
    BY DEF Strings
  <2> QED BY <2>1, <2>2 DEF Parts
<1>2. role = "tool" => p.call # None
  BY DEF Allowed, Content, IsCall
<1>3. MediaMarker(role, p, name) =
        IF role = "assistant" \/ p.call = None
        THEN IF role = "tool" THEN <<>> ELSE <<marked("text")>>
        ELSE IF ResultElsewhere(p) THEN <<>> ELSE <<marked("result")>>
  BY DEF MediaMarker
<1> HIDE DEF marked
<1>4. CASE role = "assistant" \/ p.call = None
  <2>1. role # "tool"
    BY <1>2, <1>4
  <2>2. MediaMarker(role, p, name) = <<marked("text")>>
    BY <1>3, <1>4, <2>1
  <2>3. marked("text") \in Parts /\ MarkerOf(role, p, marked("text")) /\ marked("text").file = name
    BY <1>1, <1>4, <2>1 DEF MarkerOf
  <2> QED BY <2>2, <2>3
<1>5. CASE ~(role = "assistant" \/ p.call = None) /\ ResultElsewhere(p)
  BY <1>3, <1>5 DEF Unmarked
<1>6. CASE ~(role = "assistant" \/ p.call = None) /\ ~ResultElsewhere(p)
  <2>1. MediaMarker(role, p, name) = <<marked("result")>>
    BY <1>3, <1>6
  <2>2. marked("result") \in Parts /\ MarkerOf(role, p, marked("result")) /\ marked("result").file = name
    BY <1>1, <1>6 DEF MarkerOf
  <2> QED BY <2>1, <2>2
<1> QED BY <1>4, <1>5, <1>6

(* What has become of part p of a message of this role from s to t.         *)
PutAway(role, s, p, t) ==
    /\ Files(p)
    /\ t.files = Added(s.files, FileName(role, p), {p.of})
    /\ t.took = s.took + 1
PartGone(role, s, p, t) ==
  /\ t = [parts |-> t.parts, files |-> t.files, took |-> t.took]
  /\ \/ t.parts = Append(s.parts, p) /\ t.files = s.files /\ t.took = s.took
     \/ p.kind = "reasoning" /\ t.parts = s.parts /\ t.files = s.files /\ t.took = s.took + 1
     \/ PutAway(role, s, p, t) /\ t.parts = s.parts /\ Unmarked(role, p)
     \/ PutAway(role, s, p, t) /\ \E q \in Parts :
           t.parts = Append(s.parts, q) /\ MarkerOf(role, p, q) /\ q.file = LastName(t.files)

\* applyReduction's inner step: a part stays, goes (recorded reasoning), or is
\* put in a file with a marker in its place or none.
LEMMA PartStep ==
    ASSUME NEW r \in Rungs, NEW role, NEW s \in PartState, NEW p \in Parts, Allowed(role, p),
           FileName(role, p) \in Names
    PROVE  PartGone(role, s, p, Reduced(r, role, s, p))
<1> DEFINE t == Reduced(r, role, s, p)
<1> SUFFICES PartGone(role, s, p, t)
  OBVIOUS
<1> DEFINE fs == Added(s.files, FileName(role, p), {p.of})
           n == LastName(fs)
<1>1. s = [parts |-> s.parts, files |-> s.files, took |-> s.took] /\ s.parts \in Seq(Parts)
  BY DEF PartState
<1>2. n \in Names
  <2>1. s.files \in Seq(Archives) /\ p.of \in Nat \X Nat
    BY DEF PartState, Parts
  <2>2. NameFor(s.files, FileName(role, p)) \in Names
    BY <2>1, NameIsCounted
  <2>3. [name |-> NameFor(s.files, FileName(role, p)), holds |-> {p.of}] \in Archives
    BY <2>1, <2>2 DEF Archives
  <2>4. n = NameFor(s.files, FileName(role, p))
    BY <2>1, <2>3 DEF Added, LastName
  <2> QED BY <2>2, <2>4
<1> HIDE DEF t, fs, n
<1>3. CASE p.kind = "reasoning" /\ r.reasoning
  <2>1. t = [s EXCEPT !.took = s.took + 1]
    BY <1>3 DEF Reduced, t
  <2>2. t = [parts |-> s.parts, files |-> s.files, took |-> s.took + 1]
    BY <1>1, <2>1
  <2> QED BY <1>3, <2>2 DEF PartGone
<1>4. CASE p.kind = "media" /\ r.media
  <2>1. t = [parts |-> s.parts \o MediaMarker(role, p, n), files |-> fs, took |-> s.took + 1]
    BY <1>4 DEF Reduced, t, fs, n
  <2>2. PutAway(role, s, p, t)
    BY <1>4, <2>1 DEF Files, PutAway, fs
  <2>3. CASE MediaMarker(role, p, n) = <<>> /\ Unmarked(role, p)
    <3>1. s.parts \o <<>> = s.parts
      BY <1>1
    <3>2. t.parts = s.parts
      BY <2>1, <2>3, <3>1
    <3>3. t = [parts |-> t.parts, files |-> t.files, took |-> t.took]
      BY <2>1
    <3> QED BY <2>2, <2>3, <3>2, <3>3 DEF PartGone
  <2>4. CASE \E q \in Parts : MediaMarker(role, p, n) = <<q>> /\ MarkerOf(role, p, q) /\ q.file = n
    <3>1. PICK q \in Parts : MediaMarker(role, p, n) = <<q>> /\ MarkerOf(role, p, q) /\ q.file = n
      BY <2>4
    <3>2. s.parts \o <<q>> = Append(s.parts, q)
      BY <1>1
    <3>3. t.parts = Append(s.parts, q) /\ t.files = fs
      BY <2>1, <3>1, <3>2
    <3>4. t = [parts |-> t.parts, files |-> t.files, took |-> t.took]
      BY <2>1
    <3> QED BY <2>2, <3>1, <3>3, <3>4 DEF n, PartGone
  <2> QED BY <1>2, <1>4, <2>3, <2>4, PictureMarked
<1>5. ASSUME NEW limit \in Nat, p.kind \in {"result", "text", "tagged"},
             t = [parts |-> s.parts \o <<Marked(p, p.kind, limit, n)>>, files |-> fs, took |-> s.took + 1]
      PROVE  PartGone(role, s, p, t)
  <2> DEFINE q == Marked(p, p.kind, limit, n)
  <2>1. /\ q \in Parts /\ q.of = p.of /\ q.file = n /\ q.kind = p.kind /\ q.call = p.call
        /\ q.body = p.body
    BY <1>2 DEF Marked, Parts
  <2>2. s.parts \o <<q>> = Append(s.parts, q)
    BY <1>1, <2>1
  <2>3. MarkerOf(role, p, q)
    BY <1>5, <2>1 DEF MarkerOf
  <2> HIDE DEF q
  <2>4. t.parts = Append(s.parts, q) /\ t.files = fs /\ t.took = s.took + 1
    BY <1>5, <2>2 DEF q
  <2>5. PutAway(role, s, p, t)
    BY <1>5, <2>4 DEF PutAway, Files, fs
  <2>6. t = [parts |-> t.parts, files |-> t.files, took |-> t.took]
    BY <1>5
  <2> QED BY <2>1, <2>3, <2>4, <2>5, <2>6 DEF PartGone, n
<1>6. CASE p.kind = "result" /\ r.results \in 1..(Bytes[p.body] - 1)
  <2>1. t = [parts |-> s.parts \o <<Marked(p, p.kind, r.results, n)>>, files |-> fs, took |-> s.took + 1]
    BY <1>6 DEF Reduced, t, fs, n
  <2> QED BY <1>5, <1>6, <2>1 DEF Rungs
<1>7. CASE p.kind \in {"text", "tagged"} /\ r.text \in 1..(Bytes[p.body] - 1)
  <2>1. t = [parts |-> s.parts \o <<Marked(p, p.kind, r.text, n)>>, files |-> fs, took |-> s.took + 1]
    BY <1>7 DEF Reduced, t, fs, n
  <2> QED BY <1>5, <1>7, <2>1 DEF Rungs
<1>8. CASE /\ ~(p.kind = "reasoning" /\ r.reasoning) /\ ~(p.kind = "media" /\ r.media)
           /\ ~(p.kind = "result" /\ r.results \in 1..(Bytes[p.body] - 1))
           /\ ~(p.kind \in {"text", "tagged"} /\ r.text \in 1..(Bytes[p.body] - 1))
  <2>1. t = [s EXCEPT !.parts = Append(s.parts, p)]
    BY <1>8 DEF Reduced, t
  <2>2. t = [parts |-> Append(s.parts, p), files |-> s.files, took |-> s.took]
    BY <1>1, <2>1
  <2> QED BY <2>2 DEF PartGone
<1> QED BY <1>3, <1>4, <1>6, <1>7, <1>8

-----------------------------------------------------------------------------
(* The cut so far: the stream h, the archive fs and the count took after the *)
(* places in done have been reduced.                                         *)

\* A part of the stream stands for the place of the source it comes from: in
\* that event's role, unchanged unless it is a marker, a call never changed, an
\* answer for an answer of the same call; and its file holds that place.
Stands(h, fs, done, z) ==
    LET q == At(h, z)
        p == At(source, q.of)
    IN  /\ q.of \in done
        /\ h[z[1]].role = source[q.of[1]].role
        /\ q.file = <<>> => q = p
        /\ IsCall(q) => q = p
        /\ Answers(q) => Answers(p) /\ q.call = p.call
        /\ q.kind = "result" =>
              p.kind = "result" \/ (p.kind = "media" /\ p.call # None /\ ~ ResultElsewhere(p))
        /\ Allowed(source[q.of[1]].role, q)
        /\ q.file # <<>> => \E i \in DOMAIN fs : fs[i].name = q.file /\ fs[i].holds = {q.of}

\* A place that is done is in the stream as it was or in a file, recorded
\* reasoning aside; a call, and whatever nothing was taken from, is kept; a
\* result leaves a result and a picture's answer an answer, or another event
\* holds the result.
Covers(h, fs, took, a) ==
    LET p == At(source, a)
        kept == \E z \in Places(h) : At(h, z) = p
    IN  /\ p.kind = "reasoning" \/ kept \/ \E i \in DOMAIN fs : fs[i].holds = {a}
        /\ IsCall(p) \/ took = 0 => kept
        /\ p.kind = "result" => \E z \in Places(h) : At(h, z).kind = "result" /\ At(h, z).call = p.call
        /\ p.kind = "media" /\ p.call # None /\ source[a[1]].role # "assistant" =>
              \/ ResultElsewhere(p)
              \/ \E z \in Places(h) : Answers(At(h, z)) /\ At(h, z).call = p.call

\* The stream keeps the order of the source and the parts of one event together.
Ordered(h) == \A p, q \in Places(h) :
    /\ Before(p, q) => Before(At(h, p).of, At(h, q).of)
    /\ At(h, p).of[1] = At(h, q).of[1] => p[1] = q[1]

Stream(h) == h \in Seq(Events) /\ \A k \in DOMAIN h : h[k].parts # <<>>
Cut(h, fs, done, took) ==
    /\ Stream(h) /\ took \in Nat
    /\ Filed(fs, done)
    /\ \A z \in Places(h) : Stands(h, fs, done, z)
    /\ Ordered(h)
    /\ \A a \in done : Covers(h, fs, took, a)

\* g is h with part q after all its others, in a message of this role that
\* holds whatever else event i of the source has left.
Grown(h, g, z, q, role, i) ==
    /\ Stream(g)
    /\ Places(g) = Places(h) \cup {z} /\ At(g, z) = q /\ g[z[1]].role = role
    /\ \A p \in Places(h) : /\ At(g, p) = At(h, p) /\ g[p[1]].role = h[p[1]].role
                            /\ Before(p, z)
                            /\ At(h, p).of[1] = i => p[1] = z[1]

\* What a reader hands over: parts that know their place and have no marker.
Fresh == /\ source \in Seq(Events)
         /\ \A a \in Places(source) : At(source, a).of = a /\ At(source, a).file = <<>>
         /\ source # <<>> => Valid(source)

\* Places are pairs of positions, and what is at one is a part.
LEMMA PlacesTyped ==
    ASSUME NEW h \in Seq(Events)
    PROVE  /\ Places(h) \in SUBSET (Nat \X Nat)
           /\ \A z \in Places(h) : z[1] \in DOMAIN h /\ z[2] \in DOMAIN h[z[1]].parts /\ At(h, z) \in Parts
<1> SUFFICES ASSUME NEW z \in Places(h)
             PROVE  z \in Nat \X Nat /\ z[1] \in DOMAIN h /\ z[2] \in DOMAIN h[z[1]].parts /\ At(h, z) \in Parts
  OBVIOUS
<1>1. PICK i \in DOMAIN h : \E j \in DOMAIN h[i].parts : z = <<i, j>>
  BY DEF Places
<1>2. PICK j \in DOMAIN h[i].parts : z = <<i, j>>
  BY <1>1
<1>3. i \in Nat /\ h[i] \in Events
  OBVIOUS
<1>4. h[i].parts \in Seq(Parts)
  BY <1>3 DEF Events
<1>5. j \in Nat /\ h[i].parts[j] \in Parts
  BY <1>4
<1> QED BY <1>2, <1>3, <1>5 DEF At

\* A later part comes after an earlier one, never the other way round too.
LEMMA BeforeIsStrict ==
    ASSUME NEW p \in Nat \X Nat, NEW q \in Nat \X Nat
    PROVE  /\ ~(Before(p, q) /\ Before(q, p)) /\ ~ Before(p, p)
           /\ p # q => Before(p, q) \/ Before(q, p)
<1> PICK a, b, c, d \in Nat : p = <<a, b>> /\ q = <<c, d>>
  OBVIOUS
<1> QED BY DEF Before

\* What stands or is covered stays so as the stream and the archive grow.
LEMMA StillStands ==
    ASSUME NEW h, NEW g, NEW fs, NEW gs, NEW done, NEW more, NEW took, NEW later,
           \A z \in Places(h) : z \in Places(g) /\ At(g, z) = At(h, z) /\ g[z[1]].role = h[z[1]].role,
           \A i \in DOMAIN fs : i \in DOMAIN gs /\ gs[i] = fs[i],
           done \subseteq more, later = 0 => took = 0
    PROVE  /\ \A z \in Places(h) : Stands(h, fs, done, z) => Stands(g, gs, more, z)
           /\ \A a : Covers(h, fs, took, a) => Covers(g, gs, later, a)
<1>1. ASSUME NEW z \in Places(h), Stands(h, fs, done, z) PROVE Stands(g, gs, more, z)
  <2>1. At(g, z) = At(h, z) /\ g[z[1]].role = h[z[1]].role
    OBVIOUS
  <2>2. At(h, z).of \in more
    BY <1>1 DEF Stands
  <2> QED BY <1>1, <2>1, <2>2 DEF Stands
<1>2. ASSUME NEW a, Covers(h, fs, took, a) PROVE Covers(g, gs, later, a)
  BY <1>2 DEF Covers
<1> QED BY <1>1, <1>2

\* A part added behind all others, for a later place of the source, keeps the order.
LEMMA StillOrdered ==
    ASSUME NEW h, NEW g, NEW z, NEW q, NEW role, NEW a \in Nat \X Nat,
           h \in Seq(Events), Ordered(h), Grown(h, g, z, q, role, a[1]), q.of = a,
           \A p \in Places(h) : Before(At(h, p).of, a)
    PROVE  Ordered(g)
<1>1. Places(g) \in SUBSET (Nat \X Nat)
  BY PlacesTyped DEF Grown, Stream
<1> SUFFICES ASSUME NEW p1 \in Places(g), NEW p2 \in Places(g)
             PROVE  /\ Before(p1, p2) => Before(At(g, p1).of, At(g, p2).of)
                    /\ At(g, p1).of[1] = At(g, p2).of[1] => p1[1] = p2[1]
  BY DEF Ordered
<1>2. (p1 \in Places(h) \/ p1 = z) /\ (p2 \in Places(h) \/ p2 = z) /\ At(g, z) = q
  BY DEF Grown
<1>3. CASE p1 \in Places(h) /\ p2 \in Places(h)
  BY <1>3 DEF Grown, Ordered
<1>4. CASE p1 \in Places(h) /\ p2 = z
  BY <1>2, <1>4 DEF Grown
<1>5. CASE p1 = z /\ p2 \in Places(h)
  <2>1. Before(p2, z)
    BY <1>5 DEF Grown
  <2>2. ~ Before(p1, p2)
    BY <1>1, <1>5, <2>1, BeforeIsStrict
  <2>3. At(g, p2).of[1] = a[1] => p2[1] = z[1]
    BY <1>5 DEF Grown
  <2> QED BY <1>2, <1>5, <2>2, <2>3
<1>6. CASE p1 = z /\ p2 = z
  <2>1. ~ Before(p1, p2)
    BY <1>1, <1>6, BeforeIsStrict
  <2> QED BY <1>6, <2>1
<1> QED BY <1>2, <1>3, <1>4, <1>5, <1>6

\* What a place of the source is filed under is a name with the counter 1.
LEMMA PlaceIsNamed ==
    ASSUME Fresh, NEW a \in Places(source)
    PROVE  NameOf(a) \in Names /\ NameOf(a)[4] = 1
<1> DEFINE role == source[a[1]].role
           p == At(source, a)
<1>1. a[1] \in Nat /\ a[1] \in DOMAIN source /\ p \in Parts /\ p.of = a
  BY PlacesTyped DEF Fresh
<1>2. source[a[1]] \in Events
  BY <1>1 DEF Fresh
<1>3. role \in Strings /\ p.call \in Strings
  BY <1>1, <1>2 DEF Events, Parts
<1>4. {"media", "attachment", "tool-result", "message"} \subseteq Strings
  BY DEF Strings
<1>5. NameOf(a) \in {<<a[1], "media", "attachment", 1>>, <<a[1], "tool-result", p.call, 1>>,
                     <<a[1], "message", role, 1>>}
  BY <1>1 DEF NameOf, FileName
<1> HIDE DEF role, p
<1> QED BY <1>1, <1>3, <1>4, <1>5 DEF Names

\* No name is the mark of a part without a file.
LEMMA NamesAreMarks == <<>> \notin Names
BY DEF Names

\* One part further (applyReduction): whatever becomes of the next part, the
\* stream stands for what is done and all of that is covered.
LEMMA PartCut ==
    ASSUME Fresh, source # <<>>, NEW a \in Places(source), NEW done \in SUBSET Places(source),
           a \notin done, \A d \in done : Before(d, a),
           NEW h, NEW s, NEW t, NEW g, NEW role, role = source[a[1]].role,
           Cut(h, s.files, done, s.took), PartGone(role, s, At(source, a), t),
           t.parts = s.parts => g = h,
           \A q \in Parts : t.parts = Append(s.parts, q) /\ q.of = a =>
              \E z : Grown(h, g, z, q, role, a[1])
    PROVE  Cut(g, t.files, done \cup {a}, t.took)
<1> DEFINE p == At(source, a)
           more == done \cup {a}
<1>1. /\ p \in Parts /\ p.of = a /\ p.file = <<>> /\ Allowed(role, p)
      /\ a \in Nat \X Nat /\ done \subseteq Nat \X Nat /\ more \subseteq Places(source)
  BY PlacesTyped DEF Fresh, Valid
<1>2. /\ Stream(h) /\ s.took \in Nat /\ Filed(s.files, done) /\ Ordered(h)
      /\ \A z \in Places(h) : Stands(h, s.files, done, z)
      /\ \A d \in done : Covers(h, s.files, s.took, d)
  BY DEF Cut
<1>3. Filed(s.files, more)
  BY <1>2 DEF Filed
<1>4. NameOf(a) = FileName(role, p) /\ done \subseteq more
  BY DEF NameOf
<1>5. ASSUME PutAway(role, s, p, t)
      PROVE  /\ Filed(t.files, more) /\ t.took = s.took + 1 /\ LastName(t.files) \in Names
             /\ \E i \in DOMAIN t.files : t.files[i].name = LastName(t.files) /\ t.files[i].holds = {a}
             /\ \A i \in DOMAIN s.files : i \in DOMAIN t.files /\ t.files[i] = s.files[i]
  <2>1. t.files = Added(s.files, NameOf(a), {a}) /\ Files(p)
    BY <1>1, <1>4, <1>5 DEF PutAway
  <2>2. \A d \in more : NameOf(d) \in Names /\ NameOf(d)[4] = 1
    BY <1>1, PlaceIsNamed
  <2>3. /\ Filed(s.files, done) /\ done \in SUBSET (Nat \X Nat) /\ a \in Nat \X Nat
        /\ done \subseteq Places(source) /\ Files(At(source, a))
        /\ NameOf(a) \in Names /\ NameOf(a)[4] = 1
        /\ \A d \in done : NameOf(d) \in Names /\ NameOf(d)[4] = 1
    BY <1>1, <1>2, <2>1, <2>2
  <2>4. FiledNext(s.files, Added(s.files, NameOf(a), {a}), done, a)
    BY <2>3, PartIsFiled
  <2> QED BY <1>5, <2>1, <2>4 DEF FiledNext, PutAway
<1>6. \A z \in Places(h) : Before(At(h, z).of, a)
  BY <1>2 DEF Stands
<1>7. ASSUME NEW q \in Parts, NEW z, Grown(h, g, z, q, role, a[1]), q.of = a
      PROVE  /\ Stream(g) /\ Ordered(g) /\ At(g, z) = q /\ g[z[1]].role = role
             /\ z \in Places(g) /\ \A y \in Places(g) : y \in Places(h) \/ y = z
             /\ \A y \in Places(h) : y \in Places(g) /\ At(g, y) = At(h, y) /\ g[y[1]].role = h[y[1]].role
  <2>1. Ordered(g)
    BY <1>1, <1>2, <1>6, <1>7, StillOrdered DEF Stream
  <2> QED BY <1>7, <2>1 DEF Grown
<1> HIDE DEF p, more
<1>8. CASE t.parts = Append(s.parts, p) /\ t.files = s.files /\ t.took = s.took
  <2>1. PICK z : Grown(h, g, z, p, role, a[1])
    BY <1>1, <1>8
  <2>2. /\ Stream(g) /\ Ordered(g) /\ At(g, z) = p /\ g[z[1]].role = role
        /\ z \in Places(g) /\ \A y \in Places(g) : y \in Places(h) \/ y = z
        /\ \A y \in Places(h) : y \in Places(g) /\ At(g, y) = At(h, y) /\ g[y[1]].role = h[y[1]].role
    BY <1>1, <1>7, <2>1
  <2>3. /\ \A y \in Places(h) : Stands(h, s.files, done, y) => Stands(g, s.files, more, y)
        /\ \A d : Covers(h, s.files, s.took, d) => Covers(g, s.files, s.took, d)
    BY <1>4, <2>2, StillStands
  <2>4. Stands(g, s.files, more, z)
    BY <1>1, <2>2 DEF Stands, more, p
  <2>5. Covers(g, s.files, s.took, a)
    BY <2>2 DEF Covers, p, Answers
  <2> QED BY <1>2, <1>3, <1>8, <2>2, <2>3, <2>4, <2>5 DEF Cut, more
<1>9. CASE p.kind = "reasoning" /\ t.parts = s.parts /\ t.files = s.files /\ t.took = s.took + 1
  <2>1. g = h /\ t.took \in Nat /\ t.took # 0
    BY <1>2, <1>9
  <2>2. /\ \A y \in Places(h) : Stands(h, s.files, done, y) => Stands(h, s.files, more, y)
        /\ \A d : Covers(h, s.files, s.took, d) => Covers(h, s.files, t.took, d)
    BY <1>4, <2>1, StillStands
  <2>3. Covers(h, s.files, t.took, a)
    BY <1>9, <2>1 DEF Covers, p, IsCall
  <2> QED BY <1>2, <1>3, <1>9, <2>1, <2>2, <2>3 DEF Cut, more
<1>10. CASE PutAway(role, s, p, t) /\ t.parts = s.parts /\ Unmarked(role, p)
  <2>1. g = h /\ t.took \in Nat /\ t.took # 0
    BY <1>2, <1>5, <1>10
  <2>2. /\ \A y \in Places(h) : Stands(h, s.files, done, y) => Stands(h, t.files, more, y)
        /\ \A d : Covers(h, s.files, s.took, d) => Covers(h, t.files, t.took, d)
    BY <1>4, <1>5, <1>10, <2>1, StillStands
  <2>3. Covers(h, t.files, t.took, a)
    BY <1>5, <1>10, <2>1 DEF Covers, p, IsCall, Unmarked
  <2> QED BY <1>2, <1>5, <1>10, <2>1, <2>2, <2>3 DEF Cut, more
<1>11. CASE PutAway(role, s, p, t) /\ \E q \in Parts :
              t.parts = Append(s.parts, q) /\ MarkerOf(role, p, q) /\ q.file = LastName(t.files)
  <2>1. PICK q \in Parts :
              t.parts = Append(s.parts, q) /\ MarkerOf(role, p, q) /\ q.file = LastName(t.files)
    BY <1>11
  <2>2. q.of = a
    BY <1>1, <2>1 DEF MarkerOf
  <2>3. PICK z : Grown(h, g, z, q, role, a[1])
    BY <2>1, <2>2
  <2>4. /\ Stream(g) /\ Ordered(g) /\ At(g, z) = q /\ g[z[1]].role = role
        /\ z \in Places(g) /\ \A y \in Places(g) : y \in Places(h) \/ y = z
        /\ \A y \in Places(h) : y \in Places(g) /\ At(g, y) = At(h, y) /\ g[y[1]].role = h[y[1]].role
    BY <1>7, <2>2, <2>3
  <2>5. t.took \in Nat /\ t.took # 0
    BY <1>2, <1>5, <1>11
  <2>6. /\ \A y \in Places(h) : Stands(h, s.files, done, y) => Stands(g, t.files, more, y)
        /\ \A d : Covers(h, s.files, s.took, d) => Covers(g, t.files, t.took, d)
    BY <1>4, <1>5, <1>11, <2>4, <2>5, StillStands
  <2>7. Stands(g, t.files, more, z)
    <3>1. q.file # <<>>
      BY <1>5, <1>11, <2>1, NamesAreMarks
    <3>2. ~ IsCall(q)
      BY <2>1 DEF MarkerOf, IsCall
    <3>3. Answers(q) => Answers(p) /\ q.call = p.call
      BY <2>1 DEF MarkerOf, Answers
    <3>4. q.kind = "result" =>
             p.kind = "result" \/ (p.kind = "media" /\ p.call # None /\ ~ ResultElsewhere(p))
      BY <2>1 DEF MarkerOf
    <3>5. Allowed(role, q)
      BY <1>1, <2>1 DEF MarkerOf, Allowed, Content, IsCall, None
    <3>6. \E i \in DOMAIN t.files : t.files[i].name = q.file /\ t.files[i].holds = {a}
      BY <1>5, <1>11, <2>1
    <3> QED BY <2>2, <2>4, <3>1, <3>2, <3>3, <3>4, <3>5, <3>6 DEF Stands, more, p
  <2>8. Covers(g, t.files, t.took, a)
    <3>1. \E i \in DOMAIN t.files : t.files[i].holds = {a}
      BY <1>5, <1>11
    <3>2. ~ IsCall(p)
      BY <2>1 DEF MarkerOf, IsCall
    <3>3. p.kind = "result" => q.kind = "result" /\ q.call = p.call
      BY <2>1 DEF MarkerOf
    <3>4. p.kind = "media" /\ p.call # None /\ role # "assistant" => Answers(q) /\ q.call = p.call
      BY <2>1 DEF MarkerOf, Answers
    <3> QED BY <2>4, <2>5, <3>1, <3>2, <3>3, <3>4 DEF Covers, p
  <2> QED BY <1>2, <1>5, <1>11, <2>4, <2>5, <2>6, <2>7, <2>8 DEF Cut, more
<1>12. PartGone(role, s, p, t)
  BY DEF p
<1> QED BY <1>8, <1>9, <1>10, <1>11, <1>12 DEF PartGone

\* The places of a stream g that is es with event e more, its n-th.
Longer(es, e, g, n) ==
    /\ g \in Seq(Events) /\ DOMAIN g = DOMAIN es \cup {n} /\ g[n] = e
    /\ Places(g) = Places(es) \cup {<<n, j>> : j \in DOMAIN e.parts}
    /\ \A p \in Places(es) : /\ At(g, p) = At(es, p) /\ g[p[1]] = es[p[1]]
                             /\ p[1] \in Nat /\ p[1] < n
    /\ \A k \in DOMAIN es : g[k] = es[k]

\* An event more changes nothing of those before it.
LEMMA PlacesOfAppend ==
    ASSUME NEW es \in Seq(Events), NEW e \in Events
    PROVE  Longer(es, e, Append(es, e), Len(es) + 1)
<1> DEFINE g == Append(es, e)
           n == Len(es) + 1
<1>1. /\ g \in Seq(Events) /\ DOMAIN g = DOMAIN es \cup {n} /\ g[n] = e
      /\ \A k \in DOMAIN es : g[k] = es[k] /\ k \in Nat /\ k < n
  OBVIOUS
<1> HIDE DEF g, n
<1>2. Places(g) = Places(es) \cup {<<n, j>> : j \in DOMAIN e.parts}
  <2>1. ASSUME NEW p \in Places(g) PROVE p \in Places(es) \cup {<<n, j>> : j \in DOMAIN e.parts}
    <3>1. PICK k \in DOMAIN g : p \in {<<k, j>> : j \in DOMAIN g[k].parts}
      BY DEF Places
    <3> QED BY <1>1, <3>1 DEF Places
  <2>2. ASSUME NEW p \in Places(es) PROVE p \in Places(g)
    <3>1. PICK k \in DOMAIN es : p \in {<<k, j>> : j \in DOMAIN es[k].parts}
      BY DEF Places
    <3> QED BY <1>1, <3>1 DEF Places
  <2>3. ASSUME NEW p \in {<<n, j>> : j \in DOMAIN e.parts} PROVE p \in Places(g)
    BY <1>1, <2>3 DEF Places
  <2> QED BY <2>1, <2>2, <2>3
<1>3. \A p \in Places(es) : p[1] \in DOMAIN es
  BY PlacesTyped
<1>4. \A p \in Places(es) : /\ At(g, p) = At(es, p) /\ g[p[1]] = es[p[1]]
                            /\ p[1] \in Nat /\ p[1] < n
  BY <1>1, <1>3 DEF At
<1> QED BY <1>1, <1>2, <1>4 DEF Longer, g, n

\* The message an event has become so far, with one part more.
LEMMA MessageGrows ==
    ASSUME NEW es, Stream(es), NEW ps \in Seq(Parts), NEW role \in Strings, NEW q \in Parts,
           NEW i, \A p \in Places(es) : At(es, p).of[1] # i
    PROVE  Grown(es \o MessageOf(role, ps), es \o MessageOf(role, Append(ps, q)),
                 <<Len(es) + 1, Len(ps) + 1>>, q, role, i)
<1> DEFINE e == Event(role, Append(ps, q))
           n == Len(es) + 1
           h == es \o MessageOf(role, ps)
           g == es \o MessageOf(role, Append(ps, q))
           z == <<n, Len(ps) + 1>>
<1>1. /\ es \in Seq(Events) /\ \A k \in DOMAIN es : es[k].parts # <<>>
      /\ n \in Nat /\ Len(ps) \in Nat /\ Len(ps) + 1 \in Nat /\ DOMAIN ps = 1..Len(ps)
  BY DEF Stream
<1>2. /\ Append(ps, q) \in Seq(Parts) /\ Append(ps, q) # <<>>
      /\ DOMAIN Append(ps, q) = DOMAIN ps \cup {Len(ps) + 1}
      /\ Append(ps, q)[Len(ps) + 1] = q /\ \A j \in DOMAIN ps : Append(ps, q)[j] = ps[j]
  OBVIOUS
<1>3. e \in Events /\ e.parts = Append(ps, q) /\ e.role = role
  BY <1>2 DEF Event, Events
<1>4. g = Append(es, e)
  <2>1. MessageOf(role, Append(ps, q)) = <<e>>
    BY <1>2 DEF MessageOf
  <2> HIDE DEF e
  <2> QED BY <1>1, <1>3, <2>1
<1> HIDE DEF e, g, n, h
<1>5. /\ g \in Seq(Events) /\ DOMAIN g = DOMAIN es \cup {n} /\ g[n] = e
      /\ Places(g) = Places(es) \cup {<<n, j>> : j \in DOMAIN e.parts}
      /\ \A p \in Places(es) : /\ At(g, p) = At(es, p) /\ g[p[1]] = es[p[1]]
                               /\ p[1] \in Nat /\ p[1] < n
      /\ \A k \in DOMAIN es : g[k] = es[k]
  <2>1. Longer(es, e, g, n)
    BY <1>1, <1>3, <1>4, PlacesOfAppend DEF n
  <2> QED BY <2>1 DEF Longer
<1>6. Stream(g)
  BY <1>1, <1>2, <1>3, <1>5 DEF Stream
<1>7. \A j \in DOMAIN e.parts : At(g, <<n, j>>) = Append(ps, q)[j]
  BY <1>3, <1>5 DEF At
<1>8. CASE ps = <<>>
  <2>1. h = es
    BY <1>1, <1>8 DEF h, MessageOf
  <2>2. DOMAIN e.parts = {1} /\ Len(ps) + 1 = 1
    BY <1>3, <1>8
  <2>3. Places(g) = Places(es) \cup {z}
    BY <1>5, <2>2
  <2>4. At(g, z) = q /\ g[z[1]].role = role
    BY <1>2, <1>3, <1>5, <1>7, <2>2
  <2>5. \A p \in Places(es) : Before(p, z)
    BY <1>5 DEF Before
  <2> QED BY <1>5, <1>6, <2>1, <2>3, <2>4, <2>5 DEF Grown, g, h, n
<1>9. CASE ps # <<>>
  <2> DEFINE d == Event(role, ps)
  <2>1. d \in Events /\ d.parts = ps /\ d.role = role
    BY DEF Event, Events
  <2>2. h = Append(es, d)
    <3>1. MessageOf(role, ps) = <<d>>
      BY <1>9 DEF MessageOf
    <3> HIDE DEF d
    <3> QED BY <1>1, <2>1, <3>1 DEF h
  <2> HIDE DEF d
  <2>3. /\ h \in Seq(Events) /\ h[n] = d
        /\ Places(h) = Places(es) \cup {<<n, j>> : j \in DOMAIN ps}
        /\ \A p \in Places(es) : At(h, p) = At(es, p) /\ h[p[1]] = es[p[1]]
    <3>1. Longer(es, d, h, n)
      BY <1>1, <2>1, <2>2, PlacesOfAppend DEF n
    <3> QED BY <2>1, <3>1 DEF Longer
  <2>4. DOMAIN e.parts = DOMAIN ps \cup {Len(ps) + 1}
    BY <1>2, <1>3
  <2>5. Places(g) = Places(h) \cup {z}
    BY <1>5, <2>3, <2>4
  <2>6. At(g, z) = q /\ g[z[1]].role = role
    BY <1>2, <1>3, <1>5, <1>7, <2>4
  <2>7. ASSUME NEW p \in Places(h)
        PROVE  /\ At(g, p) = At(h, p) /\ g[p[1]].role = h[p[1]].role
               /\ Before(p, z) /\ (At(h, p).of[1] = i => p[1] = z[1])
    <3>1. CASE p \in Places(es)
      BY <1>5, <2>3, <3>1 DEF Before
    <3>2. CASE p \in {<<n, j>> : j \in DOMAIN ps}
      <4>1. PICK j \in DOMAIN ps : p = <<n, j>>
        BY <3>2
      <4>2. At(h, p) = ps[j] /\ At(g, p) = ps[j]
        BY <1>2, <1>7, <2>1, <2>3, <2>4, <4>1 DEF At
      <4>3. Before(p, z)
        BY <1>1, <4>1 DEF Before
      <4> QED BY <1>3, <1>5, <2>1, <2>3, <4>1, <4>2, <4>3
    <3> QED BY <2>3, <3>1, <3>2
  <2> QED BY <1>6, <2>5, <2>6, <2>7 DEF Grown, g, h, n
<1> QED BY <1>8, <1>9

\* A message stays a sequence of parts.
LEMMA PartsStayTyped ==
    ASSUME NEW role, NEW s, NEW t, NEW p \in Parts, s.parts \in Seq(Parts), PartGone(role, s, p, t)
    PROVE  /\ t = [parts |-> t.parts, files |-> t.files, took |-> t.took]
           /\ t.parts \in Seq(Parts)
<1>1. t = [parts |-> t.parts, files |-> t.files, took |-> t.took]
  BY DEF PartGone
<1>2. t.parts = s.parts \/ \E q \in Parts : t.parts = Append(s.parts, q)
  BY DEF PartGone
<1>3. t.parts \in Seq(Parts)
  BY <1>2
<1> QED BY <1>1, <1>3

-----------------------------------------------------------------------------
(* The whole session, cut. *)

Upto(i) == {a \in Places(source) : a[1] <= i}
Within(i, j) == {a \in Places(source) : a[1] < i \/ (a[1] = i /\ a[2] <= j)}

\* One event further (applyReduction's outer loop): every part of it, in order.
LEMMA EventCut ==
    ASSUME Fresh, source # <<>>, NEW i \in DOMAIN source, NEW r \in Rungs, NEW s,
           Cut(s.events, s.files, Upto(i - 1), s.took)
    PROVE  LET u == ReducedEvent(r, s, source[i]) IN Cut(u.events, u.files, Upto(i), u.took)
<1> DEFINE es == s.events
           role == source[i].role
           q == source[i].parts
           n == Len(q)
           b == [parts |-> <<>>, files |-> s.files, took |-> s.took]
<1>1. /\ i \in Nat /\ source[i] \in Events /\ role \in Strings /\ q \in Seq(Parts)
      /\ n \in Nat /\ DOMAIN q = 1..n
  <2>1. i \in Nat /\ source[i] \in Events
    BY DEF Fresh
  <2> QED BY <2>1 DEF Events
<1>2. PICK chain :
        /\ chain[0] = b
        /\ \A j \in 1..n : chain[j] = Reduced(r, role, chain[j - 1], q[j])
        /\ PartsFolded(r, role, b, q) = chain[n]
  <2>1. \E chain : PartChain(r, role, b, n, q, chain)
    <3> HIDE DEF role, q, n, b
    <3> QED BY <1>1, PartsInOrder
  <2> QED BY <2>1 DEF PartChain
<1>3. /\ Stream(es) /\ s.took \in Nat /\ s.files \in Seq(Archives)
      /\ \A p \in Places(es) : At(es, p).of \in Upto(i - 1)
  BY DEF Cut, Filed, Stands
<1> DEFINE SoFar(j) == es \o MessageOf(role, chain[j].parts)
           T == {j \in 0..n : /\ chain[j] \in PartState
                              /\ Cut(SoFar(j), chain[j].files, Within(i, j), chain[j].took)}
<1>4. \A a \in Places(source) : a \in Nat \X Nat /\ a[1] \in DOMAIN source /\ a[2] \in DOMAIN source[a[1]].parts
  BY PlacesTyped DEF Fresh
<1>5. 0 \in T
  <2>1. Within(i, 0) = Upto(i - 1)
    <3>1. \A a \in Places(source) : a[1] \in Nat /\ a[2] \in Nat /\ (a[1] = i => a[2] \in 1..n)
      BY <1>1, <1>4
    <3> HIDE DEF q, n
    <3>2. \A a \in Places(source) : (a[1] < i \/ (a[1] = i /\ a[2] <= 0)) <=> a[1] <= i - 1
      BY <1>1, <3>1
    <3> QED BY <3>2 DEF Within, Upto
  <2>2. chain[0].parts = <<>> /\ chain[0].files = s.files /\ chain[0].took = s.took
    BY <1>2
  <2>3. MessageOf(role, <<>>) = <<>>
    BY DEF MessageOf
  <2>4. es \o <<>> = es
    BY <1>3 DEF Stream
  <2>5. SoFar(0) = es
    BY <2>2, <2>3, <2>4
  <2>6. chain[0] \in PartState
    BY <1>2, <1>3 DEF PartState
  <2>7. 0 \in 0..n
    BY <1>1
  <2> HIDE DEF es, q, n, b
  <2> QED BY <2>1, <2>2, <2>5, <2>6, <2>7 DEF es
<1>6. ASSUME NEW j \in 0..(n - 1), j \in T PROVE j + 1 \in T
  <2> DEFINE a == <<i, j + 1>>
             p == q[j + 1]
             h == SoFar(j)
             g == SoFar(j + 1)
             c == chain[j]
             d == chain[j + 1]
  <2>1. j + 1 \in 1..n /\ j + 1 \in 0..n /\ (j + 1) - 1 = j /\ j \in Nat
    BY <1>1
  <2>2. d = Reduced(r, role, c, p)
    BY <1>2, <2>1
  <2>3. a \in Places(source) /\ At(source, a) = p /\ a[1] = i /\ a[2] = j + 1
    BY <1>1, <2>1 DEF Places, At
  <2>4. p \in Parts /\ p.of = a /\ Allowed(role, p) /\ FileName(role, p) \in Names
    <3>1. NameOf(a) \in Names
      BY <2>3, PlaceIsNamed
    <3>2. Valid(source)
      BY DEF Fresh
    <3>3. Allowed(role, p)
      BY <2>3, <3>2 DEF Valid
    <3> HIDE DEF p
    <3> QED BY <2>3, <3>1, <3>3, PlacesTyped DEF Fresh, NameOf
  <2>5. c \in PartState /\ Cut(h, c.files, Within(i, j), c.took)
    BY <1>6
  <2>6. PartGone(role, c, p, d)
    <3> HIDE DEF p, c, d, a, role
    <3> QED BY <2>2, <2>4, <2>5, PartStep
  <2>7. Within(i, j + 1) = Within(i, j) \cup {a} /\ a \notin Within(i, j) /\ Within(i, j) \subseteq Places(source)
    <3>1. ASSUME NEW x \in Places(source)
          PROVE  (x[1] = i /\ x[2] <= j + 1) <=> (x[1] = i /\ x[2] <= j) \/ x = a
      <4>1. PICK m, k \in Nat : x = <<m, k>>
        BY <1>4
      <4> QED BY <1>1, <2>1, <4>1
    <3>2. \A x \in Places(source) : x \in Within(i, j + 1) <=> x \in Within(i, j) \cup {a}
      BY <3>1, <2>3 DEF Within
    <3>3. ~(j + 1 <= j) /\ ~(i < i)
      BY <1>1, <2>1
    <3> HIDE DEF a
    <3> QED BY <2>3, <3>2, <3>3 DEF Within
  <2>8. \A x \in Within(i, j) : Before(x, a)
    <3> SUFFICES ASSUME NEW x \in Within(i, j) PROVE Before(x, a)
      OBVIOUS
    <3>1. PICK m, k \in Nat : x = <<m, k>>
      BY <1>4 DEF Within
    <3> QED BY <1>1, <2>1, <3>1 DEF Within, Before
  <2>9. d.parts = c.parts => g = h
    OBVIOUS
  <2>10. \A x \in Parts : d.parts = Append(c.parts, x) /\ x.of = a =>
            \E z : Grown(h, g, z, x, role, a[1])
    <3>1. \A y \in Places(es) : At(es, y).of[1] # i
      <4>1. \A y \in Upto(i - 1) : y[1] # i
        BY <1>1, <1>4 DEF Upto
      <4> QED BY <1>3, <4>1
    <3>2. c.parts \in Seq(Parts)
      BY <2>5 DEF PartState
    <3> SUFFICES ASSUME NEW x \in Parts, d.parts = Append(c.parts, x)
                 PROVE  \E z : Grown(h, g, z, x, role, a[1])
      OBVIOUS
    <3>3. h = es \o MessageOf(role, c.parts) /\ g = es \o MessageOf(role, Append(c.parts, x))
      OBVIOUS
    <3> HIDE DEF h, g, c, d, es, role, a
    <3> QED BY <1>1, <1>3, <2>3, <3>1, <3>2, <3>3, MessageGrows
  <2>11. Cut(g, d.files, Within(i, j + 1), d.took)
    <3> DEFINE done == Within(i, j)
    <3>1. role = source[a[1]].role /\ a \in Places(source) /\ done \in SUBSET Places(source) /\ a \notin done
      BY <2>3, <2>7
    <3>2. \A x \in done : Before(x, a)
      BY <2>8
    <3>3. Cut(h, c.files, done, c.took) /\ PartGone(role, c, At(source, a), d)
      BY <2>3, <2>5, <2>6
    <3> HIDE DEF h, g, c, d, p, a, role, done
    <3>4. Cut(g, d.files, done \cup {a}, d.took)
      BY <2>9, <2>10, <3>1, <3>2, <3>3, PartCut
    <3> QED BY <2>7, <3>4 DEF done
  <2>12. d \in PartState
    <3>1. d = [parts |-> d.parts, files |-> d.files, took |-> d.took] /\ d.parts \in Seq(Parts)
      <4>1. c.parts \in Seq(Parts)
        BY <2>5 DEF PartState
      <4> HIDE DEF c, d, p, role
      <4> QED BY <2>4, <2>6, <4>1, PartsStayTyped
    <3>2. d.files \in Seq(Archives) /\ d.took \in Nat
      BY <2>11 DEF Cut, Filed
    <3> HIDE DEF d
    <3> QED BY <3>1, <3>2 DEF PartState
  <2> QED BY <2>1, <2>11, <2>12
<1>7. n \in T
  <2>1. \A j \in 0..(n - 1) : j \in T => j + 1 \in T
    BY <1>6
  <2> HIDE DEF T, n
  <2>2. \A j \in 0..n : j \in T
    BY <1>1, <1>5, <2>1, Stepwise
  <2> QED BY <1>1, <2>2
<1>8. Within(i, n) = Upto(i)
  <2>1. \A a \in Places(source) : a[1] \in Nat /\ a[2] \in Nat /\ (a[1] = i => a[2] \in 1..n)
    BY <1>1, <1>4
  <2> HIDE DEF q, n
  <2>2. \A a \in Places(source) : (a[1] < i \/ (a[1] = i /\ a[2] <= n)) <=> a[1] <= i
    BY <1>1, <2>1
  <2> QED BY <2>2 DEF Within, Upto
<1>9. LET u == ReducedEvent(r, s, source[i]) IN
        u.events = SoFar(n) /\ u.files = chain[n].files /\ u.took = chain[n].took
  <2>1. ReducedEvent(r, s, source[i]) =
          LET u == PartsFolded(r, role, b, q)
          IN  [events |-> es \o MessageOf(role, u.parts), files |-> u.files, took |-> u.took]
    BY DEF ReducedEvent, PartsFolded
  <2> HIDE DEF es, role, q, n, b
  <2> QED BY <1>2, <2>1
<1>10. Cut(SoFar(n), chain[n].files, Upto(i), chain[n].took)
  BY <1>7, <1>8
<1> HIDE DEF SoFar
<1> QED BY <1>9, <1>10

\* applyReduction's loop: once the whole session is cut, every part of it is
\* accounted for.
LEMMA SourceCut ==
    ASSUME Fresh, source # <<>>, NEW r \in Rungs
    PROVE  LET u == FoldLeft(LAMBDA s, e : ReducedEvent(r, s, e),
                             [events |-> <<>>, files |-> <<>>, took |-> 0], source)
           IN  Cut(u.events, u.files, Places(source), u.took)
<1> DEFINE b == [events |-> <<>>, files |-> <<>>, took |-> 0]
           n == Len(source)
<1>1. n \in Nat /\ DOMAIN source = 1..n
  BY DEF Fresh
<1>2. PICK chain :
        /\ chain[0] = b
        /\ \A i \in 1..n : chain[i] = ReducedEvent(r, chain[i - 1], source[i])
        /\ EventsFolded(r, b, source) = chain[n]
  <2> HIDE DEF b, n
  <2> QED BY <1>1, EventsInOrder
<1> DEFINE T == {i \in 0..n : Cut(chain[i].events, chain[i].files, Upto(i), chain[i].took)}
<1>3. \A a \in Places(source) : a[1] \in 1..n
  BY <1>1, PlacesTyped DEF Fresh
<1>4. 0 \in T
  <2>1. Places(<<>>) = {} /\ Upto(0) = {}
    BY <1>1, <1>3 DEF Places, Upto
  <2>2. Stream(<<>>) /\ Filed(<<>>, {})
    BY DEF Stream, Filed, OwnNames
  <2>3. Cut(<<>>, <<>>, {}, 0)
    BY <2>1, <2>2 DEF Cut, Ordered
  <2>4. chain[0].events = <<>> /\ chain[0].files = <<>> /\ chain[0].took = 0
    BY <1>2
  <2>5. Cut(chain[0].events, chain[0].files, Upto(0), chain[0].took)
    <3>1. /\ chain[0].events = <<>> /\ chain[0].files = <<>>
          /\ Upto(0) = {} /\ chain[0].took = 0
      BY <2>1, <2>4
    <3> QED BY <2>3, <3>1, Zenon
  <2>6. 0 \in 0..n
    BY <1>1
  <2> QED BY <2>5, <2>6
<1>5. ASSUME NEW i \in 0..(n - 1), i \in T PROVE i + 1 \in T
  <2> DEFINE s == chain[i]
             u == chain[i + 1]
  <2>1. i + 1 \in 1..n /\ i + 1 \in 0..n /\ (i + 1) - 1 = i
    BY <1>1
  <2>2. u = ReducedEvent(r, s, source[i + 1])
    BY <1>2, <2>1
  <2>3. Cut(s.events, s.files, Upto((i + 1) - 1), s.took)
    BY <1>5, <2>1
  <2> HIDE DEF s, u, n
  <2>4. Cut(u.events, u.files, Upto(i + 1), u.took)
    BY <1>1, <2>1, <2>2, <2>3, EventCut
  <2> QED BY <2>1, <2>4 DEF u
<1>6. n \in T
  <2>1. \A i \in 0..(n - 1) : i \in T => i + 1 \in T
    BY <1>5
  <2> HIDE DEF T, n
  <2>2. \A i \in 0..n : i \in T
    BY <1>1, <1>4, <2>1, Stepwise
  <2> QED BY <1>1, <2>2
<1>7. Upto(n) = Places(source)
  BY <1>1, <1>3 DEF Upto
<1>8. EventsFolded(r, b, source) =
        FoldLeft(LAMBDA s, e : ReducedEvent(r, s, e),
                 [events |-> <<>>, files |-> <<>>, took |-> 0], source)
  BY DEF EventsFolded
<1>9. LET u == EventsFolded(r, b, source) IN Cut(u.events, u.files, Places(source), u.took)
  BY <1>2, <1>6, <1>7
<1> HIDE DEF b, n
<1> QED BY <1>8, <1>9

-----------------------------------------------------------------------------
(* What the cut keeps of Session.Validate: everything but, where pictures of *)
(* two events answer one call, that no call has results in two events.       *)

Proper(h) ==
    /\ \A i \in DOMAIN h : h[i].role \in {"user", "assistant", "tool", "plan"} /\ h[i].parts # <<>>
    /\ \A p \in Places(h) : Allowed(h[p[1]].role, At(h, p))
    /\ \A p, q \in CallPlaces(h) : At(h, p).call = At(h, q).call => p = q
    /\ \A p \in Where(h, Answers) :
          \E q \in CallPlaces(h) : At(h, q).call = At(h, p).call /\ Before(q, p)
OneResult(h) == \A p, q \in Places(h) :
    At(h, p).kind = "result" /\ At(h, q).kind = "result" /\ At(h, p).call = At(h, q).call
    => p[1] = q[1]

\* No two parts of a cut come from one place of the source.
LEMMA CutIsOneToOne ==
    ASSUME Fresh, NEW h, NEW fs, NEW took, Cut(h, fs, Places(source), took)
    PROVE  \A p, q \in Places(h) : At(h, p).of = At(h, q).of => p = q
<1>1. Stream(h) /\ Ordered(h) /\ \A z \in Places(h) : Stands(h, fs, Places(source), z)
  BY DEF Cut
<1>2. Places(h) \subseteq Nat \X Nat /\ Places(source) \subseteq Nat \X Nat
  BY <1>1, PlacesTyped DEF Stream, Fresh
<1> SUFFICES ASSUME NEW p \in Places(h), NEW q \in Places(h), At(h, p).of = At(h, q).of, p # q
             PROVE  FALSE
  OBVIOUS
<1>3. Before(p, q) \/ Before(q, p)
  BY <1>2, BeforeIsStrict
<1>4. Before(At(h, p).of, At(h, p).of)
  BY <1>1, <1>3 DEF Ordered
<1>5. At(h, p).of \in Nat \X Nat
  BY <1>1, <1>2 DEF Stands
<1> QED BY <1>4, <1>5, BeforeIsStrict

\* The cut of a valid session is proper: each part's form is one its role may
\* hold, each call is there once, and each answer has its call before it.
LEMMA CutIsProper ==
    ASSUME Fresh, source # <<>>, NEW h, NEW fs, NEW took, Cut(h, fs, Places(source), took)
    PROVE  Proper(h)
<1>1. /\ Stream(h) /\ Ordered(h)
      /\ \A z \in Places(h) : Stands(h, fs, Places(source), z)
      /\ \A a \in Places(source) : Covers(h, fs, took, a)
  BY DEF Cut
<1>2. /\ Places(h) \subseteq Nat \X Nat /\ Places(source) \subseteq Nat \X Nat
      /\ \A a \in Places(source) : a[1] \in DOMAIN source /\ At(source, a).of = a
  BY <1>1, PlacesTyped DEF Stream, Fresh
<1>3. Valid(source)
  BY DEF Fresh
<1>4. ASSUME NEW i \in DOMAIN h
      PROVE  h[i].role \in {"user", "assistant", "tool", "plan"} /\ h[i].parts # <<>>
  <2>1. h[i] \in Events /\ h[i].parts # <<>>
    BY <1>1 DEF Stream
  <2>2. h[i].parts \in Seq(Parts)
    BY <2>1 DEF Events
  <2>3. 1 \in DOMAIN h[i].parts
    BY <2>1, <2>2
  <2>4. <<i, 1>> \in Places(h)
    BY <2>3 DEF Places
  <2>5. PICK a \in Places(source) : h[i].role = source[a[1]].role
    BY <1>1, <2>4 DEF Stands
  <2> QED BY <1>2, <1>3, <2>1, <2>5 DEF Valid
<1>5. ASSUME NEW p \in Places(h) PROVE Allowed(h[p[1]].role, At(h, p))
  BY <1>1 DEF Stands
<1>6. ASSUME NEW p \in CallPlaces(h), NEW q \in CallPlaces(h), At(h, p).call = At(h, q).call PROVE p = q
  <2>1. p \in Places(h) /\ q \in Places(h) /\ IsCall(At(h, p)) /\ IsCall(At(h, q))
    BY DEF CallPlaces, Where
  <2> DEFINE a == At(h, p).of
             b == At(h, q).of
  <2>2. a \in Places(source) /\ b \in Places(source) /\ At(source, a) = At(h, p) /\ At(source, b) = At(h, q)
    BY <1>1, <2>1 DEF Stands
  <2> HIDE DEF a, b
  <2>3. a \in CallPlaces(source) /\ b \in CallPlaces(source)
    BY <2>1, <2>2 DEF CallPlaces, Where
  <2>4. a = b
    BY <1>3, <1>6, <2>2, <2>3 DEF Valid
  <2> QED BY <2>1, <2>4, CutIsOneToOne DEF a, b
<1>7. ASSUME NEW p \in Where(h, Answers)
      PROVE  \E q \in CallPlaces(h) : At(h, q).call = At(h, p).call /\ Before(q, p)
  <2>1. p \in Places(h) /\ Answers(At(h, p))
    BY DEF Where
  <2> DEFINE a == At(h, p).of
  <2>2. a \in Places(source) /\ Answers(At(source, a)) /\ At(source, a).call = At(h, p).call
    BY <1>1, <2>1 DEF Stands
  <2>3. a \in Where(source, Answers)
    BY <2>2 DEF Where
  <2>4. PICK w \in CallPlaces(source) : At(source, w).call = At(source, a).call /\ Before(w, a)
    BY <1>3, <2>3 DEF Valid
  <2>5. w \in Places(source) /\ IsCall(At(source, w))
    BY DEF CallPlaces, Where
  <2>6. PICK z \in Places(h) : At(h, z) = At(source, w)
    BY <1>1, <2>5 DEF Covers
  <2>7. z \in CallPlaces(h) /\ At(h, z).call = At(h, p).call /\ At(h, z).of = w
    BY <1>2, <2>2, <2>4, <2>5, <2>6 DEF CallPlaces, Where
  <2>8. Before(z, p)
    <3> SUFFICES ASSUME ~ Before(z, p) PROVE FALSE
      OBVIOUS
    <3>1. z = p \/ Before(p, z)
      BY <1>2, <2>1, BeforeIsStrict
    <3>2. w = a \/ Before(a, w)
      BY <1>1, <2>1, <2>7, <3>1 DEF Ordered
    <3> QED BY <1>2, <2>2, <2>4, <2>5, <3>2, BeforeIsStrict
  <2> QED BY <2>7, <2>8
<1> QED BY <1>4, <1>5, <1>6, <1>7 DEF Proper

\* archiveMedia's look at the whole session: a picture becomes no second result
\* of a call that has one, unless two pictures of two events become it.
LEMMA CutHasOneResult ==
    ASSUME Fresh, source # <<>>, NEW h, NEW fs, NEW took, Cut(h, fs, Places(source), took),
           ~ PicturesApart
    PROVE  OneResult(h)
<1> SUFFICES ASSUME NEW p \in Places(h), NEW q \in Places(h),
                    At(h, p).kind = "result", At(h, q).kind = "result", At(h, p).call = At(h, q).call
             PROVE  p[1] = q[1]
  BY DEF OneResult
<1> DEFINE a == At(h, p).of
           b == At(h, q).of
           Shown(x) == x.kind = "media" /\ x.call # None
<1>1. Valid(source) /\ \A x \in Places(source) : At(source, x).of = x
  BY DEF Fresh
<1>2. /\ Ordered(h) /\ a \in Places(source) /\ b \in Places(source)
      /\ At(source, a).call = At(source, b).call
      /\ At(source, a).kind = "result" \/ (Shown(At(source, a)) /\ ~ ResultElsewhere(At(source, a)))
      /\ At(source, b).kind = "result" \/ (Shown(At(source, b)) /\ ~ ResultElsewhere(At(source, b)))
  BY DEF Cut, Stands, Answers
<1> HIDE DEF a, b
<1>3. a[1] = b[1]
  <2>1. CASE At(source, a).kind = "result" /\ At(source, b).kind = "result"
    BY <1>1, <1>2, <2>1 DEF Valid
  <2>2. CASE At(source, a).kind = "result" /\ ~ ResultElsewhere(At(source, b))
    <3>1. a \in Where(source, LAMBDA x : x.kind = "result")
      BY <1>2, <2>2 DEF Where
    <3> QED BY <1>1, <1>2, <2>2, <3>1 DEF ResultElsewhere
  <2>3. CASE At(source, b).kind = "result" /\ ~ ResultElsewhere(At(source, a))
    <3>1. b \in Where(source, LAMBDA x : x.kind = "result")
      BY <1>2, <2>3 DEF Where
    <3> QED BY <1>1, <1>2, <2>3, <3>1 DEF ResultElsewhere
  <2>4. CASE Shown(At(source, a)) /\ Shown(At(source, b))
    BY <1>2, <2>4 DEF PicturesApart, Where
  <2> QED BY <1>2, <2>1, <2>2, <2>3, <2>4
<1> QED BY <1>2, <1>3 DEF Ordered, a, b

\* A call that was answered is answered in the cut (compact.go archiveMedia).
LEMMA CutStaysAnswered ==
    ASSUME Fresh, source # <<>>, NEW h, NEW fs, NEW took, Cut(h, fs, Places(source), took),
           ~ SelfAnswered
    PROVE  Dangling(h) \subseteq Dangling(source)
<1> SUFFICES ASSUME NEW c \in Dangling(h) PROVE c \in Dangling(source)
  OBVIOUS
<1>1. /\ \A z \in Places(h) : Stands(h, fs, Places(source), z)
      /\ \A a \in Places(source) : Covers(h, fs, took, a)
  BY DEF Cut
<1>2. c \in Calls(source)
  <2>1. PICK p \in CallPlaces(h) : At(h, p).call = c
    BY DEF Dangling, Calls
  <2>2. p \in Places(h) /\ IsCall(At(h, p))
    BY DEF CallPlaces, Where
  <2>3. PICK a \in Places(source) : At(source, a) = At(h, p)
    BY <1>1, <2>2 DEF Stands
  <2> QED BY <2>1, <2>2, <2>3 DEF Calls, CallPlaces, Where
<1>3. ASSUME NEW z \in Places(h), Answers(At(h, z)), At(h, z).call = c PROVE FALSE
  <2>1. z \in Where(h, Answers)
    BY <1>3 DEF Where
  <2> QED BY <1>3, <2>1 DEF Dangling, Answered
<1>4. ASSUME NEW w \in Places(source), At(source, w).kind = "result", At(source, w).call = c PROVE FALSE
  <2>1. PICK z \in Places(h) : At(h, z).kind = "result" /\ At(h, z).call = c
    BY <1>1, <1>4 DEF Covers
  <2> QED BY <1>3, <2>1 DEF Answers
<1>5. c \notin Answered(source)
  <2> SUFFICES ASSUME c \in Answered(source) PROVE FALSE
    OBVIOUS
  <2>1. PICK w \in Where(source, Answers) : At(source, w).call = c
    BY DEF Answered
  <2>2. w \in Places(source) /\ Answers(At(source, w))
    BY DEF Where
  <2>3. At(source, w).kind = "media" /\ At(source, w).call # None
    BY <1>4, <2>1, <2>2 DEF Answers
  <2>4. source[w[1]].role # "assistant"
    BY <2>2, <2>3 DEF SelfAnswered, Where
  <2>5. ~ ResultElsewhere(At(source, w))
    BY <1>4, <2>1 DEF ResultElsewhere, Where
  <2>6. PICK z \in Places(h) : Answers(At(h, z)) /\ At(h, z).call = c
    BY <1>1, <2>1, <2>2, <2>3, <2>4, <2>5 DEF Covers
  <2> QED BY <1>3, <2>6
<1> QED BY <1>2, <1>5 DEF Dangling

-----------------------------------------------------------------------------
(* What the collapse and the digest make of the cut: g is some of the events *)
(* of h, in their order, with a note at n; its k-th is h's m[k]-th.          *)

IsNote(e, body, name) == e = Event("user", <<Note(body, name)>>) /\ body # None
Selects(h, g, n, m) ==
    /\ DOMAIN g \subseteq Nat /\ n \in DOMAIN g
    /\ \A k \in DOMAIN g \ {n} : m[k] \in DOMAIN h /\ g[k] = h[m[k]]
    /\ \A k, l \in DOMAIN g \ {n} : k < l => m[k] < m[l]

\* A call and its answer go or stay together.
Unparted(h, g, n, m) ==
    LET stays(p) == \E k \in DOMAIN g \ {n} : p[1] = m[k] IN
    \A p \in Where(h, Answers), q \in CallPlaces(h) :
        At(h, p).call = At(h, q).call => (stays(p) <=> stays(q))

\* Where the parts of a selection come from.
Drawn(h, g, n, m, note) ==
    /\ \A p \in Places(g) : p[1] \in DOMAIN g /\ p = <<p[1], p[2]>> /\ p[2] \in Nat
    /\ <<n, 1>> \in Places(g) /\ At(g, <<n, 1>>) = note /\ g[n].role = "user"
    /\ \A p \in Places(g) : p[1] = n => p = <<n, 1>>
    /\ \A p \in Places(g) : p[1] # n =>
          LET y == <<m[p[1]], p[2]>> IN
          y \in Places(h) /\ At(g, p) = At(h, y) /\ g[p[1]].role = h[y[1]].role
    /\ \A k \in DOMAIN g \ {n} : \A y \in Places(h) : y[1] = m[k] =>
          <<k, y[2]>> \in Places(g) /\ At(g, <<k, y[2]>>) = At(h, y)

\* A selection's parts are the note and those of the events selected.
LEMMA SelectedPlaces ==
    ASSUME NEW h \in Seq(Events), NEW g, NEW n, NEW m, Selects(h, g, n, m),
           NEW body, NEW name, IsNote(g[n], body, name)
    PROVE  Drawn(h, g, n, m, Note(body, name))
<1>1. g[n].role = "user" /\ g[n].parts = <<Note(body, name)>>
  BY DEF IsNote, Event
<1>2. DOMAIN g[n].parts = {1} /\ g[n].parts[1] = Note(body, name)
  BY <1>1
<1>3. ASSUME NEW p \in Places(g)
      PROVE  /\ p[1] \in DOMAIN g /\ p = <<p[1], p[2]>> /\ p[2] \in DOMAIN g[p[1]].parts /\ p[2] \in Nat
             /\ p[1] = n => p = <<n, 1>>
             /\ p[1] # n =>
                 LET y == <<m[p[1]], p[2]>> IN
                 y \in Places(h) /\ At(g, p) = At(h, y) /\ g[p[1]].role = h[y[1]].role
  <2>1. PICK k \in DOMAIN g : \E j \in DOMAIN g[k].parts : p = <<k, j>>
    BY DEF Places
  <2>2. PICK j \in DOMAIN g[k].parts : p = <<k, j>>
    BY <2>1
  <2>3. CASE k = n
    BY <1>2, <2>2, <2>3
  <2>4. CASE k # n
    <3>1. m[k] \in DOMAIN h /\ g[k] = h[m[k]]
      BY <2>4 DEF Selects
    <3>2. <<m[k], j>> \in Places(h)
      BY <2>2, <3>1 DEF Places
    <3>3. j \in Nat
      <4>1. h[m[k]] \in Events
        BY <3>1
      <4>2. h[m[k]].parts \in Seq(Parts)
        BY <4>1 DEF Events
      <4> QED BY <3>1, <4>2
    <3> QED BY <2>2, <2>4, <3>1, <3>2, <3>3 DEF At
  <2> QED BY <2>3, <2>4
<1>4. <<n, 1>> \in Places(g) /\ At(g, <<n, 1>>) = Note(body, name)
  BY <1>2 DEF Selects, Places, At
<1>5. ASSUME NEW k \in DOMAIN g \ {n}, NEW y \in Places(h), y[1] = m[k]
      PROVE  <<k, y[2]>> \in Places(g) /\ At(g, <<k, y[2]>>) = At(h, y)
  <2>1. y[2] \in DOMAIN h[y[1]].parts
    BY PlacesTyped
  <2>2. g[k] = h[m[k]]
    BY DEF Selects
  <2> QED BY <1>5, <2>1, <2>2 DEF Places, At
<1> QED BY <1>1, <1>3, <1>4, <1>5 DEF Drawn

\* A selection that parts no call from its answer is proper when h is, has one
\* event of results for a call when h has, and leaves no more calls unanswered
\* (compact.go collapseOldTurns: pairs never straddle the boundary).
LEMMA SelectionStaysValid ==
    ASSUME NEW h \in Seq(Events), NEW g, NEW n, NEW m, Selects(h, g, n, m), Unparted(h, g, n, m),
           NEW body, NEW name, IsNote(g[n], body, name), Proper(h)
    PROVE  Proper(g) /\ (OneResult(h) => OneResult(g)) /\ Dangling(g) \subseteq Dangling(h)
<1> DEFINE Old(p) == <<m[p[1]], p[2]>>
<1>1. /\ \A p \in Places(g) : p[1] \in DOMAIN g /\ p = <<p[1], p[2]>> /\ p[2] \in Nat
      /\ <<n, 1>> \in Places(g) /\ At(g, <<n, 1>>) = Note(body, name) /\ g[n].role = "user"
      /\ \A p \in Places(g) : p[1] = n => p = <<n, 1>>
      /\ \A p \in Places(g) : p[1] # n =>
            Old(p) \in Places(h) /\ At(g, p) = At(h, Old(p)) /\ g[p[1]].role = h[Old(p)[1]].role
      /\ \A k \in DOMAIN g \ {n} : \A y \in Places(h) : y[1] = m[k] =>
            <<k, y[2]>> \in Places(g) /\ At(g, <<k, y[2]>>) = At(h, y)
  <2>1. Drawn(h, g, n, m, Note(body, name))
    BY SelectedPlaces
  <2> QED BY <2>1 DEF Drawn
<1>2. /\ ~ IsCall(Note(body, name)) /\ ~ Answers(Note(body, name)) /\ Note(body, name).kind # "result"
      /\ Allowed("user", Note(body, name))
  BY DEF IsNote, Note, IsCall, Answers, Allowed, Content
<1>3. \A p \in Places(g) : IsCall(At(g, p)) \/ Answers(At(g, p)) \/ At(g, p).kind = "result" => p[1] # n
  BY <1>1, <1>2
<1>4. \A k, l \in DOMAIN g \ {n} : m[k] = m[l] => k = l
  <2> SUFFICES ASSUME NEW k \in DOMAIN g \ {n}, NEW l \in DOMAIN g \ {n}, m[k] = m[l], k # l
               PROVE  FALSE
    OBVIOUS
  <2>1. k \in Nat /\ l \in Nat /\ m[k] \in Nat /\ m[l] \in Nat
    BY DEF Selects
  <2>2. k < l \/ l < k
    BY <2>1
  <2> QED BY <2>1, <2>2 DEF Selects
<1>5. \A k, l \in DOMAIN g \ {n} : m[k] < m[l] => k < l
  <2> SUFFICES ASSUME NEW k \in DOMAIN g \ {n}, NEW l \in DOMAIN g \ {n}, m[k] < m[l], ~(k < l)
               PROVE  FALSE
    OBVIOUS
  <2>1. k \in Nat /\ l \in Nat /\ m[k] \in Nat /\ m[l] \in Nat
    BY DEF Selects
  <2>2. k = l \/ l < k
    BY <2>1
  <2> QED BY <2>1, <2>2 DEF Selects
<1>6. \A p, q \in Places(g) : p[1] # n /\ q[1] # n /\ Old(p) = Old(q) => p = q
  <2> SUFFICES ASSUME NEW p \in Places(g), NEW q \in Places(g), p[1] # n, q[1] # n, Old(p) = Old(q)
               PROVE  p = q
    OBVIOUS
  <2>1. m[p[1]] = m[q[1]] /\ p[2] = q[2]
    OBVIOUS
  <2>2. p[1] = q[1]
    BY <1>1, <1>4, <2>1
  <2> QED BY <1>1, <2>1, <2>2
<1>7. ASSUME NEW i \in DOMAIN g
      PROVE  g[i].role \in {"user", "assistant", "tool", "plan"} /\ g[i].parts # <<>>
  <2>1. CASE i = n
    <3>1. g[i].parts = <<Note(body, name)>> /\ g[i].role = "user"
      BY <2>1 DEF IsNote, Event
    <3> QED BY <3>1
  <2>2. CASE i # n
    BY <2>2 DEF Selects, Proper
  <2> QED BY <2>1, <2>2
<1>8. ASSUME NEW p \in Places(g) PROVE Allowed(g[p[1]].role, At(g, p))
  <2>1. CASE p[1] = n
    BY <1>1, <1>2, <2>1
  <2>2. CASE p[1] # n
    BY <1>1, <2>2 DEF Proper
  <2> QED BY <2>1, <2>2
<1>9. ASSUME NEW p \in CallPlaces(g) PROVE p \in Places(g) /\ p[1] # n /\ Old(p) \in CallPlaces(h)
  <2>1. p \in Places(g) /\ IsCall(At(g, p))
    BY DEF CallPlaces, Where
  <2> QED BY <1>1, <1>3, <2>1 DEF CallPlaces, Where
<1>10. ASSUME NEW p \in Where(g, Answers) PROVE p \in Places(g) /\ p[1] # n /\ Old(p) \in Where(h, Answers)
  <2>1. p \in Places(g) /\ Answers(At(g, p))
    BY DEF Where
  <2> QED BY <1>1, <1>3, <2>1 DEF Where
<1>11. ASSUME NEW p \in CallPlaces(g), NEW q \in CallPlaces(g), At(g, p).call = At(g, q).call PROVE p = q
  <2>1. At(h, Old(p)).call = At(h, Old(q)).call
    BY <1>1, <1>9, <1>11
  <2>2. Old(p) = Old(q)
    BY <1>9, <2>1 DEF Proper
  <2> QED BY <1>6, <1>9, <2>2
<1>12. ASSUME NEW p \in Where(g, Answers)
       PROVE  \E q \in CallPlaces(g) : At(g, q).call = At(g, p).call /\ Before(q, p)
  <2>1. PICK y \in CallPlaces(h) : At(h, y).call = At(h, Old(p)).call /\ Before(y, Old(p))
    BY <1>10 DEF Proper
  <2>2. y \in Places(h) /\ IsCall(At(h, y))
    BY DEF CallPlaces, Where
  <2>3. PICK k \in DOMAIN g \ {n} : y[1] = m[k]
    <3>1. p[1] \in DOMAIN g \ {n} /\ Old(p)[1] = m[p[1]]
      BY <1>1, <1>10
    <3> QED BY <1>10, <2>1, <3>1 DEF Unparted
  <2> DEFINE q == <<k, y[2]>>
  <2>4. q \in Places(g) /\ At(g, q) = At(h, y)
    BY <1>1, <2>2, <2>3
  <2>5. q \in CallPlaces(g) /\ At(g, q).call = At(g, p).call
    BY <1>1, <1>10, <2>1, <2>2, <2>4 DEF CallPlaces, Where
  <2>6. Before(q, p)
    <3>1. m[k] < m[p[1]] \/ (m[k] = m[p[1]] /\ y[2] < p[2])
      BY <2>1, <2>3 DEF Before
    <3>2. k < p[1] \/ (k = p[1] /\ y[2] < p[2])
      BY <1>1, <1>4, <1>5, <1>10, <3>1
    <3> QED BY <3>2 DEF Before
  <2> QED BY <2>5, <2>6
<1>13. ASSUME OneResult(h), NEW p \in Places(g), NEW q \in Places(g),
              At(g, p).kind = "result", At(g, q).kind = "result", At(g, p).call = At(g, q).call
       PROVE  p[1] = q[1]
  <2>1. p[1] # n /\ q[1] # n
    BY <1>3, <1>13
  <2> DEFINE y == Old(p)
             z == Old(q)
  <2>2. /\ y \in Places(h) /\ At(g, p) = At(h, y)
        /\ z \in Places(h) /\ At(g, q) = At(h, z)
    BY <1>1, <2>1
  <2>3. m[p[1]] = m[q[1]]
    <3>1. y[1] = m[p[1]] /\ z[1] = m[q[1]]
      OBVIOUS
    <3> HIDE DEF y, z
    <3>2. y[1] = z[1]
      BY <1>13, <2>2 DEF OneResult
    <3> QED BY <3>1, <3>2
  <2> QED BY <1>1, <1>4, <2>1, <2>3
<1>14. ASSUME NEW c \in Dangling(g) PROVE c \in Dangling(h)
  <2>1. PICK p \in CallPlaces(g) : At(g, p).call = c
    BY DEF Dangling, Calls
  <2>2. Old(p) \in CallPlaces(h) /\ At(h, Old(p)).call = c
    BY <1>1, <1>9, <2>1
  <2>3. ASSUME NEW y \in Where(h, Answers), At(h, y).call = c PROVE FALSE
    <3>1. y \in Places(h) /\ Answers(At(h, y))
      BY DEF Where
    <3>2. PICK k \in DOMAIN g \ {n} : y[1] = m[k]
      <4>1. p[1] \in DOMAIN g \ {n} /\ Old(p)[1] = m[p[1]]
        BY <1>1, <1>9
      <4> QED BY <2>2, <2>3, <4>1 DEF Unparted
    <3>3. <<k, y[2]>> \in Places(g) /\ At(g, <<k, y[2]>>) = At(h, y)
      BY <1>1, <3>1, <3>2
    <3>4. c \in Answered(g)
      BY <2>3, <3>1, <3>3 DEF Answered, Where
    <3> QED BY <3>4 DEF Dangling
  <2> QED BY <2>2, <2>3 DEF Dangling, Calls, Answered
<1>15. Proper(g)
  BY <1>7, <1>8, <1>11, <1>12 DEF Proper
<1>16. OneResult(h) => OneResult(g)
  BY <1>13 DEF OneResult
<1> QED BY <1>14, <1>15, <1>16

-----------------------------------------------------------------------------
(* The collapse. *)

OldOf(o, start) == [k \in Nat |-> IF k <= o THEN k ELSE k - (o + 2) + start]

IsSpliced(es, o, start, e, g) ==
    /\ g \in Seq(Events) /\ Len(g) = o + 2 + Len(es) - start /\ g[o + 1] = e
    /\ \A k \in (1..Len(g)) \ {o + 1} :
          OldOf(o, start)[k] \in DOMAIN es /\ g[k] = es[OldOf(o, start)[k]]

\* The collapsed stream: the opening, the note, and the events from start on.
LEMMA Spliced ==
    ASSUME NEW es \in Seq(Events), NEW o \in Nat, NEW start \in Nat, o + 1 < start, start <= Len(es),
           NEW e \in Events
    PROVE  IsSpliced(es, o, start, e, SubSeq(es, 1, o) \o <<e>> \o SubSeq(es, start, Len(es)))
<1> DEFINE a == SubSeq(es, 1, o)
           c == SubSeq(es, start, Len(es))
           ab == a \o <<e>>
           g == ab \o c
           N == Len(es)
<1>1. N \in Nat /\ DOMAIN es = 1..N /\ o <= N
  OBVIOUS
<1>2. a \in Seq(Events) /\ Len(a) = o /\ \A k \in 1..o : a[k] = es[k]
  BY <1>1
<1>3. c \in Seq(Events) /\ Len(c) = N - start + 1 /\ \A k \in 1..(N - start + 1) : c[k] = es[start + k - 1]
  BY <1>1
<1> HIDE DEF a, c, N
<1>4. ab \in Seq(Events) /\ Len(ab) = o + 1 /\ ab[o + 1] = e /\ \A k \in 1..o : ab[k] = es[k]
  BY <1>2
<1> HIDE DEF ab
<1>5. /\ g \in Seq(Events) /\ Len(g) = o + 1 + (N - start + 1)
      /\ \A k \in 1..(o + 1) : g[k] = ab[k]
      /\ \A k \in 1..Len(g) : k > o + 1 => g[k] = c[k - (o + 1)]
  <2>1. g \in Seq(Events) /\ Len(g) = Len(ab) + Len(c)
    BY <1>3, <1>4, ConcatProperties
  <2>2. \A k \in 1..(Len(ab) + Len(c)) : g[k] = IF k <= Len(ab) THEN ab[k] ELSE c[k - Len(ab)]
    BY <1>3, <1>4, ConcatProperties
  <2> HIDE DEF g
  <2> QED BY <1>1, <1>3, <1>4, <2>1, <2>2
<1> HIDE DEF g
<1>6. Len(g) = o + 2 + N - start /\ start <= N
  BY <1>1, <1>5 DEF N
<1>7. ASSUME NEW k \in 1..Len(g), k # o + 1
      PROVE  OldOf(o, start)[k] \in DOMAIN es /\ g[k] = es[OldOf(o, start)[k]]
  <2>1. CASE k <= o
    <3>1. OldOf(o, start)[k] = k
      BY <2>1 DEF OldOf
    <3> QED BY <1>1, <1>4, <1>5, <2>1, <3>1
  <2>2. CASE ~(k <= o)
    <3>1. OldOf(o, start)[k] = k - (o + 2) + start
      BY <2>2 DEF OldOf
    <3>2. k > o + 1 /\ k - (o + 1) \in 1..(N - start + 1) /\ start + (k - (o + 1)) - 1 = k - (o + 2) + start
      BY <1>1, <1>6, <1>7, <2>2
    <3>3. g[k] = c[k - (o + 1)]
      BY <1>5, <3>2
    <3>4. c[k - (o + 1)] = es[start + (k - (o + 1)) - 1]
      BY <1>3, <3>2
    <3>5. k - (o + 2) + start \in 1..N
      BY <1>1, <1>6, <2>2, <3>2
    <3> QED BY <1>1, <3>1, <3>2, <3>3, <3>4, <3>5
  <2> QED BY <2>1, <2>2
<1>8. g[o + 1] = e
  BY <1>4, <1>5
<1>9. IsSpliced(es, o, start, e, g)
  BY <1>5, <1>6, <1>7, <1>8 DEF IsSpliced, N
<1> QED BY <1>9 DEF g, ab, a, c

\* The boundary is one the kept tail begins at whole, or the first there is.
LEMMA BoundaryIsWhole ==
    ASSUME NEW es \in Seq(Events), NEW keep \in Nat, keep # 0, Len(es) > keep + 2,
           Boundary(es, keep) > Opening(es) + 1
    PROVE  /\ Boundary(es, keep) \in Nat /\ Boundary(es, keep) <= Len(es)
           /\ Whole(es, Boundary(es, keep))
<1> DEFINE first == Opening(es) + 1
           S == {first} \cup {b \in first..(Len(es) - keep + 1) : Whole(es, b)}
<1>1. first \in {1, 2} /\ Len(es) \in Nat
  BY DEF Opening
<1>2. S \in SUBSET Nat /\ S # {} /\ \A b \in S : b <= Len(es) + 2
  BY <1>1
<1>3. Boundary(es, keep) = Max(S)
  BY DEF Boundary
<1>4. Max(S) \in S
  <2>1. Len(es) + 2 \in Nat
    BY <1>1
  <2> HIDE DEF S
  <2> QED BY <1>2, <2>1, MaxIsMember
<1>5. Max(S) \in {b \in first..(Len(es) - keep + 1) : Whole(es, b)}
  <2>1. Max(S) # first
    <3>1. Max(S) > first
      BY <1>3
    <3> HIDE DEF S
    <3> QED BY <1>1, <3>1
  <2> HIDE DEF first
  <2> QED BY <1>4, <2>1
<1> HIDE DEF S
<1> QED BY <1>1, <1>3, <1>5

\* What a collapse makes of a proper stream.
Collapses(es, g, o, start, name) ==
    /\ Stream(g) /\ g # <<>> /\ IsNote(g[o + 1], "brief", name)
    /\ Selects(es, g, o + 1, OldOf(o, start)) /\ Unparted(es, g, o + 1, OldOf(o, start))
    /\ \A x \in DOMAIN es : (x <= o \/ x >= start) => \E k \in DOMAIN g \ {o + 1} : x = OldOf(o, start)[k]

\* collapseOldTurns: the opening, the note and the kept tail are a selection that
\* parts no call from its answer.
LEMMA CollapseSelects ==
    ASSUME NEW es, Stream(es), Proper(es), NEW o, o = Opening(es), NEW start \in Nat,
           o + 1 < start, start <= Len(es), Whole(es, start), NEW name \in Names
    PROVE  LET g == SubSeq(es, 1, o) \o <<Event("user", <<Note("brief", name)>>)>>
                      \o SubSeq(es, start, Len(es))
           IN  Collapses(es, g, o, start, name)
<1> DEFINE e == Event("user", <<Note("brief", name)>>)
           g == SubSeq(es, 1, o) \o <<e>> \o SubSeq(es, start, Len(es))
           m == OldOf(o, start)
<1>1. /\ es \in Seq(Events) /\ o \in {0, 1} /\ o \in Nat /\ Len(es) \in Nat /\ DOMAIN es = 1..Len(es)
      /\ \A k \in DOMAIN es : es[k].parts # <<>>
  BY DEF Stream, Opening
<1>2. e \in Events /\ e.parts # <<>>
  <2>1. {"user", "text", "brief", None} \subseteq Strings
    BY DEF Strings
  <2>2. Note("brief", name) \in Parts
    BY <2>1 DEF Note, Parts
  <2>3. <<Note("brief", name)>> \in Seq(Parts) /\ <<Note("brief", name)>> # <<>>
    BY <2>2
  <2> QED BY <2>1, <2>3 DEF Event, Events
<1> HIDE DEF e
<1>3. /\ g \in Seq(Events) /\ Len(g) = o + 2 + Len(es) - start /\ g[o + 1] = e
      /\ \A k \in (1..Len(g)) \ {o + 1} : m[k] \in DOMAIN es /\ g[k] = es[m[k]]
  <2>1. IsSpliced(es, o, start, e, g)
    BY <1>1, <1>2, Spliced
  <2> HIDE DEF g
  <2> QED BY <2>1 DEF IsSpliced
<1> HIDE DEF g
<1>4. /\ DOMAIN g = 1..Len(g) /\ Len(g) \in Nat /\ o + 1 \in DOMAIN g
      /\ \A k \in Nat : m[k] = IF k <= o THEN k ELSE k - (o + 2) + start
  BY <1>1, <1>3 DEF OldOf
<1> HIDE DEF m
<1> DEFINE N == Len(es)
           M == Len(g)
<1>5. /\ N \in Nat /\ M \in Nat /\ o \in Nat /\ start \in Nat /\ o + 1 < start /\ start <= N
      /\ M = o + 2 + N - start /\ DOMAIN es = 1..N /\ DOMAIN g = 1..M
  BY <1>1, <1>3, <1>4
<1>6. \A k \in Nat : (k <= o => m[k] = k) /\ (k > o + 1 => m[k] = k - (o + 2) + start)
  <2> SUFFICES ASSUME NEW k \in Nat
               PROVE  (k <= o => m[k] = k) /\ (k > o + 1 => m[k] = k - (o + 2) + start)
    OBVIOUS
  <2>1. m[k] = IF k <= o THEN k ELSE k - (o + 2) + start
    BY <1>4
  <2>2. k > o + 1 => ~(k <= o)
    BY <1>5
  <2> QED BY <2>1, <2>2
<1> HIDE DEF N, M
<1>7. Stream(g) /\ g # <<>>
  <2>1. \A k \in DOMAIN g : g[k].parts # <<>>
    BY <1>1, <1>2, <1>3, <1>4
  <2> QED BY <1>3, <1>4, <2>1 DEF Stream
<1>8. IsNote(g[o + 1], "brief", name)
  BY <1>3 DEF IsNote, e, None
<1>9. Selects(es, g, o + 1, m)
  <2>1. ASSUME NEW k \in DOMAIN g \ {o + 1}, NEW l \in DOMAIN g \ {o + 1}, k < l PROVE m[k] < m[l]
    <3>1. k \in Nat /\ l \in Nat /\ (k <= o \/ k > o + 1) /\ (l <= o \/ l > o + 1)
      BY <1>5
    <3>2. CASE l <= o
      BY <1>5, <1>6, <2>1, <3>1, <3>2
    <3>3. CASE k <= o /\ l > o + 1
      <4>1. m[k] = k /\ m[l] = l - (o + 2) + start
        BY <1>6, <3>1, <3>3
      <4> QED BY <1>5, <3>1, <3>3, <4>1
    <3>4. CASE k > o + 1 /\ l > o + 1
      <4>1. m[k] = k - (o + 2) + start /\ m[l] = l - (o + 2) + start
        BY <1>6, <3>1, <3>4
      <4> QED BY <1>5, <2>1, <3>1, <3>4, <4>1
    <3> QED BY <1>5, <2>1, <3>1, <3>2, <3>3, <3>4
  <2> QED BY <1>3, <1>4, <2>1 DEF Selects
<1>10. ASSUME NEW x \in DOMAIN es
      PROVE  (x <= o \/ x >= start) <=> \E k \in DOMAIN g \ {o + 1} : x = m[k]
  <2>1. ASSUME x <= o PROVE \E k \in DOMAIN g \ {o + 1} : x = m[k]
    <3>1. x \in DOMAIN g \ {o + 1} /\ m[x] = x
      <4>1. x \in Nat /\ x >= 1 /\ x <= M /\ x # o + 1
        BY <1>5, <2>1
      <4> QED BY <1>5, <1>6, <2>1, <4>1
    <3> QED BY <3>1
  <2>2. ASSUME x >= start PROVE \E k \in DOMAIN g \ {o + 1} : x = m[k]
    <3> DEFINE k == x - start + (o + 2)
    <3>1. x \in Nat /\ x <= N
      BY <1>5
    <3>2. k \in Nat /\ k > o + 1 /\ k <= M /\ k - (o + 2) + start = x
      BY <1>5, <2>2, <3>1
    <3> HIDE DEF k
    <3>3. k \in DOMAIN g \ {o + 1}
      BY <1>5, <3>2
    <3>4. x = m[k]
      BY <1>6, <3>2
    <3> QED BY <3>3, <3>4
  <2>3. ASSUME NEW k \in DOMAIN g \ {o + 1}, x = m[k] PROVE x <= o \/ x >= start
    <3>1. k \in Nat /\ (k <= o \/ k > o + 1)
      BY <1>5
    <3>2. CASE k <= o
      BY <1>6, <2>3, <3>1, <3>2
    <3>3. CASE k > o + 1
      <4>1. x = k - (o + 2) + start
        BY <1>6, <2>3, <3>1, <3>3
      <4> QED BY <1>5, <3>1, <3>3, <4>1
    <3> QED BY <3>1, <3>2, <3>3
  <2> QED BY <2>1, <2>2, <2>3
<1>11. \A p \in Places(es) : p[1] \in DOMAIN es
  BY <1>1, PlacesTyped
<1>12. ASSUME NEW q \in CallPlaces(es) PROVE q \in Places(es) /\ ~(q[1] <= o)
  <2>1. q \in Places(es) /\ IsCall(At(es, q)) /\ q[1] \in DOMAIN es /\ q[2] \in DOMAIN es[q[1]].parts
    BY <1>1, PlacesTyped DEF CallPlaces, Where
  <2>2. HasCall(es[q[1]])
    BY <2>1 DEF HasCall, At
  <2>3. ASSUME q[1] <= o PROVE FALSE
    <3>1. o = 1 /\ q[1] = 1
      BY <1>1, <2>1, <2>3
    <3> QED BY <2>2, <3>1 DEF Opening
  <2> QED BY <2>1, <2>3
<1>13. ASSUME NEW p \in Where(es, Answers), NEW q \in CallPlaces(es), At(es, p).call = At(es, q).call
       PROVE  (p[1] <= o \/ p[1] >= start) <=> (q[1] <= o \/ q[1] >= start)
  <2>1. p \in Places(es) /\ p[1] \in Nat /\ q[1] \in Nat /\ ~(q[1] <= o)
    BY <1>1, <1>11, <1>12 DEF Where
  <2>2. Before(q, p)
    <3>1. PICK y \in CallPlaces(es) : At(es, y).call = At(es, p).call /\ Before(y, p)
      BY DEF Proper
    <3>2. y = q
      BY <1>13, <3>1 DEF Proper
    <3> QED BY <3>1, <3>2
  <2>3. q[1] <= p[1]
    BY <2>1, <2>2 DEF Before
  <2>4. p[1] >= start => q[1] >= start
    BY <1>13 DEF Whole
  <2> QED BY <1>1, <2>1, <2>3, <2>4
<1>14. Unparted(es, g, o + 1, m)
  <2> SUFFICES ASSUME NEW p \in Where(es, Answers), NEW q \in CallPlaces(es), At(es, p).call = At(es, q).call
               PROVE  (\E k \in DOMAIN g \ {o + 1} : p[1] = m[k]) <=> (\E k \in DOMAIN g \ {o + 1} : q[1] = m[k])
    BY DEF Unparted
  <2>1. p[1] \in DOMAIN es /\ q[1] \in DOMAIN es
    BY <1>11, <1>12 DEF Where
  <2> QED BY <1>10, <1>13, <2>1
<1>15. Collapses(es, g, o, start, name)
  BY <1>7, <1>8, <1>9, <1>10, <1>14 DEF Collapses, m
<1> QED BY <1>15 DEF g, e

-----------------------------------------------------------------------------
(* What a rung leaves.  Every place of the source but recorded reasoning is  *)
(* in the stream as it was or in a file of the archive, a marker names a     *)
(* file that holds what it stands for, and the stream is valid.              *)

Held(g, gs, a) == \/ \E z \in Places(g) : At(g, z).of = a /\ At(g, z).file = <<>>
                  \/ \E i \in DOMAIN gs : a \in gs[i].holds
Resolves(g, gs, z) ==
    At(g, z).file # <<>> /\ At(g, z).body # "brief" =>
       \E i \in DOMAIN gs : gs[i].name = At(g, z).file /\ At(g, z).of \in gs[i].holds
Accounted(g, gs) ==
    /\ \A a \in Places(source) : At(source, a).kind # "reasoning" => Held(g, gs, a)
    /\ \A z \in Places(g) : Resolves(g, gs, z)
Sound(g) ==
    /\ Stream(g) /\ Proper(g)
    /\ OneResult(g) \/ PicturesApart
    /\ Dangling(g) \subseteq Dangling(source) \/ SelfAnswered
Result(g, gs) == Sound(g) /\ Accounted(g, gs) /\ (~Crowded => OwnNames(gs))

\* A cut is such a result, and where it took nothing it is not empty.
LEMMA CutIsResult ==
    ASSUME Fresh, source # <<>>, NEW h, NEW fs, NEW took, Cut(h, fs, Places(source), took)
    PROVE  Result(h, fs) /\ (took = 0 => h # <<>>)
<1>1. /\ Stream(h) /\ Filed(fs, Places(source))
      /\ \A z \in Places(h) : Stands(h, fs, Places(source), z)
      /\ \A a \in Places(source) : Covers(h, fs, took, a)
      /\ \A a \in Places(source) : At(source, a).of = a /\ At(source, a).file = <<>>
  BY DEF Cut, Fresh
<1>2. Sound(h)
  <2>1. Proper(h)
    BY CutIsProper
  <2>2. OneResult(h) \/ PicturesApart
    BY CutHasOneResult
  <2>3. Dangling(h) \subseteq Dangling(source) \/ SelfAnswered
    BY CutStaysAnswered
  <2> QED BY <1>1, <2>1, <2>2, <2>3 DEF Sound
<1>3. ASSUME NEW a \in Places(source), At(source, a).kind # "reasoning" PROVE Held(h, fs, a)
  <2>1. (\E z \in Places(h) : At(h, z) = At(source, a)) \/ \E i \in DOMAIN fs : fs[i].holds = {a}
    BY <1>1, <1>3 DEF Covers
  <2>2. At(source, a).of = a /\ At(source, a).file = <<>> /\ a \in {a}
    BY <1>1
  <2> QED BY <2>1, <2>2 DEF Held
<1>4. ASSUME NEW z \in Places(h) PROVE Resolves(h, fs, z)
  <2>1. At(h, z).file # <<>> => \E i \in DOMAIN fs : fs[i].name = At(h, z).file /\ fs[i].holds = {At(h, z).of}
    BY <1>1 DEF Stands
  <2>2. At(h, z).of \in {At(h, z).of}
    OBVIOUS
  <2> QED BY <2>1, <2>2 DEF Resolves
<1>5. ~Crowded => OwnNames(fs)
  BY <1>1 DEF Filed
<1>6. ASSUME took = 0 PROVE h # <<>>
  <2>1. source \in Seq(Events) /\ Valid(source)
    BY DEF Fresh
  <2>2. 1 \in DOMAIN source /\ source[1].parts # <<>> /\ source[1] \in Events
    BY <2>1 DEF Valid
  <2>3. source[1].parts \in Seq(Parts)
    BY <2>2 DEF Events
  <2>4. 1 \in DOMAIN source[1].parts
    BY <2>2, <2>3
  <2>5. <<1, 1>> \in Places(source)
    BY <2>2, <2>4 DEF Places
  <2>6. PICK z \in Places(h) : TRUE
    BY <1>1, <1>6, <2>5 DEF Covers
  <2>7. z[1] \in DOMAIN h
    BY <1>1, PlacesTyped DEF Stream
  <2>8. DOMAIN <<>> = {}
    OBVIOUS
  <2> QED BY <2>7, <2>8
<1> QED BY <1>2, <1>3, <1>4, <1>5, <1>6 DEF Result, Accounted

\* A selection of a sound stream that parts no call from its answer is sound.
LEMMA SelectionIsSound ==
    ASSUME NEW h, Sound(h), NEW g, Stream(g), NEW n, NEW m, Selects(h, g, n, m), Unparted(h, g, n, m),
           NEW body, NEW name, IsNote(g[n], body, name)
    PROVE  Sound(g)
<1>1. h \in Seq(Events) /\ Proper(h)
  BY DEF Sound, Stream
<1>2. Proper(g) /\ (OneResult(h) => OneResult(g)) /\ Dangling(g) \subseteq Dangling(h)
  BY <1>1, SelectionStaysValid
<1> QED BY <1>2 DEF Sound

\* collapseOldTurns: the file of a collapse takes no name of another.
LEMMA CollapsedFileIsOwn ==
    ASSUME NEW fs \in Seq(Archives), NEW done, Filed(fs, done), NEW name \in Names, name[2] = "collapsed",
           ~Crowded, NEW places
    PROVE  OwnNames(Added(fs, name, places))
<1>1. \A i \in DOMAIN fs : fs[i].name # name
  <2> SUFFICES ASSUME NEW i \in DOMAIN fs PROVE fs[i].name[2] # "collapsed"
    OBVIOUS
  <2>1. PICK a \in done : FileOf(fs[i], a)
    BY DEF Filed
  <2>2. NameOf(a)[2] \in {"media", "tool-result", "message"}
    BY DEF NameOf, FileName
  <2>3. Second(NameOf(a))[2] = NameOf(a)[2]
    BY DEF Second
  <2>4. "collapsed" \notin {"media", "tool-result", "message"}
    OBVIOUS
  <2> QED BY <2>1, <2>2, <2>3, <2>4 DEF FileOf
<1>2. NameFor(fs, name) = name
  BY <1>1, NameIsCounted
<1> DEFINE f == [name |-> name, holds |-> places]
           n == Len(fs)
           gs == Append(fs, f)
<1>3. Added(fs, name, places) = gs
  BY <1>2 DEF Added
<1>4. n \in Nat /\ DOMAIN fs = 1..n /\ DOMAIN gs = 1..(n + 1) /\ gs[n + 1] = f /\ \A i \in DOMAIN fs : gs[i] = fs[i]
  OBVIOUS
<1>5. f.name = name
  OBVIOUS
<1> HIDE DEF f, n, gs
<1>6. \A i \in DOMAIN gs : i \in DOMAIN fs \/ i = n + 1
  BY <1>4
<1>7. OwnNames(fs)
  BY DEF Filed
<1>8. OwnNames(gs)
  BY <1>1, <1>4, <1>5, <1>6, <1>7 DEF OwnNames
<1> QED BY <1>3, <1>8

(* The events that collapse, between the opening and the kept tail.         *)
GoneOf(es, o, start) == SubSeq(es, o + 1, start - 1)
HoldsGone(es, o, start) ==
    LET gone == GoneOf(es, o, start) IN {At(gone, p).of : p \in Places(gone)}

\* Every part of an event that collapses is in the file of the collapse.
LEMMA GoneIsHeld ==
    ASSUME NEW es \in Seq(Events), NEW o \in Nat, NEW start \in Nat, o + 1 < start, start <= Len(es)
    PROVE  /\ HoldsGone(es, o, start) \in SUBSET (Nat \X Nat)
           /\ \A z \in Places(es) : z[1] <= o \/ z[1] >= start \/ At(es, z).of \in HoldsGone(es, o, start)
<1> DEFINE gone == GoneOf(es, o, start)
<1>1. /\ gone \in Seq(Events) /\ DOMAIN gone = 1..(start - 1 - o)
      /\ \A k \in 1..(start - 1 - o) : gone[k] = es[o + k]
  <2>1. Len(es) \in Nat /\ o + 1 \in 1..Len(es) /\ start - 1 \in 1..Len(es)
    OBVIOUS
  <2> QED BY <2>1 DEF GoneOf
<1>2. HoldsGone(es, o, start) = {At(gone, p).of : p \in Places(gone)}
  BY DEF HoldsGone
<1> HIDE DEF gone
<1>3. \A p \in Places(gone) : At(gone, p).of \in Nat \X Nat
  <2>1. \A p \in Places(gone) : At(gone, p) \in Parts
    BY <1>1, PlacesTyped
  <2> QED BY <2>1 DEF Parts
<1>4. ASSUME NEW z \in Places(es), ~(z[1] <= o), ~(z[1] >= start)
      PROVE  At(es, z).of \in HoldsGone(es, o, start)
  <2>1. z[1] \in Nat /\ z[2] \in DOMAIN es[z[1]].parts
    BY PlacesTyped
  <2> DEFINE k == z[1] - o
             y == <<k, z[2]>>
  <2>2. k \in 1..(start - 1 - o) /\ o + k = z[1]
    BY <1>4, <2>1
  <2>3. gone[k] = es[z[1]]
    <3> HIDE DEF k
    <3> QED BY <1>1, <2>2
  <2>4. y \in Places(gone) /\ At(gone, y) = At(es, z)
    <3> HIDE DEF k
    <3> QED BY <1>1, <2>1, <2>2, <2>3 DEF Places, At
  <2> QED BY <1>2, <2>4
<1> QED BY <1>2, <1>3, <1>4

\* collapseOldTurns: what a cut was is what its collapse is.
LEMMA CollapseIsResult ==
    ASSUME Fresh, source # <<>>, NEW s, Cut(s.events, s.files, Places(source), s.took), NEW keep \in Nat
    PROVE  LET c == Collapsed(s, keep) IN Result(c.events, c.files) /\ (c.took = 0 => c.events # <<>>)
<1> DEFINE es == s.events
           start == Boundary(es, keep)
           o == Opening(es)
           name == <<o + 1, "collapsed", None, start>>
           fs == Added(s.files, name, HoldsGone(es, o, start))
           f == [name |-> NameFor(s.files, name), holds |-> HoldsGone(es, o, start)]
           n == Len(s.files)
           g == SubSeq(es, 1, o) \o <<Event("user", <<Note("brief", LastName(fs))>>)>>
                    \o SubSeq(es, start, Len(es))
           c == Collapsed(s, keep)
<1>1. Result(es, s.files) /\ (s.took = 0 => es # <<>>)
  <2> HIDE DEF es
  <2> QED BY CutIsResult DEF es
<1>2. Stream(es) /\ Proper(es) /\ es \in Seq(Events) /\ Filed(s.files, Places(source))
  BY <1>1 DEF Result, Sound, Stream, Cut
<1>3. CASE keep = 0 \/ Len(es) <= keep + 2 \/ start <= Opening(es) + 1
  <2>1. c = s
    BY <1>3 DEF Collapsed
  <2> HIDE DEF c, es
  <2> QED BY <1>1, <2>1 DEF c, es
<1>4. CASE ~(keep = 0 \/ Len(es) <= keep + 2 \/ start <= Opening(es) + 1)
  <2>1. c.events = g /\ c.files = fs
    BY <1>4 DEF Collapsed, HoldsGone, GoneOf
  <2> HIDE DEF c
  <2>2. start \in Nat /\ start <= Len(es) /\ Whole(es, start) /\ o + 1 < start /\ o \in Nat
    <3>1. o \in {0, 1} /\ Len(es) \in Nat
      BY <1>2 DEF Opening
    <3>2. o + 1 < start /\ keep # 0 /\ Len(es) > keep + 2
      <4>1. start \in Nat
        <5>1. start = Max({o + 1} \cup {b \in (o + 1)..(Len(es) - keep + 1) : Whole(es, b)})
          BY DEF Boundary
        <5>2. {o + 1} \cup {b \in (o + 1)..(Len(es) - keep + 1) : Whole(es, b)} \in SUBSET Nat
          BY <3>1
        <5>3. \A b \in {o + 1} \cup {b \in (o + 1)..(Len(es) - keep + 1) : Whole(es, b)} : b <= Len(es) + 2
          BY <3>1
        <5> HIDE DEF o
        <5>4. Len(es) + 2 \in Nat
          BY <3>1
        <5> QED BY <5>1, <5>2, <5>3, <5>4, MaxIsMember
      <4> HIDE DEF o, start, es
      <4> QED BY <1>4, <3>1, <4>1 DEF o
    <3> HIDE DEF es
    <3>3. Boundary(es, keep) > Opening(es) + 1
      BY <3>1, <3>2
    <3>4. start \in Nat /\ start <= Len(es) /\ Whole(es, start)
      BY <1>2, <3>2, <3>3, BoundaryIsWhole
    <3> QED BY <3>1, <3>2, <3>4
  <2>3. name \in Names /\ name[2] = "collapsed"
    BY <2>2 DEF Names, Strings
  <2> HIDE DEF name, start, o, es
  <2>4. /\ HoldsGone(es, o, start) \in SUBSET (Nat \X Nat)
        /\ \A z \in Places(es) : z[1] <= o \/ z[1] >= start \/ At(es, z).of \in HoldsGone(es, o, start)
    BY <1>2, <2>2, GoneIsHeld
  <2>5. s.files \in Seq(Archives) /\ f \in Archives
    <3>1. s.files \in Seq(Archives)
      BY <1>2 DEF Filed
    <3> QED BY <2>3, <2>4, <3>1, NameIsCounted DEF Archives
  <2>6. /\ n \in Nat /\ DOMAIN s.files = 1..n /\ DOMAIN fs = 1..(n + 1) /\ fs[n + 1] = f /\ Len(fs) = n + 1
        /\ \A i \in DOMAIN s.files : i \in DOMAIN fs /\ fs[i] = s.files[i]
    BY <2>5 DEF Added
  <2>7. f.holds = HoldsGone(es, o, start)
    OBVIOUS
  <2>8. LastName(fs) \in Names
    <3> HIDE DEF f, fs, n
    <3> QED BY <2>5, <2>6 DEF LastName, Archives
  <2> HIDE DEF f, n
  <2>9. Collapses(es, g, o, start, LastName(fs))
    <3> HIDE DEF fs
    <3> QED BY <1>2, <2>2, <2>8, CollapseSelects DEF o
  <2> DEFINE m == OldOf(o, start)
             note == Note("brief", LastName(fs))
  <2> HIDE DEF fs, g
  <2>10. Sound(g) /\ Drawn(es, g, o + 1, m, note) /\ g # <<>>
    <3>1. /\ Stream(g) /\ IsNote(g[o + 1], "brief", LastName(fs)) /\ g # <<>>
          /\ Selects(es, g, o + 1, m) /\ Unparted(es, g, o + 1, m)
      BY <2>9 DEF Collapses
    <3> HIDE DEF m
    <3>2. Sound(g)
      BY <1>1, <3>1, SelectionIsSound DEF Result
    <3>3. Drawn(es, g, o + 1, m, note)
      BY <1>2, <3>1, SelectedPlaces
    <3> QED BY <3>1, <3>2, <3>3
  <2>11. ASSUME NEW a \in Places(source), At(source, a).kind # "reasoning" PROVE Held(g, fs, a)
    <3>1. Held(es, s.files, a)
      BY <1>1, <2>11 DEF Result, Accounted
    <3>2. CASE \E i \in DOMAIN s.files : a \in s.files[i].holds
      BY <2>6, <3>2 DEF Held
    <3>3. ASSUME NEW z \in Places(es), At(es, z).of = a, At(es, z).file = <<>> PROVE Held(g, fs, a)
      <4>1. CASE a \in HoldsGone(es, o, start)
        <5>1. n + 1 \in DOMAIN fs
          BY <2>6
        <5> QED BY <2>6, <2>7, <4>1, <5>1 DEF Held
      <4>2. CASE z[1] <= o \/ z[1] >= start
        <5>1. z[1] \in DOMAIN es
          BY <1>2, PlacesTyped
        <5>2. PICK k \in DOMAIN g \ {o + 1} : z[1] = m[k]
          BY <2>9, <4>2, <5>1 DEF Collapses
        <5>3. <<k, z[2]>> \in Places(g) /\ At(g, <<k, z[2]>>) = At(es, z)
          BY <2>10, <5>2 DEF Drawn
        <5> QED BY <3>3, <5>3 DEF Held
      <4> QED BY <2>4, <3>3, <4>1, <4>2
    <3> QED BY <3>1, <3>2, <3>3 DEF Held
  <2>12. ASSUME NEW z \in Places(g) PROVE Resolves(g, fs, z)
    <3>1. CASE z[1] = o + 1
      <4>1. At(g, z) = note
        BY <2>10, <3>1 DEF Drawn
      <4>2. note.body = "brief"
        BY DEF Note
      <4> QED BY <4>1, <4>2 DEF Resolves
    <3>2. CASE z[1] # o + 1
      <4> DEFINE y == <<m[z[1]], z[2]>>
      <4>1. y \in Places(es) /\ At(g, z) = At(es, y)
        BY <2>10, <3>2 DEF Drawn
      <4> HIDE DEF y
      <4>2. Resolves(es, s.files, y)
        BY <1>1, <4>1 DEF Result, Accounted
      <4> QED BY <2>6, <4>1, <4>2 DEF Resolves
    <3> QED BY <3>1, <3>2
  <2>13. ~Crowded => OwnNames(fs)
    BY <1>2, <2>3, <2>5, CollapsedFileIsOwn DEF fs
  <2>14. Result(g, fs)
    BY <2>10, <2>11, <2>12, <2>13 DEF Result, Accounted
  <2> QED BY <2>1, <2>10, <2>14 DEF c
<1> QED BY <1>3, <1>4

DigestEvent == Event("user", <<Note("digest", <<>>)>>)
Digested(h) == <<DigestEvent>> \o h
AfterDigest == [k \in Nat |-> k - 1]

\* The stream with the digest in front.
LEMMA DigestInFront ==
    ASSUME NEW h, Stream(h)
    PROVE  /\ Stream(Digested(h)) /\ Digested(h) # <<>>
           /\ IsNote(Digested(h)[1], "digest", <<>>)
           /\ Selects(h, Digested(h), 1, AfterDigest) /\ Unparted(h, Digested(h), 1, AfterDigest)
           /\ \A k \in DOMAIN h : k + 1 \in DOMAIN Digested(h) \ {1} /\ AfterDigest[k + 1] = k
<1> DEFINE g == Digested(h)
           N == Len(h)
<1>1. h \in Seq(Events) /\ N \in Nat /\ DOMAIN h = 1..N /\ \A k \in DOMAIN h : h[k].parts # <<>>
  BY DEF Stream
<1>2. DigestEvent \in Events /\ DigestEvent.parts # <<>>
  <2>1. {"user", "text", "digest", None} \subseteq Strings
    BY DEF Strings
  <2>2. Note("digest", <<>>) \in Parts
    BY <2>1 DEF Note, Parts
  <2>3. <<Note("digest", <<>>)>> \in Seq(Parts) /\ <<Note("digest", <<>>)>> # <<>>
    BY <2>2
  <2> QED BY <2>1, <2>3 DEF DigestEvent, Event, Events
<1>3. /\ g \in Seq(Events) /\ Len(g) = N + 1 /\ g[1] = DigestEvent
      /\ \A k \in 1..(N + 1) : k # 1 => g[k] = h[k - 1]
  <2>1. <<DigestEvent>> \in Seq(Events) /\ Len(<<DigestEvent>>) = 1 /\ <<DigestEvent>>[1] = DigestEvent
    BY <1>2
  <2>2. /\ Len(<<DigestEvent>> \o h) = Len(<<DigestEvent>>) + Len(h)
        /\ \A k \in 1..(Len(<<DigestEvent>>) + Len(h)) :
              (<<DigestEvent>> \o h)[k] = IF k <= Len(<<DigestEvent>>) THEN <<DigestEvent>>[k]
                                          ELSE h[k - Len(<<DigestEvent>>)]
    BY <1>1, <2>1, ConcatProperties
  <2>3. <<DigestEvent>> \o h \in Seq(Events)
    BY <1>1, <2>1
  <2>4. g = <<DigestEvent>> \o h
    BY DEF Digested
  <2> HIDE DEF g
  <2> QED BY <1>1, <2>1, <2>2, <2>3, <2>4
<1> HIDE DEF g, N
<1>4. DOMAIN g = 1..(N + 1) /\ g # <<>>
  BY <1>1, <1>3
<1>5. \A k \in Nat : AfterDigest[k] = k - 1
  BY DEF AfterDigest
<1>6. Stream(g)
  <2>1. ASSUME NEW k \in DOMAIN g PROVE g[k].parts # <<>>
    <3>1. CASE k = 1
      BY <1>2, <1>3, <3>1
    <3>2. CASE k # 1
      <4>1. k \in 1..(N + 1) /\ k - 1 \in DOMAIN h
        BY <1>1, <1>4, <3>2
      <4> QED BY <1>1, <1>3, <3>2, <4>1
    <3> QED BY <3>1, <3>2
  <2> QED BY <1>3, <2>1 DEF Stream
<1>7. IsNote(g[1], "digest", <<>>)
  BY <1>3 DEF IsNote, DigestEvent, None
<1>8. ASSUME NEW k \in DOMAIN g \ {1} PROVE k \in Nat /\ AfterDigest[k] = k - 1 /\ k - 1 \in DOMAIN h /\ g[k] = h[k - 1]
  <2>1. k \in 1..(N + 1) /\ k # 1
    BY <1>4
  <2> QED BY <1>1, <1>3, <1>5, <2>1
<1>9. Selects(h, g, 1, AfterDigest)
  <2>1. ASSUME NEW k \in DOMAIN g \ {1}, NEW l \in DOMAIN g \ {1}, k < l PROVE AfterDigest[k] < AfterDigest[l]
    <3>1. k \in Nat /\ l \in Nat /\ AfterDigest[k] = k - 1 /\ AfterDigest[l] = l - 1
      BY <1>8
    <3> QED BY <2>1, <3>1
  <2>2. DOMAIN g \subseteq Nat /\ 1 \in DOMAIN g
    BY <1>1, <1>4
  <2> QED BY <1>8, <2>1, <2>2 DEF Selects
<1>10. \A k \in DOMAIN h : k + 1 \in DOMAIN g \ {1} /\ AfterDigest[k + 1] = k
  <2> SUFFICES ASSUME NEW k \in DOMAIN h PROVE k + 1 \in DOMAIN g \ {1} /\ AfterDigest[k + 1] = k
    OBVIOUS
  <2>1. k \in Nat /\ k >= 1 /\ k <= N
    BY <1>1
  <2>2. AfterDigest[k + 1] = (k + 1) - 1
    BY <1>5, <2>1
  <2> QED BY <1>1, <1>4, <2>1, <2>2
<1>11. Unparted(h, g, 1, AfterDigest)
  <2>1. \A p \in Places(h) : p[1] \in DOMAIN h
    BY <1>1, PlacesTyped
  <2>2. \A p \in Places(h) : \E k \in DOMAIN g \ {1} : p[1] = AfterDigest[k]
    BY <1>10, <2>1
  <2> QED BY <2>2 DEF Unparted, CallPlaces, Where
<1> QED BY <1>4, <1>6, <1>7, <1>9, <1>10, <1>11 DEF g

\* applyReduction's last step: the digest takes nothing away.
LEMMA DigestIsResult ==
    ASSUME NEW h, NEW gs, Result(h, gs)
    PROVE  Result(Digested(h), gs) /\ Digested(h) # <<>>
<1> DEFINE g == Digested(h)
           note == Note("digest", <<>>)
<1>1. /\ Stream(h) /\ h \in Seq(Events) /\ Sound(h) /\ Accounted(h, gs) /\ (~Crowded => OwnNames(gs))
  BY DEF Result, Sound, Stream
<1>2. /\ Stream(g) /\ g # <<>> /\ IsNote(g[1], "digest", <<>>)
      /\ Selects(h, g, 1, AfterDigest) /\ Unparted(h, g, 1, AfterDigest)
      /\ \A k \in DOMAIN h : k + 1 \in DOMAIN g \ {1} /\ AfterDigest[k + 1] = k
  BY <1>1, DigestInFront
<1> HIDE DEF g
<1>3. Sound(g)
  BY <1>1, <1>2, SelectionIsSound
<1>4. Drawn(h, g, 1, AfterDigest, note)
  BY <1>1, <1>2, SelectedPlaces
<1>5. ASSUME NEW a \in Places(source), At(source, a).kind # "reasoning" PROVE Held(g, gs, a)
  <2>1. ASSUME NEW z \in Places(h), At(h, z).of = a, At(h, z).file = <<>> PROVE Held(g, gs, a)
    <3> DEFINE k == z[1] + 1
    <3>1. z[1] \in DOMAIN h
      BY <1>1, PlacesTyped
    <3>2. k \in DOMAIN g \ {1} /\ z[1] = AfterDigest[k]
      BY <1>2, <3>1
    <3> HIDE DEF k
    <3>3. <<k, z[2]>> \in Places(g) /\ At(g, <<k, z[2]>>) = At(h, z)
      BY <1>4, <3>2 DEF Drawn
    <3> QED BY <2>1, <3>3 DEF Held
  <2> QED BY <1>1, <1>5, <2>1 DEF Accounted, Held
<1>6. ASSUME NEW z \in Places(g) PROVE Resolves(g, gs, z)
  <2>1. CASE z[1] = 1
    <3>1. At(g, z) = note
      BY <1>4, <2>1 DEF Drawn
    <3>2. note.file = <<>>
      BY DEF Note
    <3> QED BY <3>1, <3>2 DEF Resolves
  <2>2. CASE z[1] # 1
    <3> DEFINE y == <<AfterDigest[z[1]], z[2]>>
    <3>1. y \in Places(h) /\ At(g, z) = At(h, y)
      BY <1>4, <2>2 DEF Drawn
    <3> HIDE DEF y
    <3> QED BY <1>1, <3>1 DEF Accounted, Resolves
  <2> QED BY <2>1, <2>2
<1>7. Result(g, gs)
  BY <1>1, <1>3, <1>5, <1>6 DEF Result, Accounted
<1> QED BY <1>2, <1>7 DEF g

\* applyReduction as a whole.
LEMMA CandidateIsResult ==
    ASSUME Fresh, source # <<>>, NEW r \in Rungs
    PROVE  Result(Candidate(r).events, Candidate(r).files) /\ Candidate(r).events # <<>>
<1> DEFINE cut == FoldLeft(LAMBDA s, e : ReducedEvent(r, s, e),
                           [events |-> <<>>, files |-> <<>>, took |-> 0], source)
           s == Collapsed(cut, r.keep)
<1>1. Cut(cut.events, cut.files, Places(source), cut.took)
  BY SourceCut
<1>2. Candidate(r) = IF s.took = 0 THEN s ELSE [s EXCEPT !.events = Digested(s.events)]
  BY DEF Candidate, Digested, DigestEvent
<1>3. r.keep \in Nat
  BY DEF Rungs
<1>4. \E e, f, n : s = [events |-> e, files |-> f, took |-> n]
  <2>1. \E e, f, n : cut = [events |-> e, files |-> f, took |-> n]
    <3> DEFINE b == [events |-> <<>>, files |-> <<>>, took |-> 0]
               n == Len(source)
    <3>1. n \in Nat /\ DOMAIN source = 1..n /\ n # 0
      BY DEF Fresh
    <3>2. PICK chain :
            /\ chain[0] = b
            /\ \A i \in 1..n : chain[i] = ReducedEvent(r, chain[i - 1], source[i])
            /\ EventsFolded(r, b, source) = chain[n]
      <4> HIDE DEF b, n
      <4> QED BY <3>1, EventsInOrder
    <3>3. cut = ReducedEvent(r, chain[n - 1], source[n])
      <4>1. n \in 1..n
        BY <3>1
      <4>2. cut = EventsFolded(r, b, source)
        BY DEF EventsFolded
      <4> HIDE DEF cut, b, n
      <4> QED BY <3>2, <4>1, <4>2
    <3> HIDE DEF cut
    <3> QED BY <3>3 DEF ReducedEvent
  <2> HIDE DEF cut
  <2> QED BY <2>1 DEF Collapsed
<1>5. Result(s.events, s.files) /\ (s.took = 0 => s.events # <<>>)
  <2> HIDE DEF cut
  <2> QED BY <1>1, <1>3, CollapseIsResult
<1> HIDE DEF s
<1>6. CASE s.took = 0
  BY <1>2, <1>5, <1>6
<1>7. CASE s.took # 0
  <2>1. Candidate(r).events = Digested(s.events) /\ Candidate(r).files = s.files
    BY <1>2, <1>4, <1>7
  <2> QED BY <1>5, <2>1, DigestIsResult
<1> QED BY <1>6, <1>7

-----------------------------------------------------------------------------
(* The state machine. *)

(* A session being read is one a reader hands over; no rung is tried before  *)
(* the compaction begins, which needs a session; and what the last rung left *)
(* is sound and accounts for every part of the source.                       *)
IInv ==
    /\ Fresh
    /\ budget \in Nat /\ rung \in Nat
    /\ budget > 0 => source # <<>>
    /\ rung > 0 => budget > 0 /\ Result(target, files) /\ target # <<>>

\* What the invariant says of a rung's session: it is valid, and what was
\* answered in it still is.
LEMMA ResultIsValid ==
    ASSUME IInv
    PROVE  StaysValid
<1> SUFFICES ASSUME rung > 0
             PROVE  /\ Valid(target) \/ PicturesApart
                    /\ Dangling(target) \subseteq Dangling(source) \/ SelfAnswered
  BY DEF StaysValid
<1>1. Sound(target) /\ target # <<>>
  BY DEF IInv, Result
<1>2. OneResult(target) => Valid(target)
  BY <1>1 DEF Sound, Proper, OneResult, Valid
<1> QED BY <1>1, <1>2 DEF Sound

\* What the invariant says of its archive: while each file has its own name,
\* what a name holds is what its file holds.
LEMMA ResultLosesNothing ==
    ASSUME IInv
    PROVE  NothingLost
<1> SUFFICES ASSUME rung > 0, ~Crowded
             PROVE  (\A p \in Where(source, Payload) : p \in Kept \cup Archived) /\ MarkersResolve
  BY DEF NothingLost
<1>1. Accounted(target, files) /\ OwnNames(files)
  BY DEF IInv, Result
<1>2. ASSUME NEW i \in DOMAIN files PROVE Holds(files, files[i].name) = files[i].holds
  <2>1. {j \in DOMAIN files : files[j].name = files[i].name} = {i}
    BY <1>1 DEF OwnNames
  <2>2. Max({i}) = i
    BY DEF Max
  <2> QED BY <2>1, <2>2 DEF Holds
<1>3. ASSUME NEW p \in Where(source, Payload) PROVE p \in Kept \cup Archived
  <2>1. p \in Places(source) /\ At(source, p).kind # "reasoning"
    BY DEF Where, Payload
  <2>2. Held(target, files, p)
    BY <1>1, <2>1 DEF Accounted
  <2>3. ASSUME NEW z \in Places(target), At(target, z).of = p, At(target, z).file = <<>> PROVE p \in Kept
    BY <2>3 DEF Kept, Where
  <2>4. ASSUME NEW i \in DOMAIN files, p \in files[i].holds PROVE p \in Archived
    BY <1>2, <2>4 DEF Archived
  <2> QED BY <2>2, <2>3, <2>4 DEF Held
<1>4. MarkersResolve
  <2> SUFFICES ASSUME NEW p \in Places(target), At(target, p).file # <<>>, At(target, p).body # "brief"
               PROVE  At(target, p).of \in Holds(files, At(target, p).file)
    BY DEF MarkersResolve, Where
  <2>1. PICK i \in DOMAIN files : files[i].name = At(target, p).file /\ At(target, p).of \in files[i].holds
    BY <1>1 DEF Accounted, Resolves
  <2> QED BY <1>2, <2>1
<1> QED BY <1>3, <1>4

KnowsItsPlaces(h) ==
    h \in Seq(Events) /\ \A a \in Places(h) : At(h, a).of = a /\ At(h, a).file = <<>>

\* A session as it is read stays one whose parts know their places.
LEMMA PlacedIsFresh ==
    ASSUME Fresh, NEW e \in Turns
    PROVE  KnowsItsPlaces(Append(source, Placed(e, Len(source) + 1)))
<1> DEFINE n == Len(source) + 1
           h == Append(source, Placed(e, n))
           Recorded == [kind : STRING, call : STRING, body : STRING, err : BOOLEAN]
           x == Placed(e, n)
           parts == [j \in DOMAIN e.parts |->
                       [kind |-> e.parts[j].kind, call |-> e.parts[j].call, body |-> e.parts[j].body,
                        err |-> e.parts[j].err, file |-> <<>>, limit |-> 0, of |-> <<n, j>>]]
<1>1. source \in Seq(Events) /\ n \in Nat /\ DOMAIN source = 1..(n - 1)
  BY DEF Fresh
<1>2. e = [role |-> e.role, parts |-> e.parts] /\ e.role \in STRING
      /\ e.parts \in Seq(Recorded)
  BY CompactionAssumption
<1>3. x = [role |-> e.role, parts |-> parts]
  <2>1. x = [e EXCEPT !.parts = parts]
    BY DEF Placed
  <2> HIDE DEF x, parts
  <2> QED BY <1>2, <2>1
<1>4. parts \in Seq(Parts) /\ \A j \in DOMAIN parts : parts[j].of = <<n, j>> /\ parts[j].file = <<>>
  <2>1. DOMAIN e.parts = 1..Len(e.parts) /\ Len(e.parts) \in Nat
    BY <1>2
  <2>2. \A j \in DOMAIN e.parts : e.parts[j] \in Recorded
    <3> HIDE DEF Recorded
    <3> QED BY <1>2
  <2>3. \A j \in DOMAIN e.parts : parts[j] \in Parts
    BY <1>1, <2>1, <2>2 DEF Parts, Strings
  <2>4. DOMAIN parts = 1..Len(e.parts)
    BY <2>1
  <2>5. parts \in Seq(Parts)
    <3>1. parts \in [1..Len(e.parts) -> Parts]
      BY <2>1, <2>3
    <3> HIDE DEF parts
    <3> QED BY <2>1, <3>1
  <2> QED BY <2>5
<1>5. x \in Events /\ x.parts = parts
  <2> HIDE DEF parts
  <2>1. e.role \in Strings
    BY <1>2 DEF Strings
  <2> QED BY <1>3, <1>4, <2>1 DEF Events
<1>6. h = Append(source, x)
  OBVIOUS
<1> HIDE DEF n, x, parts, h
<1>7. h \in Seq(Events) /\ DOMAIN h = 1..n /\ h[n] = x /\ \A k \in 1..(n - 1) : h[k] = source[k]
  BY <1>1, <1>5, <1>6 DEF n
<1>8. ASSUME NEW a \in Places(h) PROVE At(h, a).of = a /\ At(h, a).file = <<>>
  <2>1. PICK i \in DOMAIN h : \E j \in DOMAIN h[i].parts : a = <<i, j>>
    BY DEF Places
  <2>2. PICK j \in DOMAIN h[i].parts : a = <<i, j>>
    BY <2>1
  <2>3. CASE i = n
    BY <1>4, <1>5, <1>7, <2>2, <2>3 DEF At
  <2>4. CASE i # n
    <3>1. i \in DOMAIN source /\ h[i] = source[i]
      BY <1>1, <1>7, <2>4
    <3>2. a \in Places(source) /\ At(h, a) = At(source, a)
      BY <2>2, <3>1 DEF Places, At
    <3> QED BY <3>2 DEF Fresh
  <2> QED BY <2>3, <2>4
<1>9. KnowsItsPlaces(h)
  BY <1>7, <1>8 DEF KnowsItsPlaces
<1> QED BY <1>9 DEF h, n

\* applyReduction, rung after rung: what the last one left is sound and accounts
\* for every part of the session.
THEOREM ReductionsAreSound == Spec => []IInv
<1>1. Init => IInv
  <2> SUFFICES ASSUME Init PROVE IInv
    OBVIOUS
  <2>1. Places(<<>>) = {}
    BY DEF Places
  <2> QED BY <2>1 DEF Init, IInv, Fresh
<1>2. IInv /\ [Next]_vars => IInv'
  <2> SUFFICES ASSUME IInv, [Next]_vars PROVE IInv'
    OBVIOUS
  <2>1. ASSUME source' = source
        PROVE  /\ Fresh'
               /\ \A g, gs : Result(g, gs) /\ target' = g /\ files' = gs => Result(target, files)'
    <3>1. Fresh'
      BY <2>1 DEF IInv, Fresh
    <3>2. PicturesApart' <=> PicturesApart
      BY <2>1 DEF PicturesApart, Where
    <3>3. SelfAnswered' <=> SelfAnswered
      BY <2>1 DEF SelfAnswered, Where
    <3>4. Crowded' <=> Crowded
      BY <2>1 DEF Crowded
    <3>5. ASSUME NEW g, NEW gs, Result(g, gs), target' = g, files' = gs PROVE Result(target, files)'
      <4>1. Sound(target)'
        BY <2>1, <3>2, <3>3, <3>5 DEF Result, Sound
      <4>2. Accounted(target, files)'
        BY <2>1, <3>5 DEF Result, Accounted, Held, Resolves
      <4> QED BY <3>4, <3>5, <4>1, <4>2 DEF Result
    <3> QED BY <3>1, <3>5
  <2>2. CASE Extend
    <3>1. PICK e \in Turns : source' = Append(source, Placed(e, Len(source) + 1)) /\ Valid(source')
      BY <2>2 DEF Extend
    <3>2. KnowsItsPlaces(source')
      <4>1. Fresh
        BY DEF IInv
      <4>2. KnowsItsPlaces(Append(source, Placed(e, Len(source) + 1)))
        BY <4>1, PlacedIsFresh
      <4> QED BY <3>1, <4>2
    <3>3. Fresh'
      BY <3>1, <3>2 DEF Fresh, KnowsItsPlaces
    <3> QED BY <2>2, <3>3 DEF Extend, IInv
  <2>3. CASE Begin
    <3>1. budget' \in Nat /\ ~(rung > 0)
      BY <2>3, CompactionAssumption DEF Begin, IInv
    <3> QED BY <2>1, <2>3, <3>1 DEF Begin, IInv
  <2>4. CASE TryRung
    <3> DEFINE r == Ladder[rung + 1]
               c == Candidate(r)
    <3>1. r \in Rungs
      <4>1. rung + 1 \in DOMAIN Ladder
        BY <2>4, LadderTyped DEF TryRung, IInv
      <4> QED BY <4>1, LadderTyped
    <3>2. target' = c.events /\ files' = c.files /\ rung' = rung + 1 /\ source' = source /\ budget' = budget
      BY <2>4 DEF TryRung
    <3>3. Fresh /\ source # <<>> /\ budget > 0
      BY <2>4 DEF TryRung, IInv
    <3>4. Result(c.events, c.files) /\ c.events # <<>>
      <4> HIDE DEF r
      <4> QED BY <3>1, <3>3, CandidateIsResult
    <3> HIDE DEF r, c
    <3>5. Fresh' /\ Result(target, files)'
      BY <2>1, <3>2, <3>4
    <3> QED BY <3>2, <3>3, <3>4, <3>5 DEF IInv
  <2>5. CASE UNCHANGED vars
    BY <2>1, <2>5 DEF vars, IInv
  <2> QED BY <2>2, <2>3, <2>4, <2>5 DEF Next
<1> QED BY <1>1, <1>2, PTL DEF Spec

\* No part of the session is lost (archive.go): after every rung each is in
\* the session handed on or in the archive, and every marker finds its file,
\* unless three parts of one event want one file name.
THEOREM NothingIsLost == Spec => []NothingLost
BY ReductionsAreSound, ResultLosesNothing, PTL

\* A reduction of a valid session is valid (compact.go:192) and answers every
\* call that was answered, but for pictures that answer one call from two
\* events, or an assistant's own picture that answers it.
THEOREM ReductionsStayValid == Spec => []StaysValid
BY ReductionsAreSound, ResultIsValid, PTL
=============================================================================
