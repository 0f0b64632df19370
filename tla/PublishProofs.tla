--------------------------- MODULE PublishProofs ---------------------------
(***************************************************************************)
(* Theorems about Publish, for any number of transfers, any delegated runs *)
(* and any forms: what discovery lists is whole, a transfer leaves all or  *)
(* nothing, and the archive is there before what names it.                 *)
(***************************************************************************)
EXTENDS Publish, FiniteSetTheorems, SequenceTheorems, TLAPS

-----------------------------------------------------------------------------
(* What the order of the steps has to guarantee.                           *)

Files == Whole \cup {"main.tmp", "plan", "plan.tmp", "stage", "tree", "archive", "archive.tmp"}
Staged == {"stage", "main.tmp", "plan.tmp", "archive.tmp"}
AStep == {s \in [op : {"put", "look", "draft", "list", "name"}, gain : SUBSET Files, lose : SUBSET Files] :
              s.op # "put" => s.gain = {} /\ s.lose = {}}

\* A step that can fail, and so has what came before it undone.
CanFail(s) == s.op # "name" /\ s # Put({}, {"stage"})

\* The steps S of a transfer that writes form a, with an archive if c.
NothingReturns(S) == \A i, j \in 1 .. Len(S) : j <= i => S[i].gain \cap S[j].lose = {}
OnlyStagesGo(S) == \A i \in 1 .. Len(S) : S[i].lose \subseteq Staged
MainComesLast(S) ==
    \A i \in 1 .. Len(S) : "main" \in S[i].gain =>
        \A b \in Branches : \E j \in 1 .. i : b \in S[j].gain
UndoneInTime(S, a) ==
    \A i, j \in 1 .. Len(S) : j < i /\ CanFail(S[i]) =>
        S[j].gain \subseteq {"archive", "archive.tmp"} \cup Undone(a)
AllIsWritten(S) == \A w \in Whole : \E i \in 1 .. Len(S) : w \in S[i].gain
StagesGo(S) ==
    \A i \in 1 .. Len(S) : \A x \in S[i].gain \cap Staged : \E j \in 1 .. Len(S) : x \in S[j].lose
ArchiveFirst(S, c) ==
    /\ c <=> \E i \in 1 .. Len(S) : "archive" \in S[i].gain
    /\ c => \A i \in 1 .. Len(S) : S[i].gain \cap Whole # {} =>
                \E j \in 1 .. i - 1 : "archive" \in S[j].gain

Orderly(S, a, c) ==
    /\ S \in Seq(AStep) /\ Len(S) > 0
    /\ NothingReturns(S) /\ OnlyStagesGo(S) /\ UndoneInTime(S, a)
    /\ (a # "opencode" => MainComesLast(S))
    /\ AllIsWritten(S) /\ StagesGo(S) /\ ArchiveFirst(S, c)

\* A step puts some of the files g in place and takes those of l away.
Puts(s, g, l) == s.op = "put" /\ s.gain \subseteq g /\ s.lose = l

\* A writer's own steps know nothing of the archive.
Unarchived(S) ==
    \A i \in 1 .. Len(S) : /\ S[i].op # "name"
                           /\ {"archive", "archive.tmp"} \cap (S[i].gain \cup S[i].lose) = {}

-----------------------------------------------------------------------------
(* The invariant.                                                          *)

\* What is on disk before step p of S: what was put there and not taken away.
There(S, p) == {x \in Files : /\ \E i \in 1 .. p - 1 : x \in S[i].gain
                              /\ \A i \in 1 .. p - 1 : x \notin S[i].lose}

Typed ==
    /\ target \in [Transfers -> Targets] /\ compacted \in [Transfers -> BOOLEAN]
    /\ pc \in [Transfers -> Nat]
    /\ outcome \in [Transfers -> {"idle", "running", "ok", "failed", "crashed"}]
    /\ disk \in [Transfers -> SUBSET Files]

InStep(t) ==
    /\ outcome[t] = "idle" => disk[t] = {}
    /\ outcome[t] \in {"running", "crashed"} =>
          pc[t] \in 1 .. Len(Steps(t)) /\ disk[t] = There(Steps(t), pc[t])
    /\ outcome[t] = "ok" => disk[t] = There(Steps(t), Len(Steps(t)) + 1)
    /\ outcome[t] = "failed" /\ t \notin stuck => disk[t] = {}
    /\ t \in stuck => target[t] = "opencode" /\ outcome[t] = "failed"

Published == Typed /\ \A t \in Transfers : InStep(t)

-----------------------------------------------------------------------------
(* The steps of the writers.                                               *)

\* The runs are published one by one, and all of them.
LEMMA EachIsEveryRun ==
    /\ Each \in Seq(AStep) /\ Len(Each) = Cardinality(Branches) /\ Cardinality(Branches) \in Nat
    /\ \A i \in 1 .. Len(Each) : \E b \in Branches : Each[i] = Put({b}, {})
    /\ \A b \in Branches : \E i \in 1 .. Len(Each) : Each[i] = Put({b}, {})
<1> DEFINE c == Cardinality(Branches)
           runs == SetToSeq(Branches)
<1>1. IsFiniteSet(Branches)
  BY PublishAssumption
<1>2. c \in Nat /\ ExistsBijection(1 .. c, Branches)
  BY <1>1, FS_CardinalityType
<1>3. PICK f \in [1 .. c -> Branches] : IsInjective(f)
  BY <1>2 DEF ExistsBijection, Bijection, Injection
<1>4. runs \in [1 .. c -> Branches] /\ IsInjective(runs)
  BY <1>3 DEF SetToSeq
<1>5. IsFiniteSet(1 .. c) /\ Cardinality(1 .. c) = c
  BY <1>2, FS_Interval
<1>6. runs \in Injection(1 .. c, Branches)
  BY <1>4 DEF Injection
<1>7. runs \in Surjection(1 .. c, Branches)
  BY <1>1, <1>5, <1>6, FS_Injection
<1>8. \A b \in Branches : \E i \in 1 .. c : runs[i] = b
  BY <1>7 DEF Surjection
<1>9. Each = [i \in 1 .. c |-> Put({runs[i]}, {})]
  BY DEF Each
<1> HIDE DEF c, runs
<1>10. \A b \in Branches : Put({b}, {}) \in AStep
  BY DEF Put, AStep, Files, Whole
<1>11. Each \in Seq(AStep) /\ Len(Each) = c
  <2>1. Each \in [1 .. c -> AStep]
    BY <1>4, <1>9, <1>10
  <2> QED BY <1>2, <2>1, SeqDef, LenProperties
<1> QED BY <1>2, <1>4, <1>8, <1>9, <1>11 DEF c

\* Names of files are told apart.
LEMMA NamesDiffer ==
    /\ Branches \cap ({"main", "plan", "tree", "archive"} \cup Staged) = {}
    /\ Whole \subseteq Files /\ Staged \subseteq Files /\ {"plan", "tree", "archive"} \subseteq Files
BY PublishAssumption DEF Staged, Whole, Files

LEMMA StepsAreTyped ==
    /\ \A g, l \in SUBSET Files : Put(g, l) \in AStep
    /\ \A n \in {"look", "draft", "list", "name"} : Op(n) \in AStep
BY DEF Put, Op, AStep

LEMMA PutPuts ==
    ASSUME NEW g, NEW l
    PROVE  Puts(Put(g, l), g, l) /\ Put(g, l).gain = g
BY DEF Put, Puts

\* What the steps are when the runs are published between first and last.
Around(first, last) == first \o Each \o last
RunCount == Cardinality(Branches)

LEMMA AroundTheRuns ==
    ASSUME NEW first \in Seq(AStep), NEW last \in Seq(AStep), Len(first) = 1
    PROVE  LET S == Around(first, last)
               c == RunCount
           IN  /\ c \in Nat /\ S \in Seq(AStep) /\ Len(S) = c + 1 + Len(last) /\ Len(S) > 0
               /\ S[1] = first[1]
               /\ \A i \in 2 .. c + 1 : Puts(S[i], Branches, {})
               /\ \A b \in Branches : \E i \in 2 .. c + 1 : b \in S[i].gain
               /\ \A i \in 1 .. Len(last) : S[c + 1 + i] = last[i]
<1> DEFINE S == Around(first, last)
           c == RunCount
<1>1. c \in Nat /\ Each \in Seq(AStep) /\ Len(Each) = c /\ Len(last) \in Nat
  BY EachIsEveryRun, LenProperties DEF RunCount
<1>2. S = first \o Each \o last
  BY DEF Around
<1> HIDE DEF S, c
<1>3. /\ first \o Each \in Seq(AStep) /\ Len(first \o Each) = c + 1
      /\ \A i \in 1 .. c + 1 : (first \o Each)[i] = IF i <= 1 THEN first[i] ELSE Each[i - 1]
  <2>1. /\ first \o Each \in Seq(AStep) /\ Len(first \o Each) = Len(first) + Len(Each)
        /\ \A i \in 1 .. Len(first) + Len(Each) :
              (first \o Each)[i] = IF i <= Len(first) THEN first[i] ELSE Each[i - Len(first)]
    BY <1>1, ConcatProperties
  <2>2. Len(first) + Len(Each) = c + 1
    BY <1>1
  <2> QED BY <1>1, <2>1, <2>2
<1>4. /\ S \in Seq(AStep) /\ Len(S) = c + 1 + Len(last)
      /\ \A i \in 1 .. c + 1 + Len(last) :
            S[i] = IF i <= c + 1 THEN (first \o Each)[i] ELSE last[i - (c + 1)]
  <2> DEFINE head == first \o Each
  <2>1. S = head \o last /\ head \in Seq(AStep) /\ Len(head) = c + 1
    BY <1>2, <1>3
  <2> HIDE DEF head
  <2>2. /\ head \o last \in Seq(AStep) /\ Len(head \o last) = Len(head) + Len(last)
        /\ \A i \in 1 .. Len(head) + Len(last) :
              (head \o last)[i] = IF i <= Len(head) THEN head[i] ELSE last[i - Len(head)]
    BY <2>1, ConcatProperties
  <2>3. /\ S \in Seq(AStep) /\ Len(S) = c + 1 + Len(last)
        /\ \A i \in 1 .. c + 1 + Len(last) :
              S[i] = IF i <= c + 1 THEN head[i] ELSE last[i - (c + 1)]
    BY <2>1, <2>2
  <2> QED BY <2>3 DEF head
<1>5. S[1] = first[1]
  BY <1>1, <1>3, <1>4
<1>6. \A k \in 1 .. c : S[k + 1] = Each[k]
  <2> TAKE k \in 1 .. c
  <2>1. k + 1 \in 1 .. c + 1 /\ k + 1 <= c + 1 /\ ~(k + 1 <= 1) /\ (k + 1) - 1 = k
    BY <1>1
  <2>2. k + 1 \in 1 .. c + 1 + Len(last)
    BY <1>1
  <2> QED BY <1>3, <1>4, <2>1, <2>2
<1>7. ASSUME NEW i \in 2 .. c + 1
      PROVE  Puts(S[i], Branches, {})
  <2>1. i - 1 \in 1 .. c /\ (i - 1) + 1 = i
    BY <1>1
  <2>2. S[(i - 1) + 1] = Each[i - 1]
    BY <1>6, <2>1
  <2>3. PICK b \in Branches : Each[i - 1] = Put({b}, {})
    BY <1>1, <2>1, EachIsEveryRun
  <2>4. S[i] = Put({b}, {})
    BY <2>1, <2>2, <2>3
  <2>5. Puts(S[i], {b}, {})
    BY <2>4, PutPuts
  <2> QED BY <2>5 DEF Puts
<1>8. ASSUME NEW b \in Branches
      PROVE  \E i \in 2 .. c + 1 : b \in S[i].gain
  <2>1. PICK k \in 1 .. c : Each[k] = Put({b}, {})
    BY <1>1, EachIsEveryRun
  <2>2. k + 1 \in 2 .. c + 1 /\ S[k + 1] = Put({b}, {})
    BY <1>1, <1>6, <2>1
  <2>3. b \in S[k + 1].gain
    BY <2>2, PutPuts
  <2> QED BY <2>2, <2>3
<1>9. ASSUME NEW i \in 1 .. Len(last)
      PROVE  S[c + 1 + i] = last[i]
  <2>1. /\ c + 1 + i \in 1 .. c + 1 + Len(last) /\ ~(c + 1 + i <= c + 1)
        /\ (c + 1 + i) - (c + 1) = i
    BY <1>1
  <2> QED BY <1>4, <2>1
<1>10. Len(S) > 0
  BY <1>1, <1>4
<1> QED BY <1>1, <1>4, <1>5, <1>7, <1>8, <1>9, <1>10 DEF S, c

LEMMA ClaudeIsOrderly == Orderly(ClaudeSteps, "claude", FALSE) /\ Unarchived(ClaudeSteps)
<1> DEFINE first == << Put({"main.tmp"}, {}) >>
           last == << Put({"plan.tmp"}, {}), Put({"plan"}, {"plan.tmp"}), Put({"main"}, {"main.tmp"}) >>
<1>1. first \in Seq(AStep) /\ last \in Seq(AStep)
  <2>1. /\ Put({"main.tmp"}, {}) \in AStep /\ Put({"plan.tmp"}, {}) \in AStep
        /\ Put({"plan"}, {"plan.tmp"}) \in AStep /\ Put({"main"}, {"main.tmp"}) \in AStep
    BY StepsAreTyped, NamesDiffer DEF Staged, Whole
  <2> QED BY <2>1
<1>2. Len(first) = 1 /\ Len(last) = 3 /\ ClaudeSteps = Around(first, last)
  BY DEF ClaudeSteps, Around
<1> DEFINE S == ClaudeSteps
           c == RunCount
<1>5. /\ first[1] = Put({"main.tmp"}, {})
      /\ last[1] = Put({"plan.tmp"}, {}) /\ last[2] = Put({"plan"}, {"plan.tmp"})
      /\ last[3] = Put({"main"}, {"main.tmp"})
  OBVIOUS
<1> HIDE DEF first, last, S, c
<1>6. /\ c \in Nat /\ S \in Seq(AStep) /\ Len(S) = c + 4 /\ Len(S) > 0
      /\ Puts(S[1], {"main.tmp"}, {})
      /\ \A i \in 2 .. c + 1 : Puts(S[i], Branches, {})
      /\ \A b \in Branches : \E i \in 2 .. c + 1 : b \in S[i].gain
      /\ Puts(S[c + 2], {"plan.tmp"}, {}) /\ Puts(S[c + 3], {"plan"}, {"plan.tmp"})
      /\ Puts(S[c + 4], {"main"}, {"main.tmp"}) /\ "main" \in S[c + 4].gain
  <2>1. S = Around(first, last)
    BY <1>2 DEF S
  <2>2. /\ c \in Nat /\ S \in Seq(AStep) /\ Len(S) = c + 1 + Len(last) /\ Len(S) > 0 /\ S[1] = first[1]
        /\ \A i \in 2 .. c + 1 : Puts(S[i], Branches, {})
        /\ \A b \in Branches : \E i \in 2 .. c + 1 : b \in S[i].gain
        /\ \A i \in 1 .. Len(last) : S[c + 1 + i] = last[i]
    BY <1>1, <1>2, <2>1, AroundTheRuns DEF c
  <2>3. /\ S[c + 1 + 1] = last[1] /\ S[c + 1 + 2] = last[2] /\ S[c + 1 + 3] = last[3]
        /\ c + 1 + 1 = c + 2 /\ c + 1 + 2 = c + 3 /\ c + 1 + 3 = c + 4
    BY <1>2, <2>2
  <2>4. /\ S[1] = Put({"main.tmp"}, {})
        /\ S[c + 2] = Put({"plan.tmp"}, {}) /\ S[c + 3] = Put({"plan"}, {"plan.tmp"})
        /\ S[c + 4] = Put({"main"}, {"main.tmp"})
    BY <1>5, <2>2, <2>3
  <2> QED BY <1>2, <2>2, <2>3, <2>4, PutPuts
<1>7. \A i \in 1 .. Len(S) : \/ i = 1
                             \/ i \in 2 .. c + 1
                             \/ i = c + 2 \/ i = c + 3 \/ i = c + 4
  BY <1>6
<1>8. \A i \in 1 .. Len(S) :
         \/ i = 1 /\ Puts(S[i], {"main.tmp"}, {})
         \/ i \in 2 .. c + 1 /\ Puts(S[i], Branches, {})
         \/ i = c + 2 /\ Puts(S[i], {"plan.tmp"}, {})
         \/ i = c + 3 /\ Puts(S[i], {"plan"}, {"plan.tmp"})
         \/ i = c + 4 /\ Puts(S[i], {"main"}, {"main.tmp"})
  BY <1>6, <1>7
<1>9. Unarchived(S) /\ OnlyStagesGo(S)
  BY <1>8, NamesDiffer DEF OnlyStagesGo, Unarchived, Staged, Puts
<1>10. NothingReturns(S)
  <2> SUFFICES ASSUME NEW i \in 1 .. Len(S), NEW j \in 1 .. Len(S), j <= i
               PROVE  S[i].gain \cap S[j].lose = {}
    BY DEF NothingReturns
  <2>1. CASE S[j].lose = {}
    BY <2>1
  <2>2. CASE j = c + 3 /\ S[j].lose = {"plan.tmp"}
    <3>1. S[i].gain \subseteq {"plan", "main"}
      BY <1>6, <1>8, <2>2 DEF Puts
    <3> QED BY <2>2, <3>1
  <2>3. CASE j = c + 4 /\ S[j].lose = {"main.tmp"}
    <3>1. S[i].gain \subseteq {"main"}
      BY <1>6, <1>8, <2>3 DEF Puts
    <3> QED BY <2>3, <3>1
  <2> QED BY <1>8, <2>1, <2>2, <2>3 DEF Puts
<1>11. UndoneInTime(S, "claude")
  <2> SUFFICES ASSUME NEW i \in 1 .. Len(S), NEW j \in 1 .. Len(S), j < i
               PROVE  S[j].gain \subseteq Undone("claude")
    BY DEF UndoneInTime
  <2>1. j # c + 4
    BY <1>6
  <2> QED BY <1>8, <2>1 DEF Undone, Puts
<1>12. MainComesLast(S) /\ AllIsWritten(S)
  <2>1. \A b \in Branches : \E j \in 1 .. Len(S) : j < c + 4 /\ b \in S[j].gain
    BY <1>6
  <2>2. \A i \in 1 .. Len(S) : "main" \in S[i].gain => i = c + 4
    BY <1>8, NamesDiffer DEF Puts
  <2>3. "main" \in S[c + 4].gain /\ c + 4 \in 1 .. Len(S)
    BY <1>6
  <2> QED BY <1>6, <2>1, <2>2, <2>3 DEF MainComesLast, AllIsWritten, Whole
<1>13. StagesGo(S)
  <2>1. \A i \in 1 .. Len(S) : S[i].gain \cap Staged \subseteq {"main.tmp", "plan.tmp"}
    BY <1>8, NamesDiffer DEF Staged, Whole, Puts
  <2>2. "plan.tmp" \in S[c + 3].lose /\ "main.tmp" \in S[c + 4].lose
    BY <1>6 DEF Puts
  <2> QED BY <1>6, <2>1, <2>2 DEF StagesGo
<1>14. ArchiveFirst(S, FALSE)
  BY <1>9 DEF ArchiveFirst, Unarchived
<1> QED BY <1>6, <1>9, <1>10, <1>11, <1>12, <1>13, <1>14 DEF Orderly, S

LEMMA CodexIsOrderly == Orderly(CodexSteps, "codex", FALSE) /\ Unarchived(CodexSteps)
<1> DEFINE first == << Put({"stage"}, {}) >>
           last == << Put({"main"}, {}), Put({}, {"stage"}) >>
<1>1. first \in Seq(AStep) /\ last \in Seq(AStep)
  <2>1. Put({"stage"}, {}) \in AStep /\ Put({"main"}, {}) \in AStep /\ Put({}, {"stage"}) \in AStep
    BY StepsAreTyped, NamesDiffer DEF Staged, Whole
  <2> QED BY <2>1
<1>2. Len(first) = 1 /\ Len(last) = 2 /\ CodexSteps = Around(first, last)
  BY DEF CodexSteps, Around
<1> DEFINE S == CodexSteps
           c == RunCount
<1>3. first[1] = Put({"stage"}, {}) /\ last[1] = Put({"main"}, {}) /\ last[2] = Put({}, {"stage"})
  OBVIOUS
<1> HIDE DEF first, last, S, c
<1>4. /\ c \in Nat /\ S \in Seq(AStep) /\ Len(S) = c + 3 /\ Len(S) > 0
      /\ Puts(S[1], {"stage"}, {})
      /\ \A i \in 2 .. c + 1 : Puts(S[i], Branches, {})
      /\ \A b \in Branches : \E i \in 2 .. c + 1 : b \in S[i].gain
      /\ Puts(S[c + 2], {"main"}, {}) /\ "main" \in S[c + 2].gain
      /\ Puts(S[c + 3], {}, {"stage"}) /\ S[c + 3] = Put({}, {"stage"})
  <2>1. S = Around(first, last)
    BY <1>2 DEF S
  <2>2. /\ c \in Nat /\ S \in Seq(AStep) /\ Len(S) = c + 1 + Len(last) /\ Len(S) > 0 /\ S[1] = first[1]
        /\ \A i \in 2 .. c + 1 : Puts(S[i], Branches, {})
        /\ \A b \in Branches : \E i \in 2 .. c + 1 : b \in S[i].gain
        /\ \A i \in 1 .. Len(last) : S[c + 1 + i] = last[i]
    BY <1>1, <1>2, <2>1, AroundTheRuns DEF c
  <2>3. /\ S[c + 1 + 1] = last[1] /\ S[c + 1 + 2] = last[2]
        /\ c + 1 + 1 = c + 2 /\ c + 1 + 2 = c + 3
    BY <1>2, <2>2
  <2>4. S[1] = Put({"stage"}, {}) /\ S[c + 2] = Put({"main"}, {}) /\ S[c + 3] = Put({}, {"stage"})
    BY <1>3, <2>2, <2>3
  <2> QED BY <1>2, <2>2, <2>4, PutPuts
<1>5. \A i \in 1 .. Len(S) : i = 1 \/ i \in 2 .. c + 1 \/ i = c + 2 \/ i = c + 3
  BY <1>4
<1>6. \A i \in 1 .. Len(S) : \/ i = 1 /\ Puts(S[i], {"stage"}, {})
                             \/ i \in 2 .. c + 1 /\ Puts(S[i], Branches, {})
                             \/ i = c + 2 /\ Puts(S[i], {"main"}, {})
                             \/ i = c + 3 /\ Puts(S[i], {}, {"stage"})
  BY <1>4, <1>5
<1>7. Unarchived(S) /\ OnlyStagesGo(S)
  BY <1>6, NamesDiffer DEF OnlyStagesGo, Unarchived, Staged, Puts
<1>8. NothingReturns(S)
  <2> SUFFICES ASSUME NEW i \in 1 .. Len(S), NEW j \in 1 .. Len(S), j <= i
               PROVE  S[i].gain \cap S[j].lose = {}
    BY DEF NothingReturns
  <2>1. CASE j = c + 3
    <3>1. i = c + 3
      BY <1>4, <2>1
    <3> QED BY <1>4, <3>1 DEF Puts
  <2>2. CASE j # c + 3
    BY <1>6, <2>2 DEF Puts
  <2> QED BY <2>1, <2>2
<1>9. UndoneInTime(S, "codex")
  <2> SUFFICES ASSUME NEW i \in 1 .. Len(S), NEW j \in 1 .. Len(S), j < i, CanFail(S[i])
               PROVE  S[j].gain \subseteq Undone("codex")
    BY DEF UndoneInTime
  <2>1. i # c + 3
    BY <1>4 DEF CanFail
  <2>2. j = 1 \/ j \in 2 .. c + 1
    BY <1>4, <1>5, <2>1
  <2> QED BY <1>4, <1>6, <2>2 DEF Undone, Puts
<1>10. MainComesLast(S) /\ AllIsWritten(S)
  <2>1. \A b \in Branches : \E j \in 1 .. Len(S) : j < c + 2 /\ b \in S[j].gain
    BY <1>4
  <2>2. \A i \in 1 .. Len(S) : "main" \in S[i].gain => i = c + 2
    BY <1>6, NamesDiffer DEF Puts
  <2>3. "main" \in S[c + 2].gain /\ c + 2 \in 1 .. Len(S)
    BY <1>4
  <2> QED BY <1>4, <2>1, <2>2, <2>3 DEF MainComesLast, AllIsWritten, Whole
<1>11. StagesGo(S)
  <2>1. \A i \in 1 .. Len(S) : S[i].gain \cap Staged \subseteq {"stage"}
    BY <1>6, NamesDiffer DEF Staged, Puts
  <2>2. "stage" \in S[c + 3].lose
    BY <1>4 DEF Puts
  <2> QED BY <1>4, <2>1, <2>2 DEF StagesGo
<1>12. ArchiveFirst(S, FALSE)
  BY <1>7 DEF ArchiveFirst, Unarchived
<1> QED BY <1>4, <1>7, <1>8, <1>9, <1>10, <1>11, <1>12 DEF Orderly, S

LEMMA OpenCodeIsOrderly == Orderly(OpenCodeSteps, "opencode", FALSE) /\ Unarchived(OpenCodeSteps)
<1> DEFINE first == << Put({"main"}, {}) >>
           last == << Put({"tree"}, {}) >>
<1>1. first \in Seq(AStep) /\ last \in Seq(AStep)
  <2>1. Put({"main"}, {}) \in AStep /\ Put({"tree"}, {}) \in AStep
    BY StepsAreTyped, NamesDiffer DEF Whole
  <2> QED BY <2>1
<1>2. Len(first) = 1 /\ Len(last) = 1 /\ OpenCodeSteps = Around(first, last)
  BY DEF OpenCodeSteps, Around
<1> DEFINE S == OpenCodeSteps
           c == RunCount
<1>3. first[1] = Put({"main"}, {}) /\ last[1] = Put({"tree"}, {})
  OBVIOUS
<1> HIDE DEF first, last, S, c
<1>4. /\ c \in Nat /\ S \in Seq(AStep) /\ Len(S) = c + 2 /\ Len(S) > 0
      /\ Puts(S[1], {"main"}, {}) /\ "main" \in S[1].gain
      /\ \A i \in 2 .. c + 1 : Puts(S[i], Branches, {})
      /\ \A b \in Branches : \E i \in 2 .. c + 1 : b \in S[i].gain
      /\ Puts(S[c + 2], {"tree"}, {})
  <2>1. S = Around(first, last)
    BY <1>2 DEF S
  <2>2. /\ c \in Nat /\ S \in Seq(AStep) /\ Len(S) = c + 1 + Len(last) /\ Len(S) > 0 /\ S[1] = first[1]
        /\ \A i \in 2 .. c + 1 : Puts(S[i], Branches, {})
        /\ \A b \in Branches : \E i \in 2 .. c + 1 : b \in S[i].gain
        /\ \A i \in 1 .. Len(last) : S[c + 1 + i] = last[i]
    BY <1>1, <1>2, <2>1, AroundTheRuns DEF c
  <2>3. S[c + 1 + 1] = last[1] /\ c + 1 + 1 = c + 2
    BY <1>2, <2>2
  <2>4. S[1] = Put({"main"}, {}) /\ S[c + 2] = Put({"tree"}, {})
    BY <1>3, <2>2, <2>3
  <2> QED BY <1>2, <2>2, <2>4, PutPuts
<1>5. \A i \in 1 .. Len(S) : i = 1 \/ i \in 2 .. c + 1 \/ i = c + 2
  BY <1>4
<1>6. \A i \in 1 .. Len(S) : \/ i = 1 /\ Puts(S[i], {"main"}, {})
                             \/ i \in 2 .. c + 1 /\ Puts(S[i], Branches, {})
                             \/ i = c + 2 /\ Puts(S[i], {"tree"}, {})
  BY <1>4, <1>5
<1>7. Unarchived(S) /\ OnlyStagesGo(S) /\ NothingReturns(S)
  BY <1>6, NamesDiffer DEF OnlyStagesGo, Unarchived, NothingReturns, Staged, Puts
<1>8. UndoneInTime(S, "opencode")
  BY <1>6 DEF UndoneInTime, Undone, Whole, Puts
<1>9. AllIsWritten(S)
  <2>1. 1 \in 1 .. Len(S) /\ \A i \in 2 .. c + 1 : i \in 1 .. Len(S)
    BY <1>4
  <2> QED BY <1>4, <2>1 DEF AllIsWritten, Whole
<1>10. StagesGo(S)
  BY <1>6, NamesDiffer DEF StagesGo, Staged, Puts
<1>11. ArchiveFirst(S, FALSE)
  BY <1>7 DEF ArchiveFirst, Unarchived
<1> QED BY <1>4, <1>7, <1>8, <1>9, <1>10, <1>11 DEF Orderly, S

\* The tree is staged, and put in place as a whole.
LEMMA KimiIsOrderly == Orderly(KimiSteps, "kimi", FALSE) /\ Unarchived(KimiSteps)
<1> DEFINE S == KimiSteps
<1>1. S \in Seq(AStep) /\ Len(S) = 2 /\ S[1] = Put({"stage"}, {}) /\ S[2] = Put(Whole, {"stage"})
  <2>1. Put({"stage"}, {}) \in AStep /\ Put(Whole, {"stage"}) \in AStep
    BY StepsAreTyped, NamesDiffer DEF Staged
  <2> QED BY <2>1 DEF KimiSteps
<1> HIDE DEF S
<1>2. /\ Puts(S[1], {"stage"}, {}) /\ S[1].gain = {"stage"}
      /\ Puts(S[2], Whole, {"stage"}) /\ S[2].gain = Whole
  BY <1>1, PutPuts
<1>3. \A i \in 1 .. Len(S) : i = 1 \/ i = 2
  BY <1>1
<1>4. 1 \in 1 .. Len(S) /\ 2 \in 1 .. Len(S) /\ Len(S) > 0
  BY <1>1
<1>5. Unarchived(S) /\ OnlyStagesGo(S) /\ NothingReturns(S) /\ StagesGo(S)
  BY <1>2, <1>3, <1>4, NamesDiffer DEF OnlyStagesGo, Unarchived, NothingReturns, StagesGo, Staged, Whole, Puts
<1>6. MainComesLast(S) /\ AllIsWritten(S)
  BY <1>2, <1>3, <1>4 DEF MainComesLast, AllIsWritten, Whole
<1>7. UndoneInTime(S, "kimi")
  BY <1>2, <1>3 DEF UndoneInTime, Undone
<1>8. ArchiveFirst(S, FALSE)
  BY <1>5 DEF ArchiveFirst, Unarchived
<1> QED BY <1>1, <1>4, <1>5, <1>6, <1>7, <1>8 DEF Orderly, S

LEMMA LegacyIsOrderly == Orderly(LegacySteps, "legacy", FALSE) /\ Unarchived(LegacySteps)
<1> DEFINE S == LegacySteps
<1>1. /\ S \in Seq(AStep) /\ Len(S) = 5 /\ S[1] = Put({"stage"}, {}) /\ S[2] = Put(Whole, {"stage"})
      /\ S[3] = Op("look") /\ S[4] = Op("draft") /\ S[5] = Op("list")
  <2>1. /\ Put({"stage"}, {}) \in AStep /\ Put(Whole, {"stage"}) \in AStep
        /\ Op("look") \in AStep /\ Op("draft") \in AStep /\ Op("list") \in AStep
    BY StepsAreTyped, NamesDiffer DEF Staged
  <2> DEFINE tree == << Put({"stage"}, {}), Put(Whole, {"stage"}) >>
             entry == << Op("look"), Op("draft"), Op("list") >>
  <2>2. /\ tree \in Seq(AStep) /\ Len(tree) = 2 /\ entry \in Seq(AStep) /\ Len(entry) = 3
        /\ tree[1] = Put({"stage"}, {}) /\ tree[2] = Put(Whole, {"stage"})
        /\ entry[1] = Op("look") /\ entry[2] = Op("draft") /\ entry[3] = Op("list")
    BY <2>1
  <2>3. S = tree \o entry
    BY DEF LegacySteps, KimiSteps
  <2> HIDE DEF S, tree, entry
  <2>4. /\ S \in Seq(AStep) /\ Len(S) = Len(tree) + Len(entry)
        /\ \A i \in 1 .. Len(tree) + Len(entry) : S[i] = IF i <= Len(tree) THEN tree[i] ELSE entry[i - Len(tree)]
    BY <2>2, <2>3, ConcatProperties
  <2>5. \A i \in 1 .. 5 : S[i] = IF i <= 2 THEN tree[i] ELSE entry[i - 2]
    BY <2>2, <2>4
  <2>6. S[1] = tree[1] /\ S[2] = tree[2] /\ S[3] = entry[1] /\ S[4] = entry[2] /\ S[5] = entry[3]
    BY <2>5
  <2> QED BY <2>2, <2>4, <2>6
<1> HIDE DEF S
<1>2. /\ Puts(S[1], {"stage"}, {}) /\ S[1].gain = {"stage"}
      /\ Puts(S[2], Whole, {"stage"}) /\ S[2].gain = Whole
  BY <1>1, PutPuts
<1>3. \A i \in 3 .. 5 : S[i].gain = {} /\ S[i].lose = {} /\ S[i].op # "name"
  <2>1. \A i \in 3 .. 5 : i = 3 \/ i = 4 \/ i = 5
    OBVIOUS
  <2> QED BY <1>1, <2>1 DEF Op
<1>4. \A i \in 1 .. Len(S) : i = 1 \/ i = 2 \/ i \in 3 .. 5
  BY <1>1
<1>5. 1 \in 1 .. Len(S) /\ 2 \in 1 .. Len(S) /\ Len(S) > 0
  BY <1>1
<1>6. Unarchived(S) /\ OnlyStagesGo(S) /\ StagesGo(S)
  BY <1>2, <1>3, <1>4, <1>5, NamesDiffer DEF OnlyStagesGo, Unarchived, StagesGo, Staged, Whole, Puts
<1>7. NothingReturns(S)
  BY <1>2, <1>3, <1>4, NamesDiffer DEF NothingReturns, Staged, Whole, Puts
<1>8. MainComesLast(S) /\ AllIsWritten(S)
  BY <1>2, <1>3, <1>4, <1>5 DEF MainComesLast, AllIsWritten, Whole
<1>9. UndoneInTime(S, "legacy")
  BY <1>2, <1>3, <1>4 DEF UndoneInTime, Undone
<1>10. ArchiveFirst(S, FALSE)
  BY <1>6 DEF ArchiveFirst, Unarchived
<1> QED BY <1>1, <1>5, <1>6, <1>7, <1>8, <1>9, <1>10 DEF Orderly, S

-----------------------------------------------------------------------------
(* The steps of a transfer.                                                *)

\* An archive before a writer's steps, and its name after them, leave them in order.
LEMMA ArchivedIsOrderly ==
    ASSUME NEW W, NEW a, Orderly(W, a, FALSE), Unarchived(W)
    PROVE  Orderly(ArchiveSteps \o W \o << Op("name") >>, a, TRUE)
<1> DEFINE S == ArchiveSteps \o W \o << Op("name") >>
           n == Len(W)
<1>1. W \in Seq(AStep) /\ n > 0 /\ n \in Nat
  BY LenProperties DEF Orderly
<1>2. /\ ArchiveSteps \in Seq(AStep) /\ Len(ArchiveSteps) = 2
      /\ ArchiveSteps[1] = Put({"archive.tmp"}, {}) /\ ArchiveSteps[2] = Put({"archive"}, {"archive.tmp"})
      /\ << Op("name") >> \in Seq(AStep) /\ Len(<< Op("name") >>) = 1 /\ << Op("name") >>[1] = Op("name")
  <2>1. Put({"archive.tmp"}, {}) \in AStep /\ Put({"archive"}, {"archive.tmp"}) \in AStep /\ Op("name") \in AStep
    BY StepsAreTyped, NamesDiffer DEF Staged
  <2> QED BY <2>1 DEF ArchiveSteps
<1>3. /\ S \in Seq(AStep) /\ Len(S) = n + 3
      /\ S[1] = Put({"archive.tmp"}, {}) /\ S[2] = Put({"archive"}, {"archive.tmp"})
      /\ \A i \in 1 .. n : S[i + 2] = W[i]
      /\ S[n + 3] = Op("name")
  <2> DEFINE tail == << Op("name") >>
             head == ArchiveSteps \o W
  <2> HIDE DEF n, tail
  <2>1. /\ head \in Seq(AStep) /\ Len(head) = Len(ArchiveSteps) + Len(W)
        /\ \A i \in 1 .. Len(ArchiveSteps) + Len(W) :
              head[i] = IF i <= Len(ArchiveSteps) THEN ArchiveSteps[i] ELSE W[i - Len(ArchiveSteps)]
    BY <1>1, <1>2, ConcatProperties
  <2> HIDE DEF head
  <2>2. tail \in Seq(AStep) /\ Len(tail) = 1 /\ tail[1] = Op("name")
    BY <1>2 DEF tail
  <2>3. Len(head) = n + 2 /\ \A i \in 1 .. n + 2 : head[i] = IF i <= 2 THEN ArchiveSteps[i] ELSE W[i - 2]
    BY <1>1, <1>2, <2>1 DEF n
  <2>4. S = head \o tail
    BY DEF head, tail
  <2> HIDE DEF S
  <2>5. /\ S \in Seq(AStep) /\ Len(S) = Len(head) + Len(tail)
        /\ \A i \in 1 .. Len(head) + Len(tail) : S[i] = IF i <= Len(head) THEN head[i] ELSE tail[i - Len(head)]
    <3>1. head \in Seq(AStep) /\ tail \in Seq(AStep)
      BY <2>1, <2>2
    <3>2. /\ head \o tail \in Seq(AStep) /\ Len(head \o tail) = Len(head) + Len(tail)
          /\ \A i \in 1 .. Len(head) + Len(tail) :
                (head \o tail)[i] = IF i <= Len(head) THEN head[i] ELSE tail[i - Len(head)]
      BY <3>1, ConcatProperties
    <3> QED BY <2>4, <3>2
  <2>6. /\ S \in Seq(AStep) /\ Len(S) = n + 3
        /\ \A i \in 1 .. n + 3 : S[i] = IF i <= n + 2 THEN head[i] ELSE tail[i - (n + 2)]
    BY <1>1, <2>2, <2>3, <2>5
  <2>7. S[n + 3] = tail[1] /\ S[1] = head[1] /\ S[2] = head[2]
    BY <1>1, <2>6
  <2>8. head[1] = ArchiveSteps[1] /\ head[2] = ArchiveSteps[2]
    BY <1>1, <2>3
  <2>9. ASSUME NEW i \in 1 .. n PROVE S[i + 2] = W[i]
    <3>1. i + 2 \in 1 .. n + 2 /\ ~(i + 2 <= 2) /\ (i + 2) - 2 = i /\ i + 2 \in 1 .. n + 3
      BY <1>1
    <3> QED BY <2>3, <2>6, <3>1
  <2> QED BY <1>2, <2>2, <2>6, <2>7, <2>8, <2>9
<1> HIDE DEF S, n
<1>4. /\ Puts(S[1], {"archive.tmp"}, {}) /\ S[1].gain = {"archive.tmp"}
      /\ Puts(S[2], {"archive"}, {"archive.tmp"}) /\ S[2].gain = {"archive"}
      /\ S[n + 3].op = "name" /\ S[n + 3].gain = {} /\ S[n + 3].lose = {}
  BY <1>3, PutPuts DEF Op
<1>5. \A i \in 1 .. Len(S) : i = 1 \/ i = 2 \/ i = n + 3 \/ (i - 2 \in 1 .. n /\ S[i] = W[i - 2])
  <2> TAKE i \in 1 .. Len(S)
  <2>1. i = 1 \/ i = 2 \/ i = n + 3 \/ (i - 2 \in 1 .. n /\ (i - 2) + 2 = i)
    BY <1>1, <1>3
  <2> QED BY <1>3, <2>1
<1>6. /\ 1 \in 1 .. Len(S) /\ 2 \in 1 .. Len(S) /\ Len(S) > 0
      /\ \A k \in 1 .. n : k + 2 \in 1 .. Len(S) /\ S[k + 2] = W[k]
  BY <1>1, <1>3
<1>7. \A k \in 1 .. n : /\ W[k].op # "name" /\ W[k].lose \subseteq Staged
                        /\ {"archive", "archive.tmp"} \cap (W[k].gain \cup W[k].lose) = {}
  BY DEF Orderly, OnlyStagesGo, Unarchived, n
<1>8. OnlyStagesGo(S)
  <2> SUFFICES ASSUME NEW i \in 1 .. Len(S) PROVE S[i].lose \subseteq Staged
    BY DEF OnlyStagesGo
  <2> QED BY <1>4, <1>5, <1>7 DEF Puts, Staged
<1>9. NothingReturns(S)
  <2> SUFFICES ASSUME NEW i \in 1 .. Len(S), NEW j \in 1 .. Len(S), j <= i
               PROVE  S[i].gain \cap S[j].lose = {}
    BY DEF NothingReturns
  <2>1. CASE j = 1 \/ j = n + 3
    BY <1>4, <2>1 DEF Puts
  <2>2. CASE j = 2
    <3>1. S[j].lose = {"archive.tmp"} /\ i # 1
      BY <1>4, <2>2 DEF Puts
    <3>2. "archive.tmp" \notin S[i].gain
      BY <1>4, <1>5, <1>7, <3>1
    <3> QED BY <3>1, <3>2
  <2>3. CASE j - 2 \in 1 .. n /\ S[j] = W[j - 2]
    <3>1. CASE i = n + 3
      BY <1>4, <3>1
    <3>2. CASE i - 2 \in 1 .. n /\ S[i] = W[i - 2]
      <4>1. j - 2 <= i - 2
        BY <1>1, <1>3
      <4>2. W[i - 2].gain \cap W[j - 2].lose = {}
        BY <2>3, <3>2, <4>1 DEF Orderly, NothingReturns, n
      <4> QED BY <2>3, <3>2, <4>2
    <3>3. i # 1 /\ i # 2
      BY <1>1, <1>3, <2>3
    <3> QED BY <1>5, <3>1, <3>2, <3>3
  <2> QED BY <1>5, <2>1, <2>2, <2>3
<1>10. UndoneInTime(S, a)
  <2> SUFFICES ASSUME NEW i \in 1 .. Len(S), NEW j \in 1 .. Len(S), j < i, CanFail(S[i])
               PROVE  S[j].gain \subseteq {"archive", "archive.tmp"} \cup Undone(a)
    BY DEF UndoneInTime
  <2>1. CASE j = 1 \/ j = 2
    BY <1>4, <2>1
  <2>2. i # n + 3
    BY <1>4 DEF CanFail
  <2>3. CASE j - 2 \in 1 .. n /\ S[j] = W[j - 2]
    <3>1. i - 2 \in 1 .. n /\ S[i] = W[i - 2] /\ j - 2 < i - 2
      BY <1>1, <1>3, <1>5, <2>2, <2>3
    <3> QED BY <2>3, <3>1 DEF Orderly, UndoneInTime, n
  <2>4. j # n + 3
    BY <1>1, <1>3
  <2> QED BY <1>5, <2>1, <2>3, <2>4
<1>11. a # "opencode" => MainComesLast(S)
  <2> SUFFICES ASSUME a # "opencode", NEW i \in 1 .. Len(S), "main" \in S[i].gain, NEW b \in Branches
               PROVE  \E j \in 1 .. i : b \in S[j].gain
    BY DEF MainComesLast
  <2>1. i - 2 \in 1 .. n /\ S[i] = W[i - 2]
    BY <1>4, <1>5
  <2>2. PICK k \in 1 .. i - 2 : b \in W[k].gain
    BY <2>1 DEF Orderly, MainComesLast, n
  <2>3. k \in 1 .. n /\ k + 2 \in 1 .. i
    BY <1>1, <2>1, <2>2
  <2> QED BY <1>6, <2>2, <2>3
<1>12. AllIsWritten(S)
  <2> SUFFICES ASSUME NEW w \in Whole PROVE \E i \in 1 .. Len(S) : w \in S[i].gain
    BY DEF AllIsWritten
  <2>1. PICK k \in 1 .. n : w \in W[k].gain
    BY DEF Orderly, AllIsWritten, n
  <2> QED BY <1>6, <2>1
<1>13. StagesGo(S)
  <2> SUFFICES ASSUME NEW i \in 1 .. Len(S), NEW x \in S[i].gain \cap Staged
               PROVE  \E j \in 1 .. Len(S) : x \in S[j].lose
    BY DEF StagesGo
  <2>1. CASE i = 1
    BY <1>4, <1>6, <2>1 DEF Puts
  <2>2. i # 2 /\ i # n + 3
    BY <1>4 DEF Staged
  <2>3. CASE i - 2 \in 1 .. n /\ S[i] = W[i - 2]
    <3>1. PICK k \in 1 .. n : x \in W[k].lose
      BY <2>3 DEF Orderly, StagesGo, n
    <3> QED BY <1>6, <3>1
  <2> QED BY <1>5, <2>1, <2>2, <2>3
<1>14. ArchiveFirst(S, TRUE)
  <2>1. "archive" \in S[2].gain
    BY <1>4
  <2>2. ASSUME NEW i \in 1 .. Len(S), S[i].gain \cap Whole # {}
        PROVE  2 \in 1 .. i - 1
    <3>1. i # 1 /\ i # 2
      BY <1>4, <2>2, NamesDiffer DEF Staged, Whole
    <3> QED BY <3>1, <1>1, <1>3
  <2> QED BY <1>6, <2>1, <2>2 DEF ArchiveFirst
<1> QED BY <1>3, <1>6, <1>8, <1>9, <1>10, <1>11, <1>12, <1>13, <1>14 DEF Orderly, S

\* Whatever a transfer writes, with an archive or without: its steps are in order.
LEMMA StepsAreOrderly ==
    ASSUME Typed, NEW t \in Transfers
    PROVE  Orderly(Steps(t), target[t], compacted[t])
<1>1. target[t] \in {"claude", "codex", "opencode", "kimi", "legacy"} /\ compacted[t] \in BOOLEAN
  BY PublishAssumption DEF Typed
<1>2. Orderly(Writer(target[t]), target[t], FALSE) /\ Unarchived(Writer(target[t]))
  BY <1>1, ClaudeIsOrderly, CodexIsOrderly, OpenCodeIsOrderly, KimiIsOrderly, LegacyIsOrderly DEF Writer
<1>3. CASE compacted[t]
  <2>1. Steps(t) = ArchiveSteps \o Writer(target[t]) \o << Op("name") >> /\ compacted[t] = TRUE
    BY <1>1, <1>3 DEF Steps
  <2> QED BY <1>2, <2>1, ArchivedIsOrderly
<1>4. CASE ~compacted[t]
  <2>1. Steps(t) = Writer(target[t]) /\ compacted[t] = FALSE
    BY <1>1, <1>4 DEF Steps
  <2> QED BY <1>2, <2>1
<1> QED BY <1>3, <1>4

\* A step does to the disk what it says; nothing is there before the first.
LEMMA ThereMoves ==
    ASSUME NEW S, NEW a, NEW c, Orderly(S, a, c)
    PROVE  /\ There(S, 1) = {}
           /\ \A p \in 1 .. Len(S) : There(S, p + 1) = (There(S, p) \ S[p].lose) \cup S[p].gain
<1>1. S \in Seq(AStep) /\ Len(S) \in Nat
  BY LenProperties DEF Orderly
<1>2. There(S, 1) = {}
  BY DEF There
<1>3. ASSUME NEW p \in 1 .. Len(S)
      PROVE  There(S, p + 1) = (There(S, p) \ S[p].lose) \cup S[p].gain
  <2>1. S[p] \in AStep
    BY <1>1, ElementOfSeq
  <2>2. S[p].gain \subseteq Files
    BY <2>1 DEF AStep
  <2>3. \A i : i \in 1 .. (p + 1) - 1 <=> i \in 1 .. p - 1 \/ i = p
    BY <1>1
  <2>4. \A x \in S[p].gain : \A i \in 1 .. (p + 1) - 1 : x \notin S[i].lose
    BY <1>1 DEF Orderly, NothingReturns
  <2>5. ASSUME NEW x \in Files
        PROVE  x \in There(S, p + 1) <=> x \in (There(S, p) \ S[p].lose) \cup S[p].gain
    <3>1. CASE x \in S[p].gain
      BY <2>3, <2>4, <3>1 DEF There
    <3>2. CASE x \notin S[p].gain
      BY <2>3, <3>2 DEF There
    <3> QED BY <3>1, <3>2
  <2> QED BY <2>2, <2>5 DEF There
<1> QED BY <1>2, <1>3

\* What comes of the order: the archive before what names it, the main thread
\* after its runs, nothing staged at the end, and nothing that stays undone.
LEMMA WhatIsThere ==
    ASSUME NEW S, NEW a, NEW c, Orderly(S, a, c), NEW p \in 1 .. Len(S) + 1
    PROVE  /\ c /\ There(S, p) \cap Whole # {} => "archive" \in There(S, p)
           /\ a # "opencode" /\ "main" \in There(S, p) => Whole \subseteq There(S, p)
           /\ p <= Len(S) /\ CanFail(S[p]) =>
                 There(S, p) \subseteq {"archive", "archive.tmp"} \cup Undone(a)
           /\ p = Len(S) + 1 => /\ Whole \subseteq There(S, p)
                                /\ c <=> "archive" \in There(S, p)
                                /\ There(S, p) \cap Staged = {}
<1>1. S \in Seq(AStep) /\ Len(S) \in Nat
  BY LenProperties DEF Orderly
<1>2. \A i \in 1 .. p - 1 : i \in 1 .. Len(S) /\ S[i] \in AStep
  <2> TAKE i \in 1 .. p - 1
  <2>1. i \in 1 .. Len(S)
    BY <1>1
  <2> QED BY <1>1, <2>1, ElementOfSeq
<1>3. Whole \cup {"archive"} \subseteq Files /\ (Whole \cup {"archive"}) \cap Staged = {}
  BY NamesDiffer DEF Whole, Staged
<1>4. ASSUME NEW x \in Whole \cup {"archive"}, NEW i \in 1 .. p - 1, x \in S[i].gain
      PROVE  x \in There(S, p)
  <2>1. \A j \in 1 .. p - 1 : x \notin S[j].lose
    BY <1>2, <1>3 DEF Orderly, OnlyStagesGo
  <2> QED BY <1>3, <1>4, <2>1 DEF There
<1>5. ASSUME c, There(S, p) \cap Whole # {}
      PROVE  "archive" \in There(S, p)
  <2>1. PICK i \in 1 .. p - 1 : S[i].gain \cap Whole # {}
    BY <1>5 DEF There
  <2>2. i \in 1 .. Len(S)
    BY <1>2
  <2>3. PICK j \in 1 .. i - 1 : "archive" \in S[j].gain
    BY <1>5, <2>1, <2>2 DEF Orderly, ArchiveFirst
  <2>4. j \in 1 .. p - 1
    BY <1>1, <2>1, <2>3
  <2> QED BY <1>4, <2>3, <2>4
<1>6. ASSUME a # "opencode", "main" \in There(S, p)
      PROVE  Whole \subseteq There(S, p)
  <2>1. PICK i \in 1 .. p - 1 : "main" \in S[i].gain
    BY <1>6 DEF There
  <2>2. ASSUME NEW b \in Branches
        PROVE  b \in There(S, p)
    <3>1. PICK j \in 1 .. i : b \in S[j].gain
      BY <1>2, <1>6, <2>1 DEF Orderly, MainComesLast
    <3>2. j \in 1 .. p - 1
      BY <1>1, <2>1, <3>1
    <3> QED BY <1>4, <3>1, <3>2 DEF Whole
  <2> QED BY <1>6, <2>2 DEF Whole
<1>7. ASSUME p <= Len(S), CanFail(S[p])
      PROVE  There(S, p) \subseteq {"archive", "archive.tmp"} \cup Undone(a)
  <2>1. \A i \in 1 .. p - 1 : S[i].gain \subseteq {"archive", "archive.tmp"} \cup Undone(a)
    <3> TAKE i \in 1 .. p - 1
    <3>1. p \in 1 .. Len(S) /\ i \in 1 .. Len(S) /\ i < p
      BY <1>1, <1>7
    <3> QED BY <1>7, <3>1 DEF Orderly, UndoneInTime
  <2> QED BY <2>1 DEF There
<1>8. ASSUME p = Len(S) + 1
      PROVE  /\ Whole \subseteq There(S, p)
             /\ c <=> "archive" \in There(S, p)
             /\ There(S, p) \cap Staged = {}
  <2>1. \A i : i \in 1 .. p - 1 <=> i \in 1 .. Len(S)
    BY <1>1, <1>8
  <2>2. Whole \subseteq There(S, p)
    BY <1>4, <2>1 DEF Orderly, AllIsWritten
  <2>3. c => "archive" \in There(S, p)
    BY <1>4, <2>1 DEF Orderly, ArchiveFirst
  <2>4. "archive" \in There(S, p) => c
    BY <2>1 DEF Orderly, ArchiveFirst, There
  <2>5. ASSUME NEW x \in There(S, p) \cap Staged
        PROVE  FALSE
    <3>1. PICK i \in 1 .. Len(S) : x \in S[i].gain
      BY <2>1 DEF There
    <3>2. PICK j \in 1 .. Len(S) : x \in S[j].lose
      BY <3>1 DEF Orderly, StagesGo
    <3> QED BY <2>1, <3>2 DEF There
  <2> QED BY <2>2, <2>3, <2>4, <2>5
<1> QED BY <1>5, <1>6, <1>7, <1>8

-----------------------------------------------------------------------------
(* The steps keep the invariant.                                           *)

LEMMA PublishedAtFirst ==
    ASSUME Init
    PROVE  Published
BY DEF Init, Published, Typed, InStep

\* What one transfer does, another's files do not see.
LEMMA OthersStay ==
    ASSUME Published, NEW t \in Transfers, NEW u \in Transfers, u # t, Typed',
           target' = target, compacted' = compacted,
           pc'[u] = pc[u], outcome'[u] = outcome[u], disk'[u] = disk[u], u \in stuck' <=> u \in stuck
    PROVE  InStep(u)'
<1>1. InStep(u)
  BY DEF Published
<1>2. Steps(u)' = Steps(u)
  BY DEF Steps
<1> QED BY <1>1, <1>2 DEF InStep

\* A step that is not the last leads to the next, and the last to the end.
LEMMA AdvanceKeeps ==
    ASSUME Published, NEW t \in Transfers, Runs(t), Advance(t),
           disk' = [disk EXCEPT ![t] = (disk[t] \ Now(t).lose) \cup Now(t).gain]
    PROVE  Published'
<1> DEFINE S == Steps(t)
           p == pc[t]
<1>1. Typed /\ InStep(t) /\ outcome[t] = "running"
  BY DEF Published, Runs
<1>2. Orderly(S, target[t], compacted[t])
  BY <1>1, StepsAreOrderly
<1>3. S \in Seq(AStep) /\ Len(S) \in Nat
  BY <1>2, LenProperties DEF Orderly
<1>4. p \in 1 .. Len(S) /\ disk[t] = There(S, p) /\ t \notin stuck
  BY <1>1 DEF InStep
<1>5. S[p] \in AStep
  BY <1>3, <1>4, ElementOfSeq
<1>6. There(S, p + 1) = (There(S, p) \ S[p].lose) \cup S[p].gain
  BY <1>2, <1>4, ThereMoves
<1>7. /\ target' = target /\ compacted' = compacted /\ stuck' = stuck
      /\ pc' = [pc EXCEPT ![t] = p + 1]
      /\ outcome' = IF p = Len(S) THEN [outcome EXCEPT ![t] = "ok"] ELSE outcome
  BY DEF Advance
<1>8. /\ pc'[t] = p + 1 /\ disk'[t] = There(S, p + 1)
      /\ outcome'[t] = IF p = Len(S) THEN "ok" ELSE "running"
  BY <1>1, <1>4, <1>6, <1>7 DEF Typed, Now
<1>9. Typed'
  <2>1. (disk[t] \ Now(t).lose) \cup Now(t).gain \in SUBSET Files
    BY <1>1, <1>5 DEF Typed, AStep, Now
  <2> QED BY <1>1, <1>7, <2>1 DEF Typed
<1>10. Steps(t)' = S
  BY <1>7 DEF Steps
<1>11. InStep(t)'
  BY <1>3, <1>4, <1>7, <1>8, <1>10 DEF InStep
<1>12. ASSUME NEW u \in Transfers, u # t
       PROVE  InStep(u)'
  <2>1. pc'[u] = pc[u] /\ outcome'[u] = outcome[u] /\ disk'[u] = disk[u]
    BY <1>1, <1>7, <1>12 DEF Typed
  <2> QED BY <1>7, <1>9, <1>12, <2>1, OthersStay
<1> QED BY <1>9, <1>11, <1>12 DEF Published

\* A step that only touches kimi.json, or names the session, moves no file.
LEMMA QuietKeeps ==
    ASSUME Published, NEW t \in Transfers, Runs(t), Advance(t), Now(t).op # "put", UNCHANGED disk
    PROVE  Published'
<1>1. Typed /\ InStep(t) /\ outcome[t] = "running"
  BY DEF Published, Runs
<1>2. Orderly(Steps(t), target[t], compacted[t])
  BY <1>1, StepsAreOrderly
<1>3. Steps(t) \in Seq(AStep) /\ pc[t] \in 1 .. Len(Steps(t))
  BY <1>1, <1>2 DEF Orderly, InStep
<1>4. Now(t) \in AStep
  BY <1>3, ElementOfSeq DEF Now
<1>5. Now(t).gain = {} /\ Now(t).lose = {}
  BY <1>4 DEF AStep
<1>6. disk' = [disk EXCEPT ![t] = (disk[t] \ Now(t).lose) \cup Now(t).gain]
  BY <1>1, <1>5 DEF Typed
<1> QED BY <1>6, AdvanceKeeps

LEMMA FailKeeps ==
    ASSUME Published, NEW t \in Transfers, Fail(t)
    PROVE  Published'
<1> DEFINE S == Steps(t)
           p == pc[t]
           undone == {"archive", "archive.tmp"} \cup Undone(target[t])
           mine == (disk[t] \cup Now(t).gain) \cap Whole
<1>1. Typed /\ InStep(t) /\ outcome[t] = "running"
  BY DEF Published, Fail, Runs
<1>2. Orderly(S, target[t], compacted[t])
  BY <1>1, StepsAreOrderly
<1>3. Len(S) \in Nat /\ p \in 1 .. Len(S) /\ disk[t] = There(S, p) /\ t \notin stuck
  BY <1>1, <1>2, LenProperties DEF Orderly, InStep
<1>4. CanFail(S[p])
  BY DEF Fail, CanFail, Now
<1>5. disk[t] \ undone = {}
  <2>1. p \in 1 .. Len(S) + 1 /\ p <= Len(S)
    BY <1>3
  <2>2. There(S, p) \subseteq undone
    BY <1>2, <1>4, <2>1, WhatIsThere
  <2> QED BY <1>3, <2>2
<1>6. /\ UNCHANGED <<target, compacted, pc>>
      /\ outcome' = [outcome EXCEPT ![t] = "failed"]
  BY DEF Fail
<1>7. \/ disk' = [disk EXCEPT ![t] = {}] /\ stuck' = stuck
      \/ /\ target[t] = "opencode" /\ stuck' = stuck \cup {t}
         /\ \E kept \in SUBSET mine : disk' = [disk EXCEPT ![t] = kept]
  <2>1. CASE disk' = [disk EXCEPT ![t] = disk[t] \ undone] /\ UNCHANGED stuck
    BY <1>5, <2>1
  <2>2. CASE /\ target[t] = "opencode" /\ mine # {}
             /\ \E kept \in SUBSET mine \ {{}} : disk' = [disk EXCEPT ![t] = (disk[t] \ undone) \cup kept]
             /\ stuck' = stuck \cup {t}
    BY <1>5, <2>2
  <2> QED BY <2>1, <2>2 DEF Fail
<1>8. mine \subseteq Files
  BY NamesDiffer
<1> HIDE DEF mine
<1>9. Typed'
  BY <1>1, <1>6, <1>7, <1>8 DEF Typed
<1>10. InStep(t)'
  BY <1>1, <1>3, <1>6, <1>7 DEF Typed, InStep
<1>11. ASSUME NEW u \in Transfers, u # t
       PROVE  InStep(u)'
  <2>1. pc'[u] = pc[u] /\ outcome'[u] = outcome[u] /\ disk'[u] = disk[u] /\ (u \in stuck' <=> u \in stuck)
    BY <1>1, <1>6, <1>7, <1>11 DEF Typed
  <2> QED BY <1>6, <1>9, <1>11, <2>1, OthersStay
<1> QED BY <1>9, <1>10, <1>11 DEF Published

\* Beginning, and dying, touch nothing.
LEMMA BeginAndCrashKeep ==
    ASSUME Published, NEW t \in Transfers, Begin(t) \/ Crash(t)
    PROVE  Published'
<1>1. Typed /\ InStep(t)
  BY DEF Published
<1>2. Orderly(Steps(t), target[t], compacted[t])
  BY <1>1, StepsAreOrderly
<1>3. Len(Steps(t)) > 0 /\ Len(Steps(t)) \in Nat
  BY <1>2, LenProperties DEF Orderly
<1>4. There(Steps(t), 1) = {}
  BY <1>2, ThereMoves
<1>5. UNCHANGED <<target, compacted, disk, stuck>>
  BY DEF Begin, Crash
<1>6. Typed'
  BY <1>1, <1>5 DEF Begin, Crash, Typed
<1>7. Steps(t)' = Steps(t)
  BY <1>5 DEF Steps
<1>8. InStep(t)'
  <2>1. CASE Begin(t)
    <3>1. pc'[t] = 1 /\ outcome[t] = "idle" /\ outcome'[t] = "running"
      BY <1>1, <2>1 DEF Begin, Typed
    <3>2. disk'[t] = {} /\ t \notin stuck'
      BY <1>1, <1>5, <3>1 DEF InStep
    <3> QED BY <1>3, <1>4, <1>7, <3>1, <3>2 DEF InStep
  <2>2. CASE Crash(t)
    <3>1. pc' = pc /\ outcome[t] = "running" /\ outcome'[t] = "crashed"
      BY <1>1, <2>2 DEF Crash, Runs, Typed
    <3> QED BY <1>1, <1>5, <1>7, <3>1 DEF InStep
  <2> QED BY <2>1, <2>2
<1>9. ASSUME NEW u \in Transfers, u # t
      PROVE  InStep(u)'
  <2>1. pc'[u] = pc[u] /\ outcome'[u] = outcome[u]
    BY <1>1, <1>9 DEF Begin, Crash, Typed
  <2> QED BY <1>5, <1>6, <1>9, <2>1, OthersStay
<1> QED BY <1>6, <1>8, <1>9 DEF Published

LEMMA PublishedKept ==
    ASSUME Published, [Next]_vars
    PROVE  Published'
<1>1. CASE UNCHANGED vars
  <2>1. UNCHANGED <<target, compacted, pc, outcome, disk, stuck>>
    BY <1>1 DEF vars
  <2>2. \A t \in Transfers : Steps(t)' = Steps(t)
    BY <2>1 DEF Steps
  <2>3. Typed' /\ \A t \in Transfers : InStep(t)'
    BY <2>1, <2>2 DEF Published, Typed, InStep
  <2> QED BY <2>3 DEF Published
<1>2. CASE \E t \in Transfers : Begin(t) \/ Crash(t)
  BY <1>2, BeginAndCrashKeep
<1>3. CASE \E t \in Transfers : Make(t)
  BY <1>3, AdvanceKeeps DEF Make
<1>4. CASE \E t \in Transfers : Look(t) \/ Draft(t) \/ List(t) \/ Name(t)
  BY <1>4, QuietKeeps DEF Look, Draft, List, Name
<1>5. CASE \E t \in Transfers : Fail(t)
  BY <1>5, FailKeeps
<1> QED BY <1>1, <1>2, <1>3, <1>4, <1>5 DEF Next

-----------------------------------------------------------------------------
(* What they keep.                                                         *)

LEMMA PublishedIsWhole ==
    ASSUME Published
    PROVE  DiscoveredIsWhole /\ AllOrNothing /\ ArchiveBeforeTarget
<1> SUFFICES ASSUME NEW t \in Transfers
    PROVE  /\ \A session \in Discovered(t) :
                 \/ session = "main" /\ Whole \subseteq disk[t]
                 \/ session = "main" /\ target[t] = "opencode"
                       /\ (outcome[t] \in {"running", "crashed"} \/ t \in stuck)
                 \/ session = "stage" /\ target[t] = "legacy" /\ outcome[t] \in {"running", "crashed"}
           /\ outcome[t] = "failed" /\ t \notin stuck => disk[t] = {}
           /\ outcome[t] = "ok" =>
                 /\ Whole \subseteq disk[t] /\ (compacted[t] <=> "archive" \in disk[t])
                 /\ disk[t] \cap Staged = {}
           /\ compacted[t] /\ disk[t] \cap Whole # {} =>
                 "archive" \in disk[t] \/ (target[t] = "opencode" /\ t \in stuck)
  BY DEF DiscoveredIsWhole, AllOrNothing, ArchiveBeforeTarget, Staged
<1> DEFINE S == Steps(t)
<1>1. Typed /\ InStep(t)
  BY DEF Published
<1>2. Orderly(S, target[t], compacted[t])
  BY <1>1, StepsAreOrderly
<1>3. Len(S) \in Nat /\ Len(S) + 1 \in 1 .. Len(S) + 1
  BY <1>2, LenProperties DEF Orderly
<1>4. CASE outcome[t] = "idle"
  BY <1>1, <1>4 DEF InStep, Discovered
<1>5. CASE outcome[t] \in {"running", "crashed"}
  <2>1. pc[t] \in 1 .. Len(S) + 1 /\ disk[t] = There(S, pc[t])
    BY <1>1, <1>3, <1>5 DEF InStep
  <2>2. /\ compacted[t] /\ disk[t] \cap Whole # {} => "archive" \in disk[t]
        /\ target[t] # "opencode" /\ "main" \in disk[t] => Whole \subseteq disk[t]
    BY <1>2, <2>1, WhatIsThere
  <2> QED BY <1>5, <2>2 DEF Discovered
<1>6. CASE outcome[t] = "ok"
  <2>1. disk[t] = There(S, Len(S) + 1)
    BY <1>1, <1>6 DEF InStep
  <2>2. /\ Whole \subseteq disk[t] /\ (compacted[t] <=> "archive" \in disk[t])
        /\ disk[t] \cap Staged = {}
    BY <1>2, <1>3, <2>1, WhatIsThere
  <2>3. Discovered(t) \subseteq {"main"}
    BY <2>2 DEF Discovered, Staged
  <2> QED BY <1>6, <2>2, <2>3
<1>7. CASE outcome[t] = "failed"
  BY <1>1, <1>7 DEF InStep, Discovered
<1> QED BY <1>1, <1>4, <1>5, <1>6, <1>7 DEF Typed

\* What discovery lists has all its delegated runs, while transfers run, fail
\* and die (codex_branches.go:221).  Excepted are OpenCode's import, which is
\* whole when the transfer ends, if its rollback works, and the staged tree of
\* the old Kimi, which is listed while a transfer runs and after it has died.
THEOREM ListedIsWhole == Spec => []DiscoveredIsWhole
<1>1. Published => DiscoveredIsWhole
  BY PublishedIsWhole
<1>2. Init => Published
  BY PublishedAtFirst
<1>3. Published /\ [Next]_vars => Published'
  BY PublishedKept
<1> QED BY <1>1, <1>2, <1>3, PTL DEF Spec

\* A transfer that fails leaves nothing of its own (docs/sessions.md:230), and
\* one that succeeds leaves all of it and nothing staged.
THEOREM AllIsThereOrNothing == Spec => []AllOrNothing
<1>1. Published => AllOrNothing
  BY PublishedIsWhole
<1>2. Init => Published
  BY PublishedAtFirst
<1>3. Published /\ [Next]_vars => Published'
  BY PublishedKept
<1> QED BY <1>1, <1>2, <1>3, PTL DEF Spec

\* A session whose markers name an archive is never there before the archive
\* is, whole, nor after it is removed (archive.go:187, docs/sessions.md:362);
\* excepted is a session in OpenCode whose rollback has failed.
THEOREM ArchiveComesFirst == Spec => []ArchiveBeforeTarget
<1>1. Published => ArchiveBeforeTarget
  BY PublishedIsWhole
<1>2. Init => Published
  BY PublishedAtFirst
<1>3. Published /\ [Next]_vars => Published'
  BY PublishedKept
<1> QED BY <1>1, <1>2, <1>3, PTL DEF Spec
=============================================================================
