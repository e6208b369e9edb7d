-------------------------- MODULE V1Scheduler_proofs --------------------------
(***************************************************************************)
(* Theorems about V1Scheduler, for every value of its constants: the loops *)
(* that build the two B schedules compute the closed forms of V1Protocol   *)
(* and can always fill their budgets.                                      *)
(***************************************************************************)
EXTENDS V1Scheduler, V1Protocol_proofs, SequenceTheorems

-------------------------------------------------------------------------------
(* Legal partitions.                                                       *)

LEMMA LegalIsPartition ==
  ASSUME NEW p \in LegalPartitions
  PROVE  p \in Schedulable /\ p \in Partitions
<1>1. LegalHypothesis(p) /\ Canonicalize(p) = p
  BY SchedulerConstants
<1> DEFINE rank(e) == Cardinality({d \in Leaders(p) :
                                     \A m \in MembersOf(p, p.entity_group[e]) : d < m})
<1>2. p = [group_count |-> p.group_count, entity_group |-> [e \in Entities |-> rank(e)]]
  BY <1>1 DEF Canonicalize
<1>3. \A e \in Entities : rank(e) \in Int
  <2> SUFFICES ASSUME NEW e \in Entities
               PROVE  rank(e) \in Int
    OBVIOUS
  <2>1. {d \in Leaders(p) : \A m \in MembersOf(p, p.entity_group[e]) : d < m} \in SUBSET Entities
    BY DEF Leaders
  <2> QED
    BY <2>1, EntitySubsets, FS_CardinalityType
<1> HIDE DEF rank
<1>4. p.entity_group \in [Entities -> Int]
  <2>1. p.entity_group = [e \in Entities |-> rank(e)]
    BY <1>2
  <2> QED
    BY <1>3, <2>1
<1> QED
  BY <1>1, <1>4, CanonicalIsSchedulable DEF Schedulable

-------------------------------------------------------------------------------
(* How the slots of a walk are shared among the cells.                     *)

\* How often a cell has had its turn among the first k numbers.
Turns(p, k, c) ==
  k \div NumCells(p) + (IF c < k % NumCells(p) THEN 1 ELSE 0)

\* A walk with room for cap slots of a cell.
Capped(p, V, c, cap) ==
  cap \in Nat /\ \A r \in Nat : r * NumCells(p) + c \in V <=> r < cap

LEMMA TurnsCount ==
  ASSUME NEW p \in Partitions, NEW k \in Nat, NEW c \in CellsOf(p), NEW r \in Nat
  PROVE  /\ Turns(p, k, c) \in Nat
         /\ r * NumCells(p) + c < k <=> r < Turns(p, k, c)
<1> DEFINE n == NumCells(p)
           m == k \div n
           j == k % n
<1>1. n \in Nat \ {0} /\ c \in 0 .. n - 1 /\ c \in Nat
  BY VisitNumbers DEF CellsOf
<1>2. Turns(p, k, c) = m + (IF c < j THEN 1 ELSE 0)
  BY DEF Turns
<1> HIDE DEF n
<1>3. k = n * m + j /\ j \in 0 .. n - 1 /\ m \in Nat
  BY <1>1
<1> HIDE DEF m, j
<1>4. Turns(p, k, c) \in Nat
  BY <1>2, <1>3
<1>5. CASE r = m
  <2>1. r * n = n * m /\ n * m \in Nat
    BY <1>1, <1>3, <1>5
  <2> QED
    BY <1>1, <1>2, <1>3, <1>4, <1>5, <2>1 DEF n
<1>6. CASE r < m
  <2>1. PICK d \in Nat : m = r + 1 + d
    <3>1. m - r - 1 \in Nat /\ m = r + 1 + (m - r - 1)
      BY <1>3, <1>6
    <3> QED
      BY <3>1
  <2>2. n * m = r * n + n + d * n /\ d * n \in Nat /\ r * n \in Nat
    BY <1>1, <2>1
  <2>3. r * n + c < k
    BY <1>1, <1>3, <2>2
  <2> QED
    BY <1>2, <1>3, <1>6, <2>3 DEF n
<1>7. CASE m < r
  <2>1. PICK d \in Nat : r = m + 1 + d
    <3>1. r - m - 1 \in Nat /\ r = m + 1 + (r - m - 1)
      BY <1>3, <1>7
    <3> QED
      BY <3>1
  <2>2. r * n = n * m + n + d * n /\ d * n \in Nat /\ n * m \in Nat
    BY <1>1, <1>3, <2>1
  <2>3. ~(r * n + c < k)
    BY <1>1, <1>3, <2>2
  <2>4. ~(r < Turns(p, k, c))
    BY <1>2, <1>3, <1>7
  <2> QED
    BY <1>4, <2>3, <2>4 DEF n
<1> QED
  BY <1>3, <1>4, <1>5, <1>6, <1>7

\* The visits passed are below the mark.
LEMMA WalkedBefore ==
  ASSUME NEW V \in SUBSET Nat, IsFiniteSet(V), NEW k \in Nat,
         NEW i \in 1 .. Cardinality(VisitsBelow(V, k))
  PROVE  NthOf(V, i - 1) \in V /\ NthOf(V, i - 1) < k
<1> DEFINE e == NthOf(V, i - 1)
           B == VisitsBelow(V, k)
           D == {d \in V : d < e}
<1>1. V \in SUBSET Int
  OBVIOUS
<1>2. i - 1 \in 0 .. Cardinality(V) - 1 /\ e \in V
  BY WalkedPositions
<1>3. Cardinality(D) = i - 1
  BY <1>1, <1>2, NthOfIsElement
<1>4. e < k
  <2> SUFFICES ASSUME ~(e < k)
               PROVE  FALSE
    OBVIOUS
  <2> HIDE DEF e
  <2>1. B \in SUBSET D /\ D \in SUBSET V
    <3>1. \A d \in V : d < k => d < e
      BY <1>2
    <3>2. B = {d \in V : d < k}
      BY DEF VisitsBelow
    <3> QED
      BY <3>1, <3>2
  <2>2. Cardinality(B) <= Cardinality(D) /\ Cardinality(B) \in Nat
    BY <2>1, BeforeType, FS_Subset
  <2> HIDE DEF B, D
  <2> QED
    BY <1>3, <2>2 DEF B
<1> QED
  BY <1>2, <1>4

\* A cell gets a slot each turn until its room is used up.
LEMMA ShareOfWalk ==
  ASSUME NEW p \in Partitions, NEW M, NEW V, Walks(p, M, V), NEW k \in Nat,
         NEW c \in CellsOf(p), NEW cap, Capped(p, V, c, cap)
  PROVE  Share(Laid(p, M, V, k), c)
           = IF cap < Turns(p, k, c) THEN cap ELSE Turns(p, k, c)
<1> DEFINE m == Cardinality(VisitsBelow(V, k))
           s == Laid(p, M, V, k)
           at(i) == NthOf(V, i - 1)
           D == {i \in DOMAIN s : CellOf(s[i].group, s[i].action) = c}
           t == Turns(p, k, c)
           q == IF cap < t THEN cap ELSE t
           f == [i \in D |-> Visit(p, at(i)).round]
<1>1. V \in SUBSET Nat /\ IsFiniteSet(V) /\ V \subseteq Visits(p)
  BY WalkVisits
<1>2. /\ m \in Nat /\ DOMAIN s = 1 .. m
      /\ \A i \in 1 .. m : s[i] = SlotAt(p, M, at(i)) /\ at(i) \in V
  BY LaidSlots
<1>3. \A i \in 1 .. m : at(i) < k
  BY <1>1, WalkedBefore
<1>4. cap \in Nat /\ t \in Nat /\ q \in Nat
  BY TurnsCount DEF Capped
<1>5. \A n \in V : CellOf(SlotAt(p, M, n).group, SlotAt(p, M, n).action) = Visit(p, n).cell
  <2> SUFFICES ASSUME NEW n \in V
               PROVE  CellOf(SlotAt(p, M, n).group, SlotAt(p, M, n).action) = Visit(p, n).cell
    OBVIOUS
  <2>1. Visit(p, n).cell \in Nat
    BY <1>1, VisitParts, VisitNumbers
  <2>2. /\ SlotAt(p, M, n).action = ActionOfCell(Visit(p, n).cell)
        /\ SlotAt(p, M, n).group = GroupOfCell(Visit(p, n).cell)
    BY SlotOfVisit
  <2> QED
    BY <2>1, <2>2, CellRecovered
<1> HIDE DEF m, s, at, t
<1>6. D = {i \in 1 .. m : Visit(p, at(i)).cell = c}
  BY <1>2, <1>5
<1> HIDE DEF D
<1>7. ASSUME NEW i \in D
      PROVE  /\ i \in 1 .. m /\ f[i] \in 0 .. q - 1
             /\ at(i) = f[i] * NumCells(p) + c
  <2>1. i \in 1 .. m /\ Visit(p, at(i)).cell = c /\ at(i) \in V /\ at(i) < k
    BY <1>2, <1>3, <1>6
  <2>2. f[i] = Visit(p, at(i)).round
    OBVIOUS
  <2> HIDE DEF f
  <2>3. at(i) = f[i] * NumCells(p) + c /\ f[i] \in Nat
    <3>1. at(i) \in Visits(p)
      BY <1>1, <2>1
    <3>2. /\ Visit(p, at(i)).round \in Nat
          /\ at(i) = Visit(p, at(i)).round * NumCells(p) + Visit(p, at(i)).cell
      BY <3>1, VisitParts, VisitNumbers
    <3> QED
      BY <2>1, <2>2, <3>2
  <2>4. f[i] < cap
    BY <2>1, <2>3 DEF Capped
  <2>5. f[i] < t
    BY <2>1, <2>3, TurnsCount DEF t
  <2> QED
    BY <1>4, <2>1, <2>3, <2>4, <2>5
<1>8. \A i, j \in D : f[i] = f[j] => i = j
  <2> SUFFICES ASSUME NEW i \in D, NEW j \in D, f[i] = f[j]
               PROVE  i = j
    OBVIOUS
  <2>1. i \in 1 .. m /\ j \in 1 .. m /\ at(i) = at(j)
    BY <1>7
  <2> QED
    BY <1>1, <2>1, PositionsDiffer DEF at, m
<1>9. \A r \in 0 .. q - 1 : \E i \in D : f[i] = r
  <2> SUFFICES ASSUME NEW r \in 0 .. q - 1
               PROVE  \E i \in D : f[i] = r
    OBVIOUS
  <2> DEFINE n == r * NumCells(p) + c
             rank == Cardinality({d \in V : d < n})
             B == VisitsBelow(V, k)
  <2>1. r \in Nat /\ r < cap /\ r < t
    BY <1>4
  <2>2. n \in V
    BY <2>1 DEF Capped
  <2>3. n < k
    BY <2>1, TurnsCount DEF t
  <2>4. Visit(p, n) = [round |-> r, cell |-> c]
    BY <2>1, VisitAt
  <2> HIDE DEF n
  <2>5. NthOf(V, rank) = n
    <3>1. V \in SUBSET Int
      BY <1>1
    <3> QED
      BY <1>1, <2>2, <3>1, NthOfRank
  <2>6. B \in SUBSET Int /\ IsFiniteSet(B) /\ n \in B
    <3>1. B \in SUBSET V /\ n \in B
      BY <2>2, <2>3 DEF VisitsBelow
    <3>2. \A d \in V : d \in Int
      BY <1>1
    <3> QED
      BY <1>1, <3>1, <3>2, FS_Subset
  <2>7. {d \in B : d < n} = {d \in V : d < n}
    <3>1. \A d \in V : d < n => d < k
      BY <1>1, <2>2, <2>3
    <3> QED
      BY <3>1 DEF VisitsBelow
  <2>8. rank \in 0 .. m - 1
    <3>1. Cardinality({d \in B : d < n}) \in 0 .. Cardinality(B) - 1
      <4> HIDE DEF B
      <4> QED
        BY <2>6, RankBound
    <3> QED
      BY <2>7, <3>1 DEF m
  <2> HIDE DEF rank, B
  <2>9. rank + 1 \in 1 .. m /\ rank + 1 - 1 = rank
    BY <1>2, <2>8
  <2>10. at(rank + 1) = n
    <3>1. \A i \in 1 .. m : at(i) = NthOf(V, i - 1)
      BY DEF at
    <3>2. at(rank + 1) = NthOf(V, rank)
      BY <1>2, <2>8, <2>9, <3>1
    <3> QED
      BY <2>5, <3>2
  <2>11. rank + 1 \in D
    BY <1>6, <2>4, <2>9, <2>10
  <2>12. f[rank + 1] = r
    BY <2>4, <2>10, <2>11
  <2> QED
    BY <2>11, <2>12
<1>10. f \in [D -> 0 .. q - 1]
  BY <1>7
<1> HIDE DEF f, q
<1>11. f \in Bijection(D, 0 .. q - 1)
  BY <1>8, <1>9, <1>10 DEF Bijection, Injection, Surjection, IsInjective
<1>12. IsFiniteSet(D)
  <2>1. D \in SUBSET (1 .. m)
    BY <1>7
  <2>2. IsFiniteSet(1 .. m)
    BY <1>2, FS_Interval
  <2> QED
    BY <2>1, <2>2, FS_Subset
<1>13. Cardinality(D) = q
  <2>1. ExistsBijection(D, 0 .. q - 1)
    BY <1>11 DEF ExistsBijection
  <2> QED
    BY <1>4, <1>12, <2>1, InitialSegment, FS_Bijection
<1>14. Share(s, c) = Cardinality(D)
  BY DEF Share, D
<1> QED
  BY <1>13, <1>14 DEF q, s, t

\* No cell is two turns ahead of one that still has room.
LEMMA WalkIsEven ==
  ASSUME NEW p \in Partitions, NEW M, NEW V, Walks(p, M, V), NEW k \in Nat,
         NEW c \in CellsOf(p), NEW d \in CellsOf(p), NEW n, NEW m,
         Capped(p, V, c, n), Capped(p, V, d, m),
         Share(Laid(p, M, V, k), c) > Share(Laid(p, M, V, k), d) + 1
  PROVE  Share(Laid(p, M, V, k), d) = m
<1> DEFINE s == Share(Laid(p, M, V, k), c)
           t == Share(Laid(p, M, V, k), d)
           x == Turns(p, k, c)
           y == Turns(p, k, d)
<1>1. s = (IF n < x THEN n ELSE x) /\ t = (IF m < y THEN m ELSE y)
  BY ShareOfWalk
<1>2. x \in Nat /\ y \in Nat /\ n \in Nat /\ m \in Nat /\ s > t + 1
  BY TurnsCount DEF Capped
<1>3. x <= y + 1
  <2>1. k \div NumCells(p) \in Nat
    BY VisitNumbers
  <2> QED
    BY <2>1 DEF Turns
<1> HIDE DEF s, t, x, y
<1>4. t = m
  BY <1>1, <1>2, <1>3
<1> QED
  BY <1>4 DEF t

\* Room in the two walks.
LEMMA CalCapped ==
  ASSUME NEW p \in LegalPartitions, NEW c \in CellsOf(p)
  PROVE  Capped(p, CalVisits(p), c, SizeOf(p, c) - 1)
<1> DEFINE s == SizeOf(p, c)
<1>1. p \in Partitions /\ s \in Nat /\ s >= 2
  BY LegalIsPartition, CellMembersType
<1>2. s <= NumEntities /\ NumEntities \in Nat
  <2>1. NumEntities \in Nat /\ Entities = 0 .. NumEntities - 1
    BY ProtocolConstants DEF Entities
  <2>2. IsFiniteSet(Entities) /\ Cardinality(Entities) = NumEntities
    BY <2>1, InitialSegment
  <2>3. CellMembers(p)[c] \in SUBSET Entities
    BY CellMembersType, LegalIsPartition
  <2> QED
    BY <2>1, <2>2, <2>3, FS_Subset DEF SizeOf
<1>3. ASSUME NEW r \in Nat
      PROVE  r * NumCells(p) + c \in CalVisits(p) <=> r < s - 1
  <2> DEFINE n == r * NumCells(p) + c
  <2>1. Visit(p, n) = [round |-> r, cell |-> c] /\ (r < NumEntities => n \in Visits(p))
    BY <1>1, VisitAt
  <2> HIDE DEF n
  <2>2. n \in CalVisits(p) <=> n \in Visits(p) /\ Calibratable(r, s)
    BY <2>1 DEF CalVisits
  <2> HIDE DEF s
  <2>3. Calibratable(r, s) <=> r < s - 1
    BY <1>1 DEF Calibratable
  <2>4. r < s - 1 => r < NumEntities
    BY <1>1, <1>2
  <2> QED
    BY <2>1, <2>2, <2>3, <2>4 DEF n, s
<1>4. s - 1 \in Nat
  BY <1>1
<1> QED
  BY <1>3, <1>4 DEF Capped

LEMMA TestCapped ==
  ASSUME NEW p \in Partitions, NEW used, NEW c \in CellsOf(p)
  PROVE  LET M == Remaining(p, used)
         IN  Capped(p, TestVisits(p, M), c, Cardinality(M[c]))
<1> DEFINE M == Remaining(p, used)
           s == Cardinality(M[c])
<1>1. s \in Nat /\ s <= NumEntities /\ NumEntities \in Nat
  BY RemainingType, ProtocolConstants
<1> HIDE DEF M
<1>2. ASSUME NEW r \in Nat
      PROVE  r * NumCells(p) + c \in TestVisits(p, M) <=> r < s
  <2> DEFINE n == r * NumCells(p) + c
  <2>1. Visit(p, n) = [round |-> r, cell |-> c] /\ (r < NumEntities => n \in Visits(p))
    BY VisitAt
  <2> HIDE DEF n
  <2>2. n \in TestVisits(p, M) <=> n \in Visits(p) /\ r < s
    BY <2>1 DEF TestVisits
  <2> QED
    BY <1>1, <2>1, <2>2 DEF n
<1> QED
  BY <1>1, <1>2 DEF Capped, M

-------------------------------------------------------------------------------
(* The invariant of the loops: what they have laid out is the walk of the  *)
(* closed form, up to the number that the round and the cell make.         *)

Position == member_index * NumCells(partition) + cell

Calibrated(k) == Laid(partition, CellMembers(partition), CalVisits(partition), k)

Left == Remaining(partition, selected)
Tested(k) == Laid(partition, Left, TestVisits(partition, Left), k)

TypeInv ==
  /\ partition \in LegalPartitions
  /\ member_index \in Nat
  /\ cell \in 0 .. NumCells(partition)
  /\ added \in BOOLEAN
  /\ pc \in {"pass_0", "calibrate", "transfer", "done"}
  /\ pc = "pass_0" => member_index = 0 /\ ~added
  /\ pc = "calibrate" => member_index >= 1

\* The calibration loops follow the walk; a round that added nothing so far has
\* found every cell it visited full.
Calibrating ==
  pc \in {"pass_0", "calibrate"} =>
    /\ selected = Calibrated(Position)
    /\ Len(selected) <= BCalibrationBudget
    /\ transfer = <<>>
    /\ pc = "calibrate" /\ ~added =>
         \A c \in CellsOf(partition) :
           c < cell => member_index >= SizeOf(partition, c) - 1

\* Later the calibration is a whole one.
Chosen ==
  pc \in {"transfer", "done"} =>
    /\ \E k \in Nat : selected = Calibrated(k)
    /\ Len(selected) = BCalibrationBudget

\* The same of the transfer loop, and of what it returns.
Testing ==
  pc = "transfer" =>
    /\ transfer = Tested(Position)
    /\ Len(transfer) <= BTransferBudget
    /\ ~added => \A c \in CellsOf(partition) : c < cell => member_index >= Cardinality(Left[c])

Finished ==
  pc = "done" =>
    /\ \E k \in Nat : transfer = Tested(k)
    /\ Len(transfer) = BTransferBudget

LoopInv == TypeInv /\ Calibrating /\ Chosen /\ Testing /\ Finished

-------------------------------------------------------------------------------
(* One turn of a cell, a full round, and the start of a walk.              *)

LEMMA LaidNone ==
  ASSUME NEW p \in Partitions, NEW M, NEW V, Walks(p, M, V)
  PROVE  Laid(p, M, V, 0) = <<>>
<1>1. V \in SUBSET Nat
  BY WalkVisits
<1>2. VisitsBelow(V, 0) = {}
  <2>1. \A n \in V : ~(n < 0)
    BY <1>1
  <2> QED
    BY <2>1 DEF VisitsBelow
<1>3. Cardinality(VisitsBelow(V, 0)) = 0
  BY <1>2, FS_EmptySet
<1>4. Laid(p, M, V, 0) \in Seq(Slots) /\ Len(Laid(p, M, V, 0)) = 0
  BY <1>3, LaidSlots
<1> QED
  BY <1>4

LEMMA WalkStep ==
  ASSUME NEW p \in Partitions, NEW M, NEW V, Walks(p, M, V),
         NEW r \in Nat, NEW c \in CellsOf(p), NEW cap, Capped(p, V, c, cap)
  PROVE  LET k == r * NumCells(p) + c
         IN  Laid(p, M, V, k + 1)
               = IF r < cap THEN Append(Laid(p, M, V, k), Slot(NthOf(M[c], r), c))
                 ELSE Laid(p, M, V, k)
<1> DEFINE k == r * NumCells(p) + c
<1>1. k \in Nat /\ Visit(p, k) = [round |-> r, cell |-> c]
  BY VisitAt
<1>2. k \in V <=> r < cap
  BY DEF Capped
<1> HIDE DEF k
<1>3. SlotAt(p, M, k) = Slot(NthOf(M[c], r), c)
  BY <1>1 DEF SlotAt
<1>4. CASE k \in V
  BY <1>2, <1>3, <1>4, LaidTakes DEF k
<1>5. CASE k \notin V
  BY <1>1, <1>2, <1>5, LaidSkips DEF k
<1> QED
  BY <1>4, <1>5

\* A round that finds every cell full has passed the whole walk.
LEMMA WalkFull ==
  ASSUME NEW p \in Partitions, NEW M, NEW V, Walks(p, M, V), NEW r \in Nat,
         \A c \in CellsOf(p) : \E cap \in Nat : Capped(p, V, c, cap) /\ r >= cap
  PROVE  Len(Laid(p, M, V, r * NumCells(p) + NumCells(p))) = Cardinality(V)
<1> DEFINE n == NumCells(p)
           k == r * n + n
<1>1. n \in Nat \ {0} /\ CellsOf(p) = 0 .. n - 1
  BY VisitNumbers DEF CellsOf
<1>2. V \in SUBSET Nat /\ IsFiniteSet(V) /\ V \subseteq Visits(p)
  BY WalkVisits
<1>3. \A v \in V : \E q \in Nat : \E d \in CellsOf(p) : v = q * NumCells(p) + d
  BY <1>2, VisitParts, VisitNumbers
<1> HIDE DEF n
<1>4. k \in Nat
  BY <1>1
<1>5. ASSUME NEW v \in V
      PROVE  v \in 0 .. k - 1
  <2>1. PICK q \in Nat, d \in CellsOf(p) : v = q * n + d
    BY <1>3 DEF n
  <2>2. PICK cap \in Nat : Capped(p, V, d, cap) /\ r >= cap
    OBVIOUS
  <2>3. q < cap
    BY <2>1, <2>2 DEF Capped, n
  <2>4. PICK e \in Nat : r = q + 1 + e
    <3>1. r - q - 1 \in Nat /\ r = q + 1 + (r - q - 1)
      BY <2>2, <2>3
    <3> QED
      BY <3>1
  <2>5. r * n = q * n + n + e * n /\ e * n \in Nat /\ q * n \in Nat
    BY <1>1, <2>4
  <2>6. d \in 0 .. n - 1 /\ d \in Nat
    BY <1>1
  <2> QED
    BY <1>1, <2>1, <2>5, <2>6
<1> HIDE DEF k
<1>6. V \subseteq 0 .. k - 1
  BY <1>5
<1>7. Cardinality(VisitsBelow(V, k)) = Cardinality(V)
  BY <1>2, <1>4, <1>6, WalkEnds
<1> QED
  BY <1>4, <1>7, LaidSlots DEF k, n

-------------------------------------------------------------------------------
(* The invariant is kept, action by action.                                *)

\* What the calibration lays out in one turn.
LEMMA CalTurn ==
  ASSUME NEW p \in LegalPartitions, NEW r \in Nat, NEW c \in CellsOf(p), NEW k,
         k = r * NumCells(p) + c
  PROVE  Laid(p, CellMembers(p), CalVisits(p), k + 1)
           = IF r < SizeOf(p, c) - 1
             THEN Append(Laid(p, CellMembers(p), CalVisits(p), k),
                         Slot(NthOf(MembersOf(p, GroupOfCell(c)), r), c))
             ELSE Laid(p, CellMembers(p), CalVisits(p), k)
<1>1. p \in Partitions /\ Walks(p, CellMembers(p), CalVisits(p))
  BY LegalIsPartition, CalWalks
<1>2. Capped(p, CalVisits(p), c, SizeOf(p, c) - 1)
  BY CalCapped
<1>3. CellMembers(p)[c] = MembersOf(p, GroupOfCell(c))
  BY CellMembersType, LegalIsPartition
<1> DEFINE cap == SizeOf(p, c) - 1
           V == CalVisits(p)
           M == CellMembers(p)
<1>4. Walks(p, M, V) /\ Capped(p, V, c, cap)
  BY <1>1, <1>2
<1> HIDE DEF cap, V, M
<1>5. Laid(p, M, V, k + 1) = IF r < cap THEN Append(Laid(p, M, V, k), Slot(NthOf(M[c], r), c))
                             ELSE Laid(p, M, V, k)
  BY <1>1, <1>4, WalkStep
<1> QED
  BY <1>3, <1>5 DEF cap, V, M

LEMMA CellNumbers ==
  ASSUME NEW p \in LegalPartitions
  PROVE  /\ p \in Partitions /\ NumCells(p) \in Nat \ {0}
         /\ CellsOf(p) = 0 .. NumCells(p) - 1
         /\ NumCells(p) <= BCalibrationBudget /\ BCalibrationBudget \in Nat
         /\ BTransferBudget \in Nat
<1>1. p \in Partitions
  BY LegalIsPartition
<1>2. NumCells(p) \in Nat \ {0} /\ CellsOf(p) = 0 .. NumCells(p) - 1
  BY <1>1, VisitNumbers DEF CellsOf
<1>3. BCalibrationBudget \in Nat /\ BTransferBudget \in Nat
  BY ProtocolConstants
<1>4. NumCells(p) - 1 \in CellsOf(p)
  BY <1>2
<1>5. NumCells(p) - 1 < BCalibrationBudget
  BY <1>1, <1>4, FirstRound
<1> QED
  BY <1>1, <1>2, <1>3, <1>5

LEMMA StartsRight ==
  ASSUME Init
  PROVE  LoopInv
<1>1. PICK p \in LegalPartitions : p = partition
  BY DEF Init
<1>2. p \in Partitions /\ NumCells(p) \in Nat \ {0} /\ BCalibrationBudget \in Nat
  BY CellNumbers
<1>3. 0 * NumCells(p) + 0 = 0 /\ 0 \in 0 .. NumCells(p)
  BY <1>2
<1>4. Laid(p, CellMembers(p), CalVisits(p), 0) = <<>>
  BY <1>2, CalWalks, LaidNone, LegalIsPartition
<1>5. TypeInv
  BY <1>1, <1>3 DEF Init, TypeInv
<1>6. Calibrating
  BY <1>1, <1>2, <1>3, <1>4 DEF Init, Calibrating, Calibrated, Position
<1>7. Chosen /\ Testing /\ Finished
  BY DEF Init, Chosen, Testing, Finished
<1> QED
  BY <1>5, <1>6, <1>7 DEF LoopInv

LEMMA Pass0Keeps ==
  ASSUME LoopInv, Pass0
  PROVE  LoopInv'
<1>1. PICK p \in LegalPartitions : p = partition /\ p = partition'
  BY DEF LoopInv, TypeInv, Pass0
<1>2. /\ p \in Partitions /\ NumCells(p) \in Nat \ {0} /\ CellsOf(p) = 0 .. NumCells(p) - 1
      /\ NumCells(p) <= BCalibrationBudget /\ BCalibrationBudget \in Nat
  BY CellNumbers
<1>3. /\ member_index = 0 /\ member_index' = 0 /\ cell \in 0 .. NumCells(p) /\ cell < NumCells(p)
      /\ cell' = cell + 1 /\ pc = "pass_0" /\ pc' = "pass_0" /\ ~added /\ added' = added
      /\ transfer' = transfer
  BY <1>1 DEF LoopInv, TypeInv, Pass0
<1>4. cell \in CellsOf(p) /\ cell' \in 0 .. NumCells(p) /\ cell \in Nat
  BY <1>2, <1>3
<1>5. /\ Position = 0 * NumCells(p) + cell /\ Position = cell
      /\ Position' = cell + 1 /\ Position' \in Nat
  BY <1>1, <1>2, <1>3, <1>4 DEF Position
<1>6. selected = Laid(p, CellMembers(p), CalVisits(p), Position) /\ transfer = <<>>
  BY <1>1, <1>3 DEF LoopInv, Calibrating, Calibrated
<1>7. 0 < SizeOf(p, cell) - 1
  BY <1>4, CellMembersType, LegalIsPartition
<1>8. selected' = Laid(p, CellMembers(p), CalVisits(p), Position + 1)
  <2>1. selected' = Append(selected, Slot(NthOf(MembersOf(p, GroupOfCell(cell)), 0), cell))
    BY <1>1 DEF Pass0, Members
  <2> QED
    BY <1>4, <1>5, <1>6, <1>7, <2>1, CalTurn
<1>9. selected' = Laid(p, CellMembers(p), CalVisits(p), Position')
  BY <1>5, <1>8
<1>10. Len(selected') <= BCalibrationBudget
  <2>1. Len(selected') \in Nat /\ Len(selected') <= Position'
    BY <1>2, <1>5, <1>9, CalWalks, LaidLength, LegalIsPartition
  <2> QED
    BY <1>2, <1>3, <1>4, <1>5, <2>1
<1>11. TypeInv'
  <2>1. added' \in BOOLEAN
    BY <1>3 DEF TypeInv, LoopInv
  <2>2. member_index' \in Nat
    BY <1>3
  <2> QED
    BY <1>1, <1>3, <1>4, <2>1, <2>2 DEF TypeInv
<1>12. Calibrating'
  BY <1>1, <1>3, <1>6, <1>9, <1>10 DEF Calibrating, Calibrated
<1>13. Chosen' /\ Testing' /\ Finished'
  BY <1>3 DEF Chosen, Testing, Finished
<1> QED
  BY <1>11, <1>12, <1>13 DEF LoopInv

LEMMA Pass0EndKeeps ==
  ASSUME LoopInv, Pass0End
  PROVE  LoopInv'
<1>1. PICK p \in LegalPartitions : p = partition /\ p = partition'
  BY DEF LoopInv, TypeInv, Pass0End
<1>2. p \in Partitions /\ NumCells(p) \in Nat \ {0} /\ CellsOf(p) = 0 .. NumCells(p) - 1
  BY CellNumbers
<1>3. /\ member_index = 0 /\ member_index' = 1 /\ cell = NumCells(p) /\ cell' = 0
      /\ pc = "pass_0" /\ pc' = "calibrate" /\ ~added /\ added' = added
      /\ transfer' = transfer /\ selected' = selected
  BY <1>1 DEF LoopInv, TypeInv, Pass0End
<1>4. Position = 0 * NumCells(p) + NumCells(p) /\ Position' = 1 * NumCells(p) + 0
  BY <1>1, <1>3 DEF Position
<1>5. Position' = Position
  BY <1>2, <1>4
<1>6. /\ selected = Laid(p, CellMembers(p), CalVisits(p), Position)
      /\ Len(selected) <= BCalibrationBudget /\ transfer = <<>>
  BY <1>1, <1>3 DEF LoopInv, Calibrating, Calibrated
<1>7. TypeInv'
  <2>1. cell' \in 0 .. NumCells(p) /\ member_index' \in Nat /\ member_index' >= 1
    BY <1>2, <1>3
  <2>2. added' \in BOOLEAN
    BY <1>3 DEF TypeInv, LoopInv
  <2> QED
    BY <1>1, <1>3, <2>1, <2>2 DEF TypeInv
<1>8. Calibrating'
  <2>1. \A c \in CellsOf(p) : ~(c < 0)
    BY <1>2
  <2> QED
    BY <1>1, <1>3, <1>5, <1>6, <2>1 DEF Calibrating, Calibrated
<1>9. Chosen' /\ Testing' /\ Finished'
  BY <1>3 DEF Chosen, Testing, Finished
<1> QED
  BY <1>7, <1>8, <1>9 DEF LoopInv

LEMMA CalibrateCellKeeps ==
  ASSUME LoopInv, CalibrateCell
  PROVE  LoopInv'
<1>1. PICK p \in LegalPartitions : p = partition /\ p = partition'
  BY DEF LoopInv, TypeInv, CalibrateCell
<1>2. /\ p \in Partitions /\ NumCells(p) \in Nat \ {0} /\ CellsOf(p) = 0 .. NumCells(p) - 1
      /\ BCalibrationBudget \in Nat
  BY CellNumbers
<1> DEFINE S == MembersOf(p, GroupOfCell(cell))
           takes == member_index < SizeOf(p, cell) - 1
<1>3. /\ member_index \in Nat /\ member_index >= 1 /\ member_index' = member_index
      /\ cell \in 0 .. NumCells(p) /\ cell < NumCells(p) /\ cell' = cell + 1
      /\ pc = "calibrate" /\ pc' = "calibrate" /\ added \in BOOLEAN
      /\ transfer' = transfer /\ Len(selected) < BCalibrationBudget
  BY <1>1 DEF LoopInv, TypeInv, CalibrateCell, NextCell
<1>4. cell \in CellsOf(p) /\ cell' \in 0 .. NumCells(p) /\ cell \in Nat
  BY <1>2, <1>3
<1>5. SizeOf(p, cell) = Cardinality(S) /\ SizeOf(p, cell) \in Nat
  BY <1>4, CellMembersType, LegalIsPartition DEF SizeOf
<1>6. IF takes THEN selected' = Append(selected, Slot(NthOf(S, member_index), cell)) /\ added' = TRUE
      ELSE selected' = selected /\ added' = added
  BY <1>1, <1>5 DEF CalibrateCell, SparesLast, Members
<1>7. /\ Position = member_index * NumCells(p) + cell
      /\ Position' = Position + 1 /\ Position \in Nat
  <2>1. Position = member_index * NumCells(p) + cell /\ Position' = member_index * NumCells(p) + (cell + 1)
    BY <1>1, <1>3 DEF Position
  <2>2. member_index * NumCells(p) \in Nat
    BY <1>2, <1>3
  <2> QED
    BY <1>4, <2>1, <2>2
<1>8. /\ selected = Laid(p, CellMembers(p), CalVisits(p), Position) /\ transfer = <<>>
      /\ ~added => \A c \in CellsOf(p) : c < cell => member_index >= SizeOf(p, c) - 1
  BY <1>1, <1>3 DEF LoopInv, Calibrating, Calibrated
<1>9. selected' = Laid(p, CellMembers(p), CalVisits(p), Position')
  <2>1. Laid(p, CellMembers(p), CalVisits(p), Position + 1)
          = IF takes THEN Append(Laid(p, CellMembers(p), CalVisits(p), Position),
                                 Slot(NthOf(S, member_index), cell))
            ELSE Laid(p, CellMembers(p), CalVisits(p), Position)
    BY <1>3, <1>4, <1>7, CalTurn
  <2> HIDE DEF takes, S
  <2> QED
    BY <1>6, <1>7, <1>8, <2>1
<1>10. Len(selected') <= BCalibrationBudget
  <2>1. selected \in Seq(Slots) /\ Len(selected) \in Nat
    BY <1>2, <1>7, <1>8, CalWalks, LaidLength, LegalIsPartition
  <2>2. \A s : Len(Append(selected, s)) = Len(selected) + 1
    BY <2>1
  <2> HIDE DEF takes
  <2>3. Len(selected') = Len(selected) + 1 \/ selected' = selected
    BY <1>6, <2>2
  <2> QED
    BY <1>2, <1>3, <2>1, <2>3
<1>11. ASSUME ~added', NEW c \in CellsOf(p), c < cell'
       PROVE  member_index' >= SizeOf(p, c) - 1
  <2>1. ~takes /\ ~added
    BY <1>6, <1>11
  <2>2. c < cell \/ c = cell
    BY <1>2, <1>3, <1>4, <1>11
  <2>3. member_index >= SizeOf(p, cell) - 1
    BY <1>3, <1>5, <2>1
  <2> QED
    BY <1>3, <1>8, <2>1, <2>2, <2>3
<1>12. added' \in BOOLEAN
  BY <1>3, <1>6
<1>13. TypeInv'
  BY <1>1, <1>3, <1>4, <1>12 DEF TypeInv
<1>14. Calibrating'
  BY <1>1, <1>3, <1>8, <1>9, <1>10, <1>11 DEF Calibrating, Calibrated
<1>15. Chosen' /\ Testing' /\ Finished'
  BY <1>3 DEF Chosen, Testing, Finished
<1> QED
  BY <1>13, <1>14, <1>15 DEF LoopInv


\* A round that reached its last cell without a slot would have found every cell
\* full, and the calibration long enough.
LEMMA CalibrateRoundKeeps ==
  ASSUME LoopInv, CalibrateRound
  PROVE  LoopInv'
<1>1. PICK p \in LegalPartitions : p = partition /\ p = partition'
  BY DEF LoopInv, TypeInv, CalibrateRound
<1>2. /\ p \in Partitions /\ NumCells(p) \in Nat \ {0} /\ CellsOf(p) = 0 .. NumCells(p) - 1
      /\ BCalibrationBudget \in Nat
  BY CellNumbers
<1>3. /\ member_index \in Nat /\ member_index >= 1 /\ member_index' = member_index + 1
      /\ cell = NumCells(p) /\ cell' = 0 /\ pc = "calibrate"
      /\ added \in BOOLEAN /\ added' = FALSE
      /\ transfer' = transfer /\ selected' = selected /\ Len(selected) < BCalibrationBudget
  BY <1>1 DEF LoopInv, TypeInv, CalibrateRound
<1>4. Position = member_index * NumCells(p) + NumCells(p) /\ Position' = Position
  <2>1. /\ Position = member_index * NumCells(p) + NumCells(p)
        /\ Position' = (member_index + 1) * NumCells(p) + 0
    BY <1>1, <1>3 DEF Position
  <2>2. (member_index + 1) * NumCells(p) + 0 = member_index * NumCells(p) + NumCells(p)
    BY <1>2, <1>3
  <2> QED
    BY <2>1, <2>2
<1>5. /\ selected = Laid(p, CellMembers(p), CalVisits(p), Position)
      /\ Len(selected) <= BCalibrationBudget /\ transfer = <<>>
      /\ ~added => \A c \in CellsOf(p) : c < cell => member_index >= SizeOf(p, c) - 1
  BY <1>1, <1>3 DEF LoopInv, Calibrating, Calibrated
<1>6. added
  <2> SUFFICES ASSUME ~added
               PROVE  FALSE
    OBVIOUS
  <2> DEFINE V == CalVisits(p)
             M == CellMembers(p)
  <2>1. \A c \in CellsOf(p) : \E cap \in Nat : Capped(p, V, c, cap) /\ member_index >= cap
    <3> SUFFICES ASSUME NEW c \in CellsOf(p)
                 PROVE  \E cap \in Nat : Capped(p, V, c, cap) /\ member_index >= cap
      OBVIOUS
    <3>1. Capped(p, V, c, SizeOf(p, c) - 1)
      BY CalCapped
    <3>2. SizeOf(p, c) - 1 \in Nat
      BY CellMembersType, LegalIsPartition
    <3>3. c < cell
      BY <1>2, <1>3
    <3> QED
      BY <1>5, <3>1, <3>2, <3>3
  <2>2. Walks(p, M, V)
    BY CalWalks, LegalIsPartition
  <2>3. Cardinality(V) >= BCalibrationBudget /\ Cardinality(V) \in Nat
    BY <1>2, <2>2, CalEnough, WalkVisits, FS_CardinalityType, LegalIsPartition
  <2> HIDE DEF V, M
  <2>4. Len(Laid(p, M, V, member_index * NumCells(p) + NumCells(p))) = Cardinality(V)
    BY <1>2, <1>3, <2>1, <2>2, WalkFull
  <2>5. Len(selected) = Cardinality(V)
    BY <1>4, <1>5, <2>4 DEF V, M
  <2> QED
    BY <1>2, <1>3, <2>3, <2>5
<1>7. pc' = "calibrate"
  BY <1>6 DEF CalibrateRound
<1>8. TypeInv'
  <2>1. cell' \in 0 .. NumCells(p) /\ member_index' \in Nat /\ member_index' >= 1
    BY <1>2, <1>3
  <2> QED
    BY <1>1, <1>3, <1>7, <2>1 DEF TypeInv
<1>9. Calibrating'
  <2>1. \A c \in CellsOf(p) : ~(c < 0)
    BY <1>2
  <2> QED
    BY <1>1, <1>3, <1>4, <1>5, <1>7, <2>1 DEF Calibrating, Calibrated
<1>10. Chosen' /\ Testing' /\ Finished'
  BY <1>7 DEF Chosen, Testing, Finished
<1> QED
  BY <1>8, <1>9, <1>10 DEF LoopInv

\* A full calibration is valid and leaves every cell its last member.
LEMMA CalibrateEndKeeps ==
  ASSUME LoopInv, CalibrateEnd
  PROVE  LoopInv'
<1>1. PICK p \in LegalPartitions : p = partition /\ p = partition'
  BY DEF LoopInv, TypeInv, CalibrateEnd
<1>2. /\ p \in Partitions /\ NumCells(p) \in Nat \ {0} /\ CellsOf(p) = 0 .. NumCells(p) - 1
      /\ BCalibrationBudget \in Nat /\ BTransferBudget \in Nat
  BY CellNumbers
<1>3. /\ member_index' = 0 /\ cell' = 0 /\ pc = "calibrate" /\ added' = FALSE
      /\ transfer' = transfer /\ selected' = selected /\ Len(selected) >= BCalibrationBudget
  BY <1>1 DEF LoopInv, TypeInv, CalibrateEnd
<1>4. PICK k \in Nat : selected = Laid(p, CellMembers(p), CalVisits(p), k)
  <2>1. Position \in Nat
    <3>1. member_index \in Nat /\ cell \in 0 .. NumCells(p)
      BY <1>1 DEF LoopInv, TypeInv
    <3> QED
      BY <1>1, <1>2, <3>1 DEF Position
  <2> QED
    BY <1>1, <1>3, <2>1 DEF LoopInv, Calibrating, Calibrated
<1>5. /\ Len(selected) <= BCalibrationBudget /\ transfer = <<>> /\ Len(selected) \in Nat
      /\ selected \in Seq(Slots)
  BY <1>2, <1>3, <1>4, CalWalks, LaidLength, LegalIsPartition DEF LoopInv, Calibrating
<1>6. Len(selected) = BCalibrationBudget
  BY <1>2, <1>3, <1>5
<1>7. ValidSchedule(selected, p, BCalibrationBudget)
  BY <1>2, <1>4, <1>6, CalWalks, LaidValid, LegalIsPartition
<1>8. \A c \in CellsOf(p) : RemainingMembers(p, selected, c) # {}
  <2> SUFFICES ASSUME NEW c \in CellsOf(p)
               PROVE  RemainingMembers(p, selected, c) # {}
    OBVIOUS
  <2> QED
    BY <1>4, LastIsSpared, LegalIsPartition DEF RemainingMembers
<1>9. pc' = "transfer"
  BY <1>1, <1>7, <1>8 DEF CalibrateEnd
<1> DEFINE M == Remaining(p, selected)
           V == TestVisits(p, M)
<1>10. Position' = 0
  BY <1>1, <1>2, <1>3 DEF Position
<1>11. Laid(p, M, V, 0) = <<>>
  BY <1>2, TestWalks, LaidNone
<1>12. TypeInv'
  <2>1. cell' \in 0 .. NumCells(p) /\ member_index' \in Nat
    BY <1>2, <1>3
  <2>2. added' \in BOOLEAN
    BY <1>3
  <2> QED
    BY <1>1, <1>9, <2>1, <2>2 DEF TypeInv
<1>13. Chosen'
  BY <1>1, <1>3, <1>4, <1>6 DEF Chosen, Calibrated
<1>14. Testing'
  <2>1. Left' = M
    BY <1>1, <1>3 DEF Left
  <2>2. Tested(Position)' = Laid(p, M, V, 0)
    BY <1>1, <1>10, <2>1 DEF Tested
  <2>3. Len(<<>>) <= BTransferBudget
    BY <1>2
  <2>4. \A c \in CellsOf(p) : ~(c < 0)
    BY <1>2
  <2> QED
    BY <1>1, <1>3, <1>5, <1>11, <2>2, <2>3, <2>4 DEF Testing
<1>15. Calibrating' /\ Finished'
  BY <1>9 DEF Calibrating, Finished
<1> QED
  BY <1>12, <1>13, <1>14, <1>15 DEF LoopInv


\* What the transfer lays out in one turn.
LEMMA TestTurn ==
  ASSUME NEW p \in Partitions, NEW used, NEW r \in Nat, NEW c \in CellsOf(p), NEW k,
         k = r * NumCells(p) + c
  PROVE  LET M == Remaining(p, used)
             V == TestVisits(p, M)
         IN  Laid(p, M, V, k + 1) = IF r < Cardinality(M[c])
                                    THEN Append(Laid(p, M, V, k), Slot(NthOf(M[c], r), c))
                                    ELSE Laid(p, M, V, k)
<1> DEFINE M == Remaining(p, used)
           V == TestVisits(p, M)
           cap == Cardinality(M[c])
<1>1. Walks(p, M, V) /\ Capped(p, V, c, cap)
  BY TestWalks, TestCapped
<1> HIDE DEF M, V, cap
<1>2. Laid(p, M, V, k + 1) = IF r < cap THEN Append(Laid(p, M, V, k), Slot(NthOf(M[c], r), c))
                             ELSE Laid(p, M, V, k)
  BY <1>1, WalkStep
<1> QED
  BY <1>2 DEF M, V, cap

LEMMA TransferCellKeeps ==
  ASSUME LoopInv, TransferCell
  PROVE  LoopInv'
<1>1. PICK p \in LegalPartitions : p = partition /\ p = partition'
  BY DEF LoopInv, TypeInv, TransferCell
<1>2. /\ p \in Partitions /\ NumCells(p) \in Nat \ {0} /\ CellsOf(p) = 0 .. NumCells(p) - 1
      /\ BTransferBudget \in Nat
  BY CellNumbers
<1> DEFINE M == Remaining(p, selected)
           V == TestVisits(p, M)
           S == M[cell]
           takes == member_index < Cardinality(S)
<1>3. /\ member_index \in Nat /\ member_index' = member_index
      /\ cell \in 0 .. NumCells(p) /\ cell < NumCells(p) /\ cell' = cell + 1
      /\ pc = "transfer" /\ pc' = "transfer" /\ added \in BOOLEAN
      /\ selected' = selected /\ Len(transfer) < BTransferBudget
  BY <1>1 DEF LoopInv, TypeInv, TransferCell, NextCell
<1>4. cell \in CellsOf(p) /\ cell' \in 0 .. NumCells(p) /\ cell \in Nat
  BY <1>2, <1>3
<1>5. S = RemainingMembers(p, selected, cell) /\ Cardinality(S) \in Nat
  BY <1>2, <1>4, RemainingType
<1>6. IF takes THEN transfer' = Append(transfer, Slot(NthOf(S, member_index), cell)) /\ added' = TRUE
      ELSE transfer' = transfer /\ added' = added
  BY <1>1, <1>5 DEF TransferCell, StillRemains
<1>7. /\ Position = member_index * NumCells(p) + cell
      /\ Position' = Position + 1 /\ Position \in Nat
  <2>1. Position = member_index * NumCells(p) + cell /\ Position' = member_index * NumCells(p) + (cell + 1)
    BY <1>1, <1>3 DEF Position
  <2>2. member_index * NumCells(p) \in Nat
    BY <1>2, <1>3
  <2> QED
    BY <1>4, <2>1, <2>2
<1>8. Left = M /\ Left' = M
  BY <1>1, <1>3 DEF Left
<1>9. /\ transfer = Laid(p, M, V, Position)
      /\ ~added => \A c \in CellsOf(p) : c < cell => member_index >= Cardinality(M[c])
  BY <1>1, <1>3, <1>8 DEF LoopInv, Testing, Tested
<1>10. transfer' = Laid(p, M, V, Position')
  <2>1. Laid(p, M, V, Position + 1)
          = IF takes THEN Append(Laid(p, M, V, Position), Slot(NthOf(S, member_index), cell))
            ELSE Laid(p, M, V, Position)
    <3>1. /\ p \in Partitions /\ member_index \in Nat /\ cell \in CellsOf(p)
          /\ Position = member_index * NumCells(p) + cell
      BY <1>2, <1>3, <1>4, <1>7
    <3> HIDE DEF Position
    <3> QED
      BY <3>1, TestTurn
  <2>2. /\ transfer = Laid(p, M, V, Position) /\ Position' = Position + 1
        /\ transfer' = IF takes THEN Append(transfer, Slot(NthOf(S, member_index), cell))
                       ELSE transfer
    BY <1>6, <1>7, <1>9
  <2> HIDE DEF takes, S, M, V
  <2> QED
    BY <2>1, <2>2
<1>11. Len(transfer') <= BTransferBudget
  <2>1. transfer \in Seq(Slots) /\ Len(transfer) \in Nat
    BY <1>2, <1>7, <1>9, TestWalks, LaidLength
  <2>2. \A s : Len(Append(transfer, s)) = Len(transfer) + 1
    BY <2>1
  <2> HIDE DEF takes
  <2>3. Len(transfer') = Len(transfer) + 1 \/ transfer' = transfer
    BY <1>6, <2>2
  <2> QED
    BY <1>2, <1>3, <2>1, <2>3
<1>12. ASSUME ~added', NEW c \in CellsOf(p), c < cell'
       PROVE  member_index' >= Cardinality(M[c])
  <2>1. ~takes /\ ~added
    BY <1>6, <1>12
  <2>2. c < cell \/ c = cell
    BY <1>2, <1>3, <1>4, <1>12
  <2>3. member_index >= Cardinality(S)
    BY <1>3, <1>5, <2>1
  <2> HIDE DEF M
  <2> QED
    BY <1>3, <1>9, <2>1, <2>2, <2>3
<1>13. added' \in BOOLEAN
  BY <1>3, <1>6
<1>14. TypeInv'
  BY <1>1, <1>3, <1>4, <1>13 DEF TypeInv
<1>15. Testing'
  <2>1. Tested(Position)' = Laid(p, M, V, Position')
    BY <1>1, <1>8 DEF Tested
  <2> HIDE DEF M, V
  <2> QED
    BY <1>1, <1>3, <1>8, <1>10, <1>11, <1>12, <2>1 DEF Testing
<1>16. Chosen'
  BY <1>1, <1>3 DEF LoopInv, Chosen, Calibrated
<1>17. Calibrating' /\ Finished'
  BY <1>3 DEF Calibrating, Finished
<1> QED
  BY <1>14, <1>15, <1>16, <1>17 DEF LoopInv

\* As in the calibration: a round without a slot would end a full transfer.
LEMMA TransferRoundKeeps ==
  ASSUME LoopInv, TransferRound
  PROVE  LoopInv'
<1>1. PICK p \in LegalPartitions : p = partition /\ p = partition'
  BY DEF LoopInv, TypeInv, TransferRound
<1>2. /\ p \in Partitions /\ NumCells(p) \in Nat \ {0} /\ CellsOf(p) = 0 .. NumCells(p) - 1
      /\ BTransferBudget \in Nat
  BY CellNumbers
<1> DEFINE M == Remaining(p, selected)
           V == TestVisits(p, M)
<1>3. /\ member_index \in Nat /\ member_index' = member_index + 1
      /\ cell = NumCells(p) /\ cell' = 0 /\ pc = "transfer"
      /\ added \in BOOLEAN /\ added' = FALSE
      /\ transfer' = transfer /\ selected' = selected /\ Len(transfer) < BTransferBudget
  BY <1>1 DEF LoopInv, TypeInv, TransferRound
<1>4. Position = member_index * NumCells(p) + NumCells(p) /\ Position' = Position
  <2>1. /\ Position = member_index * NumCells(p) + NumCells(p)
        /\ Position' = (member_index + 1) * NumCells(p) + 0
    BY <1>1, <1>3 DEF Position
  <2>2. (member_index + 1) * NumCells(p) + 0 = member_index * NumCells(p) + NumCells(p)
    BY <1>2, <1>3
  <2> QED
    BY <2>1, <2>2
<1>5. Left = M /\ Left' = M
  BY <1>1, <1>3 DEF Left
<1>6. /\ transfer = Laid(p, M, V, Position)
      /\ ~added => \A c \in CellsOf(p) : c < cell => member_index >= Cardinality(M[c])
  BY <1>1, <1>3, <1>5 DEF LoopInv, Testing, Tested
<1>7. \E k \in Nat : selected = Laid(p, CellMembers(p), CalVisits(p), k)
  BY <1>1, <1>3 DEF LoopInv, Chosen, Calibrated
<1>8. selected \in Seq(Slots) /\ Len(selected) = BCalibrationBudget
  BY <1>2, <1>3, <1>7, CalWalks, LaidLength, LegalIsPartition DEF LoopInv, Chosen
<1>9. added
  <2> SUFFICES ASSUME ~added
               PROVE  FALSE
    OBVIOUS
  <2>1. \A c \in CellsOf(p) : \E cap \in Nat : Capped(p, V, c, cap) /\ member_index >= cap
    <3> SUFFICES ASSUME NEW c \in CellsOf(p)
                 PROVE  \E cap \in Nat : Capped(p, V, c, cap) /\ member_index >= cap
      OBVIOUS
    <3>1. Capped(p, V, c, Cardinality(M[c])) /\ Cardinality(M[c]) \in Nat
      BY <1>2, TestCapped, RemainingType
    <3>2. c < cell
      BY <1>2, <1>3
    <3> HIDE DEF M, V
    <3> QED
      BY <1>6, <3>1, <3>2
  <2>2. Walks(p, M, V)
    BY <1>2, TestWalks
  <2>3. Cardinality(V) >= BTransferBudget /\ Cardinality(V) \in Nat
    BY <1>2, <1>8, <2>2, TestEnough, WalkVisits, FS_CardinalityType
  <2> HIDE DEF V, M
  <2>4. Len(Laid(p, M, V, member_index * NumCells(p) + NumCells(p))) = Cardinality(V)
    BY <1>2, <1>3, <2>1, <2>2, WalkFull
  <2>5. Len(transfer) = Cardinality(V)
    BY <1>4, <1>6, <2>4
  <2> QED
    BY <1>2, <1>3, <2>3, <2>5
<1>10. pc' = "transfer"
  BY <1>9 DEF TransferRound
<1>11. TypeInv'
  <2>1. cell' \in 0 .. NumCells(p) /\ member_index' \in Nat
    BY <1>2, <1>3
  <2>2. added' \in BOOLEAN
    BY <1>3
  <2> QED
    BY <1>1, <1>10, <2>1, <2>2 DEF TypeInv
<1>12. Testing'
  <2>1. Tested(Position)' = Laid(p, M, V, Position')
    BY <1>1, <1>5 DEF Tested
  <2>2. \A c \in CellsOf(p) : ~(c < 0)
    BY <1>2
  <2>3. Len(transfer') <= BTransferBudget
    BY <1>3 DEF LoopInv, Testing
  <2> HIDE DEF M, V
  <2> QED
    BY <1>1, <1>3, <1>4, <1>6, <2>1, <2>2, <2>3 DEF Testing
<1>13. Chosen'
  BY <1>1, <1>3, <1>7, <1>8 DEF Chosen, Calibrated
<1>14. Calibrating' /\ Finished'
  BY <1>10 DEF Calibrating, Finished
<1> QED
  BY <1>11, <1>12, <1>13, <1>14 DEF LoopInv

\* A full transfer is valid and out of sample.
LEMMA TransferEndKeeps ==
  ASSUME LoopInv, TransferEnd
  PROVE  LoopInv'
<1>1. PICK p \in LegalPartitions : p = partition /\ p = partition'
  BY DEF LoopInv, TypeInv, TransferEnd
<1>2. /\ p \in Partitions /\ NumCells(p) \in Nat \ {0} /\ CellsOf(p) = 0 .. NumCells(p) - 1
  BY CellNumbers
<1> DEFINE M == Remaining(p, selected)
           V == TestVisits(p, M)
<1>3. /\ pc = "transfer" /\ selected' = selected /\ transfer' = transfer /\ cell' = cell
      /\ member_index' = member_index /\ added' = added
      /\ Len(transfer) = BTransferBudget
  BY DEF TransferEnd
<1>4. PICK k \in Nat : transfer = Laid(p, M, V, k)
  <2>1. Position \in Nat
    <3>1. member_index \in Nat /\ cell \in 0 .. NumCells(p)
      BY <1>1 DEF LoopInv, TypeInv
    <3> QED
      BY <1>1, <1>2, <3>1 DEF Position
  <2> QED
    BY <1>1, <1>3, <2>1 DEF LoopInv, Testing, Tested, Left
<1>5. ValidSchedule(transfer, p, BTransferBudget)
  BY <1>2, <1>3, <1>4, TestWalks, LaidValid
<1>6. PairsOf(transfer) \cap PairsOf(selected) = {}
  BY <1>2, <1>4, TestIsFresh
<1>7. pc' = "done"
  BY <1>1, <1>5, <1>6 DEF TransferEnd
<1>8. TypeInv'
  BY <1>1, <1>3, <1>7 DEF LoopInv, TypeInv
<1>9. Chosen'
  BY <1>1, <1>3 DEF LoopInv, Chosen, Calibrated
<1>10. Finished'
  <2>1. Left' = M
    BY <1>1, <1>3 DEF Left
  <2>2. Tested(k)' = Laid(p, M, V, k)
    BY <1>1, <2>1 DEF Tested
  <2> HIDE DEF M, V
  <2> QED
    BY <1>3, <1>4, <2>2 DEF Finished
<1>11. Calibrating' /\ Testing'
  BY <1>7 DEF Calibrating, Testing
<1> QED
  BY <1>8, <1>9, <1>10, <1>11 DEF LoopInv


LEMMA StepKeeps ==
  ASSUME LoopInv, [Next]_vars
  PROVE  LoopInv'
<1>1. CASE Pass0
  BY <1>1, Pass0Keeps
<1>2. CASE Pass0End
  BY <1>2, Pass0EndKeeps
<1>3. CASE CalibrateCell
  BY <1>3, CalibrateCellKeeps
<1>4. CASE CalibrateRound
  BY <1>4, CalibrateRoundKeeps
<1>5. CASE CalibrateEnd
  BY <1>5, CalibrateEndKeeps
<1>6. CASE TransferCell
  BY <1>6, TransferCellKeeps
<1>7. CASE TransferRound
  BY <1>7, TransferRoundKeeps
<1>8. CASE TransferEnd
  BY <1>8, TransferEndKeeps
<1>9. CASE UNCHANGED vars
  <2>1. /\ partition' = partition /\ pc' = pc /\ cell' = cell /\ member_index' = member_index
        /\ added' = added /\ selected' = selected /\ transfer' = transfer
    BY <1>9 DEF vars
  <2>2. Position' = Position /\ Left' = Left
    BY <2>1 DEF Position, Left
  <2>3. TypeInv' /\ Chosen' /\ Finished'
    BY <2>1, <2>2 DEF LoopInv, TypeInv, Chosen, Calibrated, Finished, Tested
  <2>4. Calibrating' /\ Testing'
    BY <2>1, <2>2 DEF LoopInv, Calibrating, Calibrated, Testing, Tested
  <2> QED
    BY <2>3, <2>4 DEF LoopInv
<1> QED
  BY <1>1, <1>2, <1>3, <1>4, <1>5, <1>6, <1>7, <1>8, <1>9 DEF Next, Returned

LEMMA LoopsAlwaysRight == Spec => []LoopInv
BY StartsRight, StepKeeps, PTL DEF Spec

\* Both schedules are walks, whatever the loops are doing.
LEMMA SchedulesAreWalks ==
  ASSUME LoopInv
  PROVE  /\ partition \in LegalPartitions
         /\ \E k \in Nat : selected = Calibrated(k)
         /\ transfer = <<>> \/ \E k \in Nat : transfer = Tested(k)
<1>1. partition \in LegalPartitions /\ pc \in {"pass_0", "calibrate", "transfer", "done"}
  BY DEF LoopInv, TypeInv
<1>2. Position \in Nat
  <2>1. NumCells(partition) \in Nat
    BY <1>1, CellNumbers
  <2>2. member_index \in Nat /\ cell \in 0 .. NumCells(partition)
    BY DEF LoopInv, TypeInv
  <2> QED
    BY <2>1, <2>2 DEF Position
<1>3. CASE pc \in {"pass_0", "calibrate"}
  BY <1>1, <1>2, <1>3 DEF LoopInv, Calibrating
<1>4. CASE pc = "transfer"
  BY <1>1, <1>2, <1>4 DEF LoopInv, Chosen, Testing
<1>5. CASE pc = "done"
  BY <1>1, <1>5 DEF LoopInv, Chosen, Finished
<1> QED
  BY <1>1, <1>3, <1>4, <1>5

-------------------------------------------------------------------------------
(* What the loops promise.                                                 *)

\* build_b_calibration_schedule and build_b_transfer_schedule raise for no legal
\* partition: a round without a slot, a consumed cell and an invalid schedule are
\* all impossible with the constants' arithmetic.
THEOREM BuildersNeverRaise == Spec => []NeverRaises
<1>1. LoopInv => NeverRaises
  BY DEF LoopInv, TypeInv, NeverRaises, Failures
<1> QED
  BY <1>1, LoopsAlwaysRight, PTL

\* At every step of the calibration, the last member of every cell is left for
\* the transfer.
THEOREM LastMemberIsLeft == Spec => []LastMemberSpared
<1>1. ASSUME LoopInv
      PROVE  LastMemberSpared
  <2>1. PICK p \in LegalPartitions : p = partition
    BY <1>1 DEF LoopInv, TypeInv
  <2>2. PICK k \in Nat : selected = Laid(p, CellMembers(p), CalVisits(p), k)
    BY <1>1, <2>1, SchedulesAreWalks DEF Calibrated
  <2>3. \A c \in CellsOf(p) : <<LastOf(p, c), ActionOfCell(c)>> \notin PairsOf(selected)
    BY <2>2, LastIsSpared, LegalIsPartition
  <2> QED
    BY <2>1, <2>3 DEF LastMemberSpared, LastOf
<1> QED
  BY <1>1, LoopsAlwaysRight, PTL

\* The loops return the closed forms that V1Protocol gives to the broker's model.
THEOREM LoopsComputeClosedForm == Spec => []ComputesClosedForm
<1>1. ASSUME LoopInv, pc = "done"
      PROVE  /\ selected = CalibrationSchedule(partition)
             /\ transfer = TransferSchedule(partition, selected)
  <2>1. PICK p \in LegalPartitions : p = partition
    BY <1>1 DEF LoopInv, TypeInv
  <2>2. p \in Partitions
    BY CellNumbers
  <2>3. PICK k \in Nat : selected = Laid(p, CellMembers(p), CalVisits(p), k)
    BY <1>1, <2>1 DEF LoopInv, Chosen, Calibrated
  <2>4. Len(selected) = BCalibrationBudget
    BY <1>1 DEF LoopInv, Chosen
  <2>5. selected = CalibrationSchedule(p)
    BY <2>3, <2>4, CalibratedIsClosed, LegalIsPartition
  <2>6. PICK j \in Nat :
          transfer = Laid(p, Remaining(p, selected), TestVisits(p, Remaining(p, selected)), j)
    BY <1>1, <2>1 DEF LoopInv, Finished, Tested, Left
  <2>7. Len(transfer) = BTransferBudget
    BY <1>1 DEF LoopInv, Finished
  <2>8. transfer = TransferSchedule(p, selected)
    BY <2>2, <2>6, <2>7, TestedIsClosed
  <2> QED
    BY <2>1, <2>5, <2>8
<1>2. LoopInv => ComputesClosedForm
  BY <1>1 DEF ComputesClosedForm
<1> QED
  BY <1>2, LoopsAlwaysRight, PTL

LEMMA CoveredCellsShare ==
  ASSUME NEW p \in Partitions, NEW s \in Seq(Slots), Covers(s, p), NEW c \in CellsOf(p)
  PROVE  Share(s, c) > 0
<1> DEFINE D == {i \in DOMAIN s : CellOf(s[i].group, s[i].action) = c}
<1>1. GroupOfCell(c) \in GroupsOf(p) /\ ActionOfCell(c) \in Actions /\ c \in Nat
  BY GroupOfCellType, VisitNumbers
<1>2. PICK i \in DOMAIN s : s[i].group = GroupOfCell(c) /\ s[i].action = ActionOfCell(c)
  BY <1>1 DEF Covers
<1>3. i \in D
  BY <1>1, <1>2, CellRecovered
<1>4. IsFiniteSet(D)
  <2>1. Len(s) \in Nat /\ DOMAIN s = 1 .. Len(s)
    OBVIOUS
  <2>2. IsFiniteSet(1 .. Len(s)) /\ D \in SUBSET (1 .. Len(s))
    BY <2>1, FS_Interval
  <2> QED
    BY <2>2, FS_Subset
<1> HIDE DEF D
<1>5. Cardinality(D) \in Nat /\ Cardinality(D) # 0
  BY <1>3, <1>4, FS_CardinalityType, FS_EmptySet
<1>6. Cardinality(D) > 0
  BY <1>5
<1> QED
  BY <1>6 DEF Share, D

\* When the builders return, every cell has a calibration slot and a transfer slot.
THEOREM EveryCellIsTested == Spec => []EveryCellTested
<1>1. ASSUME LoopInv, ComputesClosedForm, pc = "done"
      PROVE  \A c \in CellsOf(partition) : Share(selected, c) > 0 /\ Share(transfer, c) > 0
  <2>1. PICK p \in LegalPartitions : p = partition
    BY <1>1 DEF LoopInv, TypeInv
  <2>2. p \in Partitions
    BY CellNumbers
  <2>3. selected = CalibrationSchedule(p) /\ transfer = TransferSchedule(p, selected)
    BY <1>1, <2>1 DEF ComputesClosedForm
  <2>4. PICK k \in Nat : selected = Laid(p, CellMembers(p), CalVisits(p), k)
    BY <1>1, <2>1 DEF LoopInv, Chosen, Calibrated
  <2>5. PICK j \in Nat :
          transfer = Laid(p, Remaining(p, selected), TestVisits(p, Remaining(p, selected)), j)
    BY <1>1, <2>1 DEF LoopInv, Finished, Tested, Left
  <2>6. selected \in Seq(Slots)
    BY <2>2, <2>4, CalWalks, LaidLength, LegalIsPartition
  <2>7. transfer \in Seq(Slots)
    BY <2>2, <2>5, TestWalks, LaidLength
  <2>8. Covers(selected, p)
    BY <2>2, <2>3, CalibrationCovers
  <2>9. \A c \in CellsOf(p) : RemainingMembers(p, selected, c) # {}
    <3> SUFFICES ASSUME NEW c \in CellsOf(p)
                 PROVE  RemainingMembers(p, selected, c) # {}
      OBVIOUS
    <3> QED
      BY <2>4, LastIsSpared, LegalIsPartition DEF RemainingMembers
  <2>10. Covers(transfer, p)
    BY <2>2, <2>3, <2>9, TransferCovers
  <2> QED
    BY <2>1, <2>2, <2>6, <2>7, <2>8, <2>10, CoveredCellsShare
<1>2. LoopInv /\ ComputesClosedForm => EveryCellTested
  BY <1>1 DEF EveryCellTested
<1> QED
  BY <1>2, LoopsAlwaysRight, LoopsComputeClosedForm, PTL

LEMMA NoShare ==
  ASSUME NEW c
  PROVE  Share(<<>>, c) = 0
<1>1. {i \in DOMAIN <<>> : CellOf(<<>>[i].group, <<>>[i].action) = c} = {}
  OBVIOUS
<1> QED
  BY <1>1, FS_EmptySet DEF Share

\* At every step, in both schedules, a cell is two slots ahead of another only
\* when the other has had all it can take.
THEOREM RoundsAreEven == Spec => []EvenRounds
<1>1. ASSUME LoopInv, NEW c \in CellsOf(partition), NEW d \in CellsOf(partition)
      PROVE  /\ Share(selected, c) > Share(selected, d) + 1
                => Share(selected, d) = Cardinality(MembersOf(partition, GroupOfCell(d))) - 1
             /\ Share(transfer, c) > Share(transfer, d) + 1
                => Share(transfer, d) = Cardinality(RemainingMembers(partition, selected, d))
  <2>1. PICK p \in LegalPartitions : p = partition
    BY <1>1 DEF LoopInv, TypeInv
  <2>2. p \in Partitions /\ c \in CellsOf(p) /\ d \in CellsOf(p)
    BY <2>1, CellNumbers
  <2>3. ASSUME Share(selected, c) > Share(selected, d) + 1
        PROVE  Share(selected, d) = Cardinality(MembersOf(partition, GroupOfCell(d))) - 1
    <3>1. PICK k \in Nat : selected = Laid(p, CellMembers(p), CalVisits(p), k)
      BY <1>1, <2>1, SchedulesAreWalks DEF Calibrated
    <3>2. /\ Walks(p, CellMembers(p), CalVisits(p))
          /\ Capped(p, CalVisits(p), c, SizeOf(p, c) - 1)
          /\ Capped(p, CalVisits(p), d, SizeOf(p, d) - 1)
      BY <2>2, CalWalks, CalCapped, LegalIsPartition
    <3>3. Share(selected, d) = SizeOf(p, d) - 1
      BY <2>2, <2>3, <3>1, <3>2, WalkIsEven
    <3>4. SizeOf(p, d) = Cardinality(MembersOf(p, GroupOfCell(d)))
      BY <2>2, CellMembersType, LegalIsPartition DEF SizeOf
    <3> QED
      BY <2>1, <3>3, <3>4
  <2>4. ASSUME Share(transfer, c) > Share(transfer, d) + 1
        PROVE  Share(transfer, d) = Cardinality(RemainingMembers(partition, selected, d))
    <3> DEFINE M == Remaining(p, selected)
               V == TestVisits(p, M)
    <3>1. transfer # <<>>
      <4>1. ~(0 > 0 + 1)
        OBVIOUS
      <4> QED
        BY <2>4, <4>1, NoShare
    <3>2. PICK k \in Nat : transfer = Laid(p, M, V, k)
      BY <1>1, <2>1, <3>1, SchedulesAreWalks DEF Tested, Left
    <3>3. /\ Walks(p, M, V)
          /\ Capped(p, V, c, Cardinality(M[c])) /\ Capped(p, V, d, Cardinality(M[d]))
          /\ M[d] = RemainingMembers(p, selected, d)
      BY <2>2, TestWalks, TestCapped, RemainingType
    <3> HIDE DEF M, V
    <3>4. Share(transfer, d) = Cardinality(M[d])
      BY <2>2, <2>4, <3>2, <3>3, WalkIsEven
    <3> QED
      BY <2>1, <3>3, <3>4
  <2> QED
    BY <2>3, <2>4
<1>2. LoopInv => EvenRounds
  BY <1>1 DEF EvenRounds
<1> QED
  BY <1>2, LoopsAlwaysRight, PTL
===============================================================================
