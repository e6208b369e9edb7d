--------------------------- MODULE V1Protocol_proofs ---------------------------
(***************************************************************************)
(* Lemmas about the operators of V1Protocol, for every value of its        *)
(* constants: what the sorted walks return, that canonical partitions are  *)
(* partitions, the types of the records the broker freezes, and that both  *)
(* schedules of a canonical partition exist.                               *)
(***************************************************************************)
EXTENDS V1Protocol, FiniteSetTheorems, SequenceTheorems, TLAPS

-------------------------------------------------------------------------------
(* Sorted walks over finite sets of integers.                              *)

\* The elements of S below e are finitely many, and fewer than S has.
LEMMA RankBound ==
  ASSUME NEW S \in SUBSET Int, IsFiniteSet(S), NEW e \in S
  PROVE  /\ IsFiniteSet({d \in S : d < e})
         /\ Cardinality({d \in S : d < e}) \in 0 .. Cardinality(S) - 1
<1> DEFINE T == {d \in S : d < e}
<1>1. T \in SUBSET S /\ T # S
  OBVIOUS
<1>2. /\ IsFiniteSet(T)
      /\ Cardinality(T) <= Cardinality(S)
      /\ Cardinality(S) # Cardinality(T)
  BY <1>1, FS_Subset
<1>3. Cardinality(S) \in Nat /\ Cardinality(T) \in Nat
  BY <1>2, FS_CardinalityType
<1> QED
  BY <1>2, <1>3

\* Different elements have different ranks.
LEMMA RankGrows ==
  ASSUME NEW S \in SUBSET Int, IsFiniteSet(S), NEW e \in S, NEW f \in S, e < f
  PROVE  Cardinality({d \in S : d < e}) < Cardinality({d \in S : d < f})
<1> DEFINE T == {d \in S : d < e}
           U == {d \in S : d < f}
<1>1. T \in SUBSET U /\ T # U
  <2>1. \A d \in T : d \in U
    OBVIOUS
  <2>2. e \in U /\ e \notin T
    OBVIOUS
  <2> QED
    BY <2>1, <2>2
<1>2. IsFiniteSet(U)
  BY RankBound
<1>3. IsFiniteSet(T) /\ Cardinality(T) <= Cardinality(U) /\ Cardinality(U) # Cardinality(T)
  BY <1>1, <1>2, FS_Subset
<1>4. Cardinality(T) \in Nat /\ Cardinality(U) \in Nat
  BY <1>2, <1>3, FS_CardinalityType
<1> QED
  BY <1>3, <1>4

\* Every rank is taken, so the i-th element in order exists and is an element:
\* the walks over entities, cells and visits never fall off their set.
LEMMA NthOfIsElement ==
  ASSUME NEW S \in SUBSET Int, IsFiniteSet(S), NEW i \in 0 .. Cardinality(S) - 1
  PROVE  NthOf(S, i) \in S /\ Cardinality({d \in S : d < NthOf(S, i)}) = i
<1> DEFINE Ranks == 0 .. Cardinality(S) - 1
           rank == [e \in S |-> Cardinality({d \in S : d < e})]
<1>1. Cardinality(S) \in Nat
  BY FS_CardinalityType
<1>2. rank \in [S -> Ranks]
  BY RankBound
<1>3. \A e, f \in S : e # f => rank[e] # rank[f]
  <2> SUFFICES ASSUME NEW e \in S, NEW f \in S, e # f
               PROVE  rank[e] # rank[f]
    OBVIOUS
  <2>1. rank[e] \in Int /\ rank[f] \in Int
    BY <1>2
  <2>2. e < f \/ f < e
    OBVIOUS
  <2>3. rank[e] < rank[f] \/ rank[f] < rank[e]
    BY <2>2, RankGrows
  <2> QED
    BY <2>1, <2>3
<1>4. rank \in Injection(S, Ranks)
  BY <1>2, <1>3 DEF Injection, IsInjective
<1>5. IsFiniteSet(Ranks) /\ Cardinality(Ranks) = Cardinality(S)
  BY <1>1, FS_Interval
<1>6. rank \in Surjection(S, Ranks)
  BY <1>4, <1>5, FS_Injection
<1>7. \E e \in S : rank[e] = i
  BY <1>6 DEF Surjection
<1>8. \E e \in S : Cardinality({d \in S : d < e}) = i
  BY <1>7
<1> QED
  BY <1>8 DEF NthOf

\* The first element of a nonempty finite set is one of its elements.
LEMMA FirstIsElement ==
  ASSUME NEW S \in SUBSET Int, IsFiniteSet(S), S # {}
  PROVE  NthOf(S, 0) \in S
<1>1. Cardinality(S) \in Nat /\ Cardinality(S) # 0
  BY FS_CardinalityType, FS_EmptySet
<1>2. 0 \in 0 .. Cardinality(S) - 1
  BY <1>1
<1> QED
  BY <1>2, NthOfIsElement

\* FirstOf(S, n) is a sequence of elements of S, n long when S has that many.
LEMMA FirstOfIsSequence ==
  ASSUME NEW S \in SUBSET Int, IsFiniteSet(S), NEW n \in Nat
  PROVE  /\ FirstOf(S, n) \in Seq(S)
         /\ Len(FirstOf(S, n)) = IF Cardinality(S) < n THEN Cardinality(S) ELSE n
         /\ DOMAIN FirstOf(S, n) = 1 .. Len(FirstOf(S, n))
<1> DEFINE k == IF Cardinality(S) < n THEN Cardinality(S) ELSE n
<1>1. Cardinality(S) \in Nat
  BY FS_CardinalityType
<1>2. k \in Nat
  BY <1>1
<1>3. \A i \in 1 .. k : NthOf(S, i - 1) \in S
  <2> TAKE i \in 1 .. k
  <2>1. i - 1 \in 0 .. Cardinality(S) - 1
    BY <1>1
  <2> QED
    BY <2>1, NthOfIsElement
<1>4. FirstOf(S, n) = [i \in 1 .. k |-> NthOf(S, i - 1)]
  BY DEF FirstOf
<1> HIDE DEF k
<1>5. FirstOf(S, n) \in [1 .. k -> S]
  BY <1>3, <1>4
<1>6. FirstOf(S, n) \in Seq(S) /\ Len(FirstOf(S, n)) = k
  BY <1>2, <1>5
<1> QED
  BY <1>5, <1>6 DEF k

-------------------------------------------------------------------------------
(* The finite sets the computations range over.                            *)

LEMMA FiniteDomains ==
  /\ IsFiniteSet(Entities) /\ IsFiniteSet(Actions)
  /\ Entities \subseteq Nat /\ Actions \subseteq Nat
<1>1. NumEntities \in Nat /\ NumActions \in Nat
  BY ProtocolConstants
<1> QED
  BY <1>1, FS_Interval DEF Entities, Actions

LEMMA EntitySubsets ==
  ASSUME NEW T \in SUBSET Entities
  PROVE  T \in SUBSET Int /\ IsFiniteSet(T)
<1>1. Entities \subseteq Nat /\ IsFiniteSet(Entities)
  BY FiniteDomains
<1>2. T \in SUBSET Int
  BY <1>1
<1> QED
  BY <1>1, <1>2, FS_Subset

LEMMA ActionSubsets ==
  ASSUME NEW T \in SUBSET Actions
  PROVE  T \in SUBSET Int /\ IsFiniteSet(T)
<1>1. Actions \subseteq Nat /\ IsFiniteSet(Actions)
  BY FiniteDomains
<1>2. T \in SUBSET Int
  BY <1>1
<1> QED
  BY <1>1, <1>2, FS_Subset

LEMMA PartitionTypes ==
  ASSUME NEW p \in Partitions
  PROVE  /\ p.group_count \in Nat /\ p.group_count <= MaxGroups
         /\ p.entity_group \in [Entities -> Nat]
         /\ \A e \in Entities : p.entity_group[e] \in GroupsOf(p)
BY ProtocolConstants DEF Partitions

\* Every cell of a partition is one of MaxGroups * NumActions, and every pair of
\* a group and an action is a cell.
LEMMA CellBounds ==
  ASSUME NEW p \in Partitions
  PROVE  /\ NumCells(p) \in Nat
         /\ CellsOf(p) \subseteq 0 .. MaxGroups * NumActions - 1
         /\ IsFiniteSet(CellsOf(p))
         /\ \A g \in GroupsOf(p), a \in Actions : CellOf(g, a) \in CellsOf(p)
<1> DEFINE n == p.group_count
<1>1. NumActions \in Nat /\ NumActions > 0 /\ MaxGroups \in Nat /\ n \in Nat /\ n <= MaxGroups
  BY ProtocolConstants, PartitionTypes
<1>2. n * NumActions \in Nat /\ MaxGroups * NumActions \in Nat
      /\ n * NumActions <= MaxGroups * NumActions
  BY <1>1
<1>3. ASSUME NEW g \in GroupsOf(p), NEW a \in Actions
      PROVE  CellOf(g, a) \in CellsOf(p)
  <2>1. g \in 0 .. n - 1 /\ a \in 0 .. NumActions - 1
    BY DEF GroupsOf, Actions
  <2>2. g * NumActions \in Nat /\ (n - 1) * NumActions = n * NumActions - NumActions
    BY <1>1, <2>1
  <2>3. g * NumActions <= (n - 1) * NumActions
    BY <1>1, <2>1
  <2>4. g * NumActions + a \in 0 .. n * NumActions - 1
    BY <1>1, <1>2, <2>1, <2>2, <2>3
  <2> QED
    BY <2>4 DEF CellOf, CellsOf, NumCells
<1>4. NumCells(p) \in Nat /\ CellsOf(p) \subseteq 0 .. MaxGroups * NumActions - 1
  BY <1>2 DEF CellsOf, NumCells
<1>5. IsFiniteSet(CellsOf(p))
  BY <1>4, FS_Interval DEF CellsOf
<1> QED
  BY <1>3, <1>4, <1>5

\* A cell splits into a group number and an action.
LEMMA CellParts ==
  ASSUME NEW c \in Nat
  PROVE  GroupOfCell(c) \in Nat /\ ActionOfCell(c) \in Actions
<1>1. NumActions \in Nat /\ NumActions > 0
  BY ProtocolConstants
<1>2. c \div NumActions \in Nat
  BY <1>1
<1>3. c % NumActions \in 0 .. NumActions - 1
  BY <1>1
<1> QED
  BY <1>2, <1>3 DEF GroupOfCell, ActionOfCell, Actions

-------------------------------------------------------------------------------
(* Canonical partitions.                                                   *)

\* Relabelling a legal hypothesis gives a partition: its leaders are in different
\* groups, so fewer than group_count of them come before the members of a group.
LEMMA CanonicalIsPartition ==
  ASSUME NEW h, h.entity_group \in [Entities -> Int], LegalHypothesis(h)
  PROVE  Canonicalize(h) \in Partitions
<1> DEFINE group == h.entity_group
           n == h.group_count
           Earlier(e) == {d \in Leaders(h) : \A m \in MembersOf(h, group[e]) : d < m}
<1>1. n \in MinGroups .. MaxGroups /\ n \in Nat /\ \A e \in Entities : group[e] \in GroupsOf(h)
  BY ProtocolConstants DEF LegalHypothesis
<1>2. ASSUME NEW e \in Entities
      PROVE  Cardinality(Earlier(e)) \in 0 .. n - 1
  <2> DEFINE Others == GroupsOf(h) \ {group[e]}
             f == [d \in Earlier(e) |-> group[d]]
  <2>1. Earlier(e) \subseteq Entities /\ Earlier(e) \subseteq Nat
    <3>1. Entities \subseteq Nat
      BY FiniteDomains
    <3>2. Earlier(e) \subseteq Entities
      BY DEF Leaders
    <3> QED
      BY <3>1, <3>2
  <2>2. \A d \in Earlier(e) : group[d] \in Others
    <3> SUFFICES ASSUME NEW d \in Earlier(e), group[d] = group[e]
                 PROVE  FALSE
      BY <1>1, <2>1
    <3>1. d \in MembersOf(h, group[e])
      BY <2>1 DEF MembersOf
    <3>2. d < d
      BY <3>1
    <3>3. d \in Nat
      BY <2>1
    <3> QED
      BY <3>2, <3>3
  <2>3. \A d, c \in Earlier(e) : d # c => group[d] # group[c]
    <3>1. ASSUME NEW d \in Earlier(e), NEW c \in Earlier(e), d < c
          PROVE  group[d] # group[c]
      <4>1. d \in Nat /\ c \in Nat
        BY <2>1
      <4>2. d \in 0 .. c - 1
        BY <3>1, <4>1
      <4> QED
        BY <4>2 DEF Leaders
    <3>2. \A d, c \in Earlier(e) : d # c => d < c \/ c < d
      <4> HIDE DEF Earlier
      <4> QED
        BY <2>1
    <3> HIDE DEF Earlier
    <3> QED
      BY <3>1, <3>2
  <2>4. f \in Injection(Earlier(e), Others)
    BY <2>2, <2>3 DEF Injection, IsInjective
  <2>5. IsFiniteSet(GroupsOf(h)) /\ Cardinality(GroupsOf(h)) = n
    <3>1. GroupsOf(h) = 0 .. n - 1
      BY DEF GroupsOf
    <3>2. n \in Nat
      BY <1>1
    <3> HIDE DEF n
    <3>3. 0 \in Int /\ n - 1 \in Int
      BY <3>2
    <3>4. /\ IsFiniteSet(0 .. n - 1)
          /\ Cardinality(0 .. n - 1) = IF 0 > n - 1 THEN 0 ELSE (n - 1) - 0 + 1
      BY <3>3, FS_Interval
    <3>5. Cardinality(0 .. n - 1) = n
      BY <3>2, <3>4
    <3> QED
      BY <3>1, <3>4, <3>5
  <2>6. IsFiniteSet(Others) /\ Cardinality(Others) = n - 1
    BY <1>1, <2>5, FS_RemoveElement
  <2>7. IsFiniteSet(Earlier(e)) /\ Cardinality(Earlier(e)) <= n - 1
    BY <2>4, <2>6, FS_Injection
  <2> HIDE DEF Earlier
  <2> QED
    BY <1>1, <2>7, FS_CardinalityType
<1>3. Canonicalize(h) = [group_count |-> n,
                         entity_group |-> [e \in Entities |-> Cardinality(Earlier(e))]]
  BY DEF Canonicalize
<1> HIDE DEF Earlier, n
<1>4. \A e \in Entities : Cardinality(Earlier(e)) \in 0 .. n - 1
                          /\ Cardinality(Earlier(e)) \in Nat
  BY <1>1, <1>2
<1> QED
  BY <1>1, <1>3, <1>4 DEF Partitions, GroupsOf

-------------------------------------------------------------------------------
(* The sealed gate.                                                        *)

\* construct_a_gate_challenges returns a sequence of challenges, and none of them
\* repeats a pair that discovery measured.
LEMMA GateChallengesAreHeldOut ==
  ASSUME NEW p \in Partitions, NEW observed
  PROVE  /\ GateChallenges(p, observed) \in Seq(Challenges)
         /\ PairsOf(GateChallenges(p, observed)) \cap PairsOf(observed) = {}
<1> DEFINE eligible == {c \in CellsOf(p) : /\ EmpiricalCell(p, observed, c) # {}
                                           /\ HeldOut(p, observed, c) # {}}
           cells == FirstOf(eligible, AGateBudget)
           tested(c) == NthOf(HeldOut(p, observed, c), 0)
           value(c) == NthOf(EmpiricalCell(p, observed, c), 0)
           challenge(c) == [entity |-> tested(c), action |-> ActionOfCell(c),
                            group |-> GroupOfCell(c), predicted |-> value(c)]
<1>1. CellsOf(p) \subseteq Nat /\ IsFiniteSet(CellsOf(p)) /\ AGateBudget \in Nat
  BY CellBounds, ProtocolConstants DEF CellsOf
<1>2. eligible \in SUBSET Int /\ IsFiniteSet(eligible)
  <2>1. eligible \in SUBSET CellsOf(p)
    OBVIOUS
  <2> QED
    BY <1>1, <2>1, FS_Subset
<1>3. /\ cells \in Seq(eligible)
      /\ DOMAIN cells = 1 .. Len(cells)
  <2> HIDE DEF eligible
  <2> QED
    BY <1>1, <1>2, FirstOfIsSequence
<1>4. ASSUME NEW c \in eligible
      PROVE  tested(c) \in HeldOut(p, observed, c) /\ challenge(c) \in Challenges
  <2>1. HeldOut(p, observed, c) \in SUBSET Entities /\ HeldOut(p, observed, c) # {}
    BY DEF HeldOut, MembersOf
  <2>2. EmpiricalCell(p, observed, c) \in SUBSET Actions /\ EmpiricalCell(p, observed, c) # {}
    BY DEF EmpiricalCell
  <2>3. tested(c) \in HeldOut(p, observed, c)
    BY <2>1, EntitySubsets, FirstIsElement
  <2>4. value(c) \in Actions
    BY <2>2, ActionSubsets, FirstIsElement
  <2>5. c \in Nat
    BY <1>1
  <2>6. GroupOfCell(c) \in Nat /\ ActionOfCell(c) \in Actions
    BY <2>5, CellParts
  <2> QED
    BY <2>1, <2>3, <2>4, <2>6 DEF Challenges
<1>5. GateChallenges(p, observed) = [i \in 1 .. Len(cells) |-> challenge(cells[i])]
  BY <1>3 DEF GateChallenges
<1> HIDE DEF eligible, cells
<1>6. Len(cells) \in Nat /\ \A i \in 1 .. Len(cells) : cells[i] \in eligible
  BY <1>3
<1>7. GateChallenges(p, observed) \in Seq(Challenges)
  <2>1. GateChallenges(p, observed) \in [1 .. Len(cells) -> Challenges]
    BY <1>4, <1>5, <1>6
  <2> QED
    BY <1>6, <2>1
<1>8. PairsOf(GateChallenges(p, observed)) \cap PairsOf(observed) = {}
  <2> SUFFICES ASSUME NEW i \in 1 .. Len(cells), NEW j \in DOMAIN observed,
                      observed[j].entity = challenge(cells[i]).entity,
                      observed[j].action = challenge(cells[i]).action
               PROVE  FALSE
    BY <1>5 DEF PairsOf
  <2>1. tested(cells[i]) \in HeldOut(p, observed, cells[i])
    BY <1>4, <1>6
  <2>2. j \in ObservationsOf(observed, tested(cells[i]), ActionOfCell(cells[i]))
    BY DEF ObservationsOf
  <2> QED
    BY <2>1, <2>2 DEF HeldOut
<1> QED
  BY <1>7, <1>8

-------------------------------------------------------------------------------
(* The B schedules, lookup, predictions and score.                         *)

\* A walk over visits that passes _validate_schedule is a sequence of slots, each
\* in the group its entity belongs to.
LEMMA ValidScheduleType ==
  ASSUME NEW p \in Partitions, NEW n \in Nat, NEW slots, NEW k \in Nat,
         DOMAIN slots = 1 .. k, slots = [i \in 1 .. k |-> slots[i]],
         \A i \in 1 .. k : slots[i] = [entity |-> slots[i].entity, action |-> slots[i].action,
                                       group |-> slots[i].group],
         ValidSchedule(slots, p, n)
  PROVE  /\ slots \in Seq(Slots)
         /\ \A i \in 1 .. Len(slots) :
              CellOf(slots[i].group, slots[i].action) \in CellsOf(p)
<1>1. ASSUME NEW i \in 1 .. k
      PROVE  slots[i] \in Slots /\ CellOf(slots[i].group, slots[i].action) \in CellsOf(p)
  <2>1. slots[i].entity \in Entities /\ slots[i].action \in Actions
        /\ p.entity_group[slots[i].entity] = slots[i].group
    BY DEF ValidSchedule
  <2>2. slots[i].group \in GroupsOf(p) /\ slots[i].group \in Nat
    BY <2>1, PartitionTypes
  <2> QED
    BY <2>1, <2>2, CellBounds DEF Slots
<1>2. slots \in [1 .. k -> Slots]
  BY <1>1
<1>3. slots \in Seq(Slots) /\ Len(slots) = k
  BY <1>2
<1> QED
  BY <1>1, <1>3

\* The visits a builder walks are a finite sequence.
LEMMA VisitsOfWalk ==
  ASSUME NEW p \in Partitions, NEW V \in SUBSET Visits(p), NEW n \in Nat
  PROVE  /\ DOMAIN FirstOf(V, n) = 1 .. Len(FirstOf(V, n))
         /\ Len(FirstOf(V, n)) \in Nat
<1>1. NumEntities \in Nat /\ NumCells(p) \in Nat
  BY ProtocolConstants, CellBounds
<1>2. NumEntities * NumCells(p) \in Nat
  BY <1>1
<1>3. Visits(p) \subseteq Int /\ IsFiniteSet(Visits(p))
  BY <1>2, FS_Interval DEF Visits
<1>4. V \in SUBSET Int /\ IsFiniteSet(V)
  BY <1>3, FS_Subset
<1> QED
  BY <1>4, FirstOfIsSequence, FS_CardinalityType

\* build_b_calibration_schedule returns slots, or raises.
LEMMA CalibrationScheduleType ==
  ASSUME NEW p \in Partitions,
         ValidSchedule(CalibrationSchedule(p), p, BCalibrationBudget)
  PROVE  CalibrationSchedule(p) \in Seq(Slots)
<1> DEFINE members(n) == MembersOf(p, GroupOfCell(Visit(p, n).cell))
           V == {n \in Visits(p) : Calibratable(Visit(p, n).round, Cardinality(members(n)))}
           visits == FirstOf(V, BCalibrationBudget)
           slots == CalibrationSchedule(p)
<1>1. slots = [i \in DOMAIN visits |->
                Slot(NthOf(members(visits[i]), Visit(p, visits[i]).round), Visit(p, visits[i]).cell)]
  BY DEF CalibrationSchedule
<1>2. DOMAIN visits = 1 .. Len(visits) /\ Len(visits) \in Nat
  BY VisitsOfWalk, ProtocolConstants
<1> HIDE DEF visits
<1>3. /\ DOMAIN slots = 1 .. Len(visits)
      /\ slots = [i \in 1 .. Len(visits) |-> slots[i]]
      /\ \A i \in 1 .. Len(visits) :
           slots[i] = [entity |-> slots[i].entity, action |-> slots[i].action,
                       group |-> slots[i].group]
  BY <1>1, <1>2 DEF Slot
<1> QED
  BY <1>2, <1>3, ValidScheduleType, ProtocolConstants

\* build_b_transfer_schedule returns slots of the partition's cells, or raises.
LEMMA TransferScheduleType ==
  ASSUME NEW p \in Partitions, NEW used,
         ValidSchedule(TransferSchedule(p, used), p, BTransferBudget)
  PROVE  LET slots == TransferSchedule(p, used)
         IN  /\ slots \in Seq(Slots)
             /\ \A i \in 1 .. Len(slots) :
                  CellOf(slots[i].group, slots[i].action) \in CellsOf(p)
<1> DEFINE remaining == [c \in CellsOf(p) |-> RemainingMembers(p, used, c)]
           V == {n \in Visits(p) : Visit(p, n).round < Cardinality(remaining[Visit(p, n).cell])}
           visits == FirstOf(V, BTransferBudget)
           slots == TransferSchedule(p, used)
<1>1. slots = [i \in DOMAIN visits |->
                Slot(NthOf(remaining[Visit(p, visits[i]).cell], Visit(p, visits[i]).round),
                     Visit(p, visits[i]).cell)]
  BY DEF TransferSchedule
<1>2. DOMAIN visits = 1 .. Len(visits) /\ Len(visits) \in Nat
  BY VisitsOfWalk, ProtocolConstants
<1> HIDE DEF visits, remaining
<1>3. /\ DOMAIN slots = 1 .. Len(visits)
      /\ slots = [i \in 1 .. Len(visits) |-> slots[i]]
      /\ \A i \in 1 .. Len(visits) :
           slots[i] = [entity |-> slots[i].entity, action |-> slots[i].action,
                       group |-> slots[i].group]
  BY <1>1, <1>2 DEF Slot
<1> QED
  BY <1>2, <1>3, ValidScheduleType, ProtocolConstants

\* A lookup cell has a value exactly when it is defined.
LEMMA LookupCellType ==
  ASSUME NEW outcomes \in SUBSET Actions
  PROVE  LookupCell(outcomes) \in LookupCells
<1>1. None \notin Actions
  BY ProtocolConstants
<1>2. CASE outcomes # {} /\ Cardinality(outcomes) = 1
  <2>1. NthOf(outcomes, 0) \in Actions
    BY <1>2, ActionSubsets, FirstIsElement
  <2> QED
    BY <1>2, <2>1 DEF LookupCell, LookupCells, Statuses
<1>3. CASE outcomes = {} \/ Cardinality(outcomes) # 1
  BY <1>1, <1>3 DEF LookupCell, LookupCells, Statuses
<1> QED
  BY <1>2, <1>3

\* build_b_lookup fills every cell of the partition and no other.
LEMMA BLookupType ==
  ASSUME NEW slots \in Seq(Slots), NEW ys \in Seq(Actions), Len(ys) = Len(slots),
         NEW p \in Partitions
  PROVE  /\ DOMAIN BLookup(slots, ys, p) = CellsOf(p)
         /\ \A c \in CellsOf(p) : BLookup(slots, ys, p)[c] \in LookupCells
<1>1. ASSUME NEW c \in CellsOf(p)
      PROVE  LookupCell(CellOutcomes(slots, ys, c)) \in LookupCells
  <2>1. CellOutcomes(slots, ys, c) \in SUBSET Actions
    BY DEF CellOutcomes
  <2> QED
    BY <2>1, LookupCellType
<1> QED
  BY <1>1 DEF BLookup

\* build_transfer_predictions predicts once for each slot.
LEMMA TransferPredictionsType ==
  ASSUME NEW slots \in Seq(Slots), NEW cells,
         \A i \in 1 .. Len(slots) :
           cells[CellOf(slots[i].group, slots[i].action)] \in LookupCells
  PROVE  TransferPredictions(slots, cells) \in Seq(Predictions)
<1> DEFINE cell(i) == cells[CellOf(slots[i].group, slots[i].action)]
           prediction(i) ==
             [entity |-> slots[i].entity, action |-> slots[i].action,
              group |-> slots[i].group, status |-> cell(i).status,
              predicted |-> IF cell(i).status = "defined" THEN cell(i).predicted ELSE None]
<1>1. ASSUME NEW i \in 1 .. Len(slots)
      PROVE  prediction(i) \in Predictions
  <2>1. slots[i] \in Slots
    OBVIOUS
  <2>2. cell(i).status \in Statuses
        /\ (cell(i).status = "defined" => cell(i).predicted \in Actions)
    BY DEF LookupCells
  <2> HIDE DEF cell
  <2> QED
    BY <2>1, <2>2 DEF Slots, Predictions
<1>2. TransferPredictions(slots, cells) = [i \in 1 .. Len(slots) |-> prediction(i)]
  BY DEF TransferPredictions
<1> HIDE DEF prediction
<1>3. TransferPredictions(slots, cells) \in [1 .. Len(slots) -> Predictions]
  BY <1>1, <1>2
<1> QED
  BY <1>3

\* score_transfer and the inconsistency count are numbers of slots and of cells.
LEMMA ScoreType ==
  ASSUME NEW ys \in Seq(Actions), NEW plan
  PROVE  Score(plan, ys) \in Nat
<1> DEFINE hits == {i \in DOMAIN ys : /\ plan[i].status = "defined"
                                      /\ plan[i].predicted = ys[i]}
<1>1. IsFiniteSet(1 .. Len(ys))
  BY FS_Interval
<1>2. hits \in SUBSET (1 .. Len(ys))
  OBVIOUS
<1>3. IsFiniteSet(hits)
  BY <1>1, <1>2, FS_Subset
<1> HIDE DEF hits
<1>4. Cardinality(hits) \in Nat
  BY <1>3, FS_CardinalityType
<1> QED
  BY <1>4 DEF Score, hits

LEMMA InconsistentCellsType ==
  ASSUME NEW cells, DOMAIN cells \subseteq 0 .. MaxGroups * NumActions - 1
  PROVE  Cardinality(InconsistentCells(cells)) \in Nat
<1>1. MaxGroups * NumActions \in Nat
  BY ProtocolConstants
<1>2. IsFiniteSet(0 .. MaxGroups * NumActions - 1)
  BY <1>1, FS_Interval
<1>3. InconsistentCells(cells) \in SUBSET (0 .. MaxGroups * NumActions - 1)
  BY DEF InconsistentCells
<1> QED
  BY <1>2, <1>3, FS_Subset, FS_CardinalityType
-------------------------------------------------------------------------------
(* Coverage: the first round of a walk visits every cell, so each schedule *)
(* has a slot for every cell of the partition.                             *)

\* A number is built from one quotient and one remainder only.
LEMMA UniqueQuotient ==
  ASSUME NEW n \in Nat \ {0}, NEW q \in Nat, NEW r \in 0 .. n - 1
  PROVE  (q * n + r) \div n = q /\ (q * n + r) % n = r
<1> DEFINE c == q * n + r
           d == c \div n
           m == c % n
<1>1. q * n \in Nat /\ c \in Nat
  OBVIOUS
<1>2. c = n * d + m /\ m \in 0 .. n - 1 /\ d \in Nat
  BY <1>1
<1>3. c = q * n + r
  OBVIOUS
<1> HIDE DEF c, d, m
<1>4. \A x, y \in Nat : x < y => x * n + n <= y * n
  <2> SUFFICES ASSUME NEW x \in Nat, NEW y \in Nat, x < y
               PROVE  x * n + n <= y * n
    OBVIOUS
  <2>1. PICK k \in Nat : y = x + 1 + k
    <3>1. y - x - 1 \in Nat /\ y = x + 1 + (y - x - 1)
      OBVIOUS
    <3> QED
      BY <3>1
  <2>2. y * n = x * n + n + k * n /\ k * n \in Nat
    BY <2>1
  <2> QED
    BY <2>2
<1>5. n * d = d * n /\ d * n \in Nat
  BY <1>2
<1>6. ~ (q < d) /\ ~ (d < q)
  BY <1>1, <1>2, <1>3, <1>4, <1>5
<1>7. q = d
  BY <1>2, <1>6
<1>8. m = r
  BY <1>1, <1>2, <1>3, <1>5, <1>7
<1> QED
  BY <1>7, <1>8 DEF c, d, m

\* A cell names its group and its action.
LEMMA CellOfParts ==
  ASSUME NEW g \in Nat, NEW a \in Actions
  PROVE  GroupOfCell(CellOf(g, a)) = g /\ ActionOfCell(CellOf(g, a)) = a
BY UniqueQuotient, ProtocolConstants DEF CellOf, GroupOfCell, ActionOfCell, Actions

\* While a set has no gap, its elements come in counting order.
LEMMA NthOfInitial ==
  ASSUME NEW S \in SUBSET Nat, IsFiniteSet(S), NEW k \in Nat, (0 .. k) \subseteq S
  PROVE  k \in 0 .. Cardinality(S) - 1 /\ NthOf(S, k) = k
<1>1. k \in S /\ S \in SUBSET Int
  OBVIOUS
<1>2. {d \in S : d < k} = 0 .. k - 1
  <2>1. \A d \in S : d < k <=> d \in 0 .. k - 1
    OBVIOUS
  <2>2. \A d \in 0 .. k - 1 : d \in S
    OBVIOUS
  <2> QED
    BY <2>1, <2>2
<1>3. Cardinality(0 .. k - 1) = k
  BY FS_Interval
<1>4. Cardinality({d \in S : d < k}) = k /\ k \in 0 .. Cardinality(S) - 1
  BY <1>1, <1>2, <1>3, RankBound
<1> DEFINE e == NthOf(S, k)
<1>5. e \in S /\ Cardinality({d \in S : d < e}) = k
  BY <1>1, <1>4, NthOfIsElement
<1> HIDE DEF e
<1>6. e < k => Cardinality({d \in S : d < e}) < Cardinality({d \in S : d < k})
  BY <1>1, <1>5, RankGrows
<1>7. k < e => Cardinality({d \in S : d < k}) < Cardinality({d \in S : d < e})
  BY <1>1, <1>5, RankGrows
<1>8. e = k
  BY <1>1, <1>4, <1>5, <1>6, <1>7
<1> QED
  BY <1>4, <1>8 DEF e

LEMMA FirstOfInitial ==
  ASSUME NEW S \in SUBSET Nat, IsFiniteSet(S), NEW n \in Nat, NEW k \in Nat, k < n,
         (0 .. k) \subseteq S
  PROVE  k + 1 \in DOMAIN FirstOf(S, n) /\ FirstOf(S, n)[k + 1] = k
<1>1. k \in 0 .. Cardinality(S) - 1 /\ NthOf(S, k) = k
  BY NthOfInitial
<1>2. Cardinality(S) \in Nat
  BY FS_CardinalityType
<1>3. k + 1 \in 1 .. (IF Cardinality(S) < n THEN Cardinality(S) ELSE n) /\ k + 1 - 1 = k
  BY <1>1, <1>2
<1> QED
  BY <1>1, <1>3 DEF FirstOf

\* Round 0 of a walk visits the cells in order.
LEMMA FirstRound ==
  ASSUME NEW p \in Partitions, NEW c \in CellsOf(p)
  PROVE  /\ c \in Visits(p) /\ c \in Nat
         /\ Visit(p, c).round = 0 /\ Visit(p, c).cell = c
         /\ c < BCalibrationBudget /\ c < BTransferBudget
         /\ \A d \in 0 .. c : d \in CellsOf(p)
<1> DEFINE n == NumCells(p)
<1>1. n \in Nat /\ c \in 0 .. n - 1
  BY CellBounds DEF CellsOf
<1>2. CellsOf(p) = 0 .. n - 1
  BY DEF CellsOf
<1>3. c \in 0 .. MaxGroups * NumActions - 1
  BY CellBounds
<1> HIDE DEF n
<1>4. n # 0 /\ 0 * n + c = c
  BY <1>1
<1>5. c \div n = 0 /\ c % n = c
  BY <1>1, <1>4, UniqueQuotient
<1>6. c < BCalibrationBudget /\ c < BTransferBudget
  <2>1. /\ MaxGroups * NumActions \in Nat /\ MaxGroups * NumActions <= BCalibrationBudget
        /\ MaxGroups * NumActions <= BTransferBudget
        /\ BCalibrationBudget \in Nat /\ BTransferBudget \in Nat
    BY ProtocolConstants
  <2> QED
    BY <1>3, <2>1
<1>7. c \in 0 .. NumEntities * n - 1
  <2>1. NumEntities \in Nat /\ NumEntities >= 1
    BY ProtocolConstants
  <2>2. PICK k \in Nat : NumEntities = k + 1
    <3>1. NumEntities - 1 \in Nat /\ NumEntities = NumEntities - 1 + 1
      BY <2>1
    <3> QED
      BY <3>1
  <2>3. NumEntities * n = k * n + n /\ k * n \in Nat
    BY <1>1, <2>2
  <2> QED
    BY <1>1, <2>3
<1>8. \A d \in 0 .. c : d \in 0 .. n - 1
  BY <1>1
<1> QED
  BY <1>1, <1>2, <1>5, <1>6, <1>7, <1>8 DEF Visit, Visits, n

\* A walk that skips no cell in its first round has a visit of every cell.
LEMMA WalkCovers ==
  ASSUME NEW p \in Partitions, NEW V \in SUBSET Visits(p), CellsOf(p) \subseteq V,
         NEW n \in Nat, NEW c \in CellsOf(p), c < n
  PROVE  c + 1 \in DOMAIN FirstOf(V, n) /\ Visit(p, FirstOf(V, n)[c + 1]).cell = c
<1>1. NumEntities \in Nat /\ NumCells(p) \in Nat
  BY ProtocolConstants, CellBounds
<1>2. NumEntities * NumCells(p) \in Nat
  BY <1>1
<1>3. Visits(p) \subseteq Nat /\ IsFiniteSet(Visits(p))
  <2> DEFINE k == NumEntities * NumCells(p)
  <2>1. k \in Nat /\ Visits(p) = 0 .. k - 1
    BY <1>2 DEF Visits
  <2> HIDE DEF k
  <2>2. (0 .. k - 1) \subseteq Nat /\ IsFiniteSet(0 .. k - 1)
    BY <2>1, FS_Interval
  <2> QED
    BY <2>1, <2>2
<1>4. V \in SUBSET Nat /\ IsFiniteSet(V)
  BY <1>3, FS_Subset
<1>5. c \in Nat /\ (0 .. c) \subseteq V /\ Visit(p, c).cell = c
  BY FirstRound
<1>6. c + 1 \in DOMAIN FirstOf(V, n) /\ FirstOf(V, n)[c + 1] = c
  BY <1>4, <1>5, FirstOfInitial
<1> QED
  BY <1>5, <1>6

\* Slots of a valid schedule with one for every cell: each group is scheduled
\* with each action.
Covers(slots, p) ==
  \A g \in GroupsOf(p), a \in Actions :
    \E i \in DOMAIN slots : slots[i].group = g /\ slots[i].action = a

\* Every cell is calibrated.
LEMMA CalibrationCovers ==
  ASSUME NEW p \in Partitions
  PROVE  Covers(CalibrationSchedule(p), p)
<1> DEFINE members(n) == MembersOf(p, GroupOfCell(Visit(p, n).cell))
           V == {n \in Visits(p) : Calibratable(Visit(p, n).round, Cardinality(members(n)))}
           visits == FirstOf(V, BCalibrationBudget)
           slots == CalibrationSchedule(p)
<1> SUFFICES ASSUME NEW g \in GroupsOf(p), NEW a \in Actions
             PROVE  \E i \in DOMAIN slots : slots[i].group = g /\ slots[i].action = a
  BY DEF Covers
<1> DEFINE c == CellOf(g, a)
<1>1. slots = [i \in DOMAIN visits |->
                Slot(NthOf(members(visits[i]), Visit(p, visits[i]).round), Visit(p, visits[i]).cell)]
  BY DEF CalibrationSchedule
<1>2. V \in SUBSET Visits(p) /\ CellsOf(p) \subseteq V
  BY FirstRound DEF Calibratable
<1>3. c \in CellsOf(p) /\ g \in Nat
  BY CellBounds, PartitionTypes DEF GroupsOf
<1>4. c < BCalibrationBudget /\ BCalibrationBudget \in Nat
  BY <1>3, FirstRound, ProtocolConstants
<1>5. GroupOfCell(c) = g /\ ActionOfCell(c) = a
  BY <1>3, CellOfParts
<1> HIDE DEF c, V
<1>6. c + 1 \in DOMAIN visits /\ Visit(p, visits[c + 1]).cell = c
  BY <1>2, <1>3, <1>4, WalkCovers
<1> HIDE DEF visits, members
<1>7. slots[c + 1].group = g /\ slots[c + 1].action = a /\ c + 1 \in DOMAIN slots
  BY <1>1, <1>5, <1>6 DEF Slot
<1> QED
  BY <1>7

\* Every cell with a remaining member is tested.
LEMMA TransferCovers ==
  ASSUME NEW p \in Partitions, NEW used,
         \A c \in CellsOf(p) : RemainingMembers(p, used, c) # {}
  PROVE  Covers(TransferSchedule(p, used), p)
<1> DEFINE remaining == [c \in CellsOf(p) |-> RemainingMembers(p, used, c)]
           V == {n \in Visits(p) : Visit(p, n).round < Cardinality(remaining[Visit(p, n).cell])}
           visits == FirstOf(V, BTransferBudget)
           slots == TransferSchedule(p, used)
<1> SUFFICES ASSUME NEW g \in GroupsOf(p), NEW a \in Actions
             PROVE  \E i \in DOMAIN slots : slots[i].group = g /\ slots[i].action = a
  BY DEF Covers
<1> DEFINE c == CellOf(g, a)
<1>1. slots = [i \in DOMAIN visits |->
                Slot(NthOf(remaining[Visit(p, visits[i]).cell], Visit(p, visits[i]).round),
                     Visit(p, visits[i]).cell)]
  BY DEF TransferSchedule
<1>2. V \in SUBSET Visits(p) /\ CellsOf(p) \subseteq V
  <2>1. ASSUME NEW d \in CellsOf(p)
        PROVE  d \in V
    <3>1. d \in Visits(p) /\ Visit(p, d).round = 0 /\ Visit(p, d).cell = d
      BY FirstRound
    <3>2. RemainingMembers(p, used, d) \in SUBSET Entities /\ RemainingMembers(p, used, d) # {}
      BY DEF RemainingMembers, MembersOf
    <3>3. /\ Cardinality(RemainingMembers(p, used, d)) \in Nat
          /\ Cardinality(RemainingMembers(p, used, d)) # 0
      BY <3>2, EntitySubsets, FS_CardinalityType, FS_EmptySet
    <3> QED
      BY <3>1, <3>3
  <2> QED
    BY <2>1
<1>3. c \in CellsOf(p) /\ g \in Nat
  BY CellBounds, PartitionTypes DEF GroupsOf
<1>4. c < BTransferBudget /\ BTransferBudget \in Nat
  BY <1>3, FirstRound, ProtocolConstants
<1>5. GroupOfCell(c) = g /\ ActionOfCell(c) = a
  BY <1>3, CellOfParts
<1> HIDE DEF c, V
<1>6. c + 1 \in DOMAIN visits /\ Visit(p, visits[c + 1]).cell = c
  BY <1>2, <1>3, <1>4, WalkCovers
<1> HIDE DEF visits, remaining
<1>7. slots[c + 1].group = g /\ slots[c + 1].action = a /\ c + 1 \in DOMAIN slots
  BY <1>1, <1>5, <1>6 DEF Slot
<1> QED
  BY <1>7

\* A cell with outcomes predicts y exactly when each of them is y.
LEMMA LookupIsUnanimous ==
  ASSUME NEW outcomes \in SUBSET Actions, outcomes # {}, NEW y \in Actions
  PROVE  /\ LookupCell(outcomes).status = "defined"
         /\ LookupCell(outcomes).predicted = y
         <=> \A o \in outcomes : o = y
<1> DEFINE v == NthOf(outcomes, 0)
<1>1. IsFiniteSet(outcomes) /\ v \in outcomes
  BY ActionSubsets, FirstIsElement
<1>2. Cardinality(outcomes) = 1 <=> \E x : outcomes = {x}
  BY <1>1, FS_Singleton
<1> HIDE DEF v
<1>3. CASE Cardinality(outcomes) = 1
  <2>1. /\ LookupCell(outcomes).status = "defined"
        /\ LookupCell(outcomes).predicted = v
    BY <1>3 DEF LookupCell, v
  <2>2. outcomes = {v}
    BY <1>1, <1>2, <1>3
  <2> QED
    BY <2>1, <2>2
<1>4. CASE Cardinality(outcomes) # 1
  <2>1. LookupCell(outcomes).status # "defined"
    BY <1>4 DEF LookupCell
  <2>2. ~ \A o \in outcomes : o = y
    <3>1. (\A o \in outcomes : o = y) => outcomes = {y}
      OBVIOUS
    <3> QED
      BY <1>2, <1>4, <3>1
  <2> QED
    BY <2>1, <2>2
<1> QED
  BY <1>3, <1>4

\* A cell predicts y for an entity and an action exactly when every calibration
\* outcome of a member of its group, with this action, was y.
Unanimity(cell, slots, ys, p, e, a, y) ==
  cell.status = "defined" /\ cell.predicted = y
  <=> \A j \in DOMAIN slots :
        slots[j].action = a /\ p.entity_group[slots[j].entity] = p.entity_group[e] => ys[j] = y

LEMMA PredictionIsUnanimous ==
  ASSUME NEW p \in Partitions, NEW slots \in Seq(Slots), NEW n,
         ValidSchedule(slots, p, n), Covers(slots, p),
         NEW ys \in Seq(Actions), Len(ys) = Len(slots)
  PROVE  \A e \in Entities, a \in Actions, y \in Actions :
           Unanimity(BLookup(slots, ys, p)[CellOf(p.entity_group[e], a)], slots, ys, p, e, a, y)
<1> TAKE e \in Entities, a \in Actions, y \in Actions
<1> DEFINE cell == BLookup(slots, ys, p)[CellOf(p.entity_group[e], a)]
<1> DEFINE g == p.entity_group[e]
           c == CellOf(g, a)
           same == {j \in DOMAIN slots : slots[j].group = g /\ slots[j].action = a}
           outcomes == CellOutcomes(slots, ys, c)
<1>1. g \in GroupsOf(p) /\ g \in Nat
  BY PartitionTypes DEF GroupsOf
<1>2. c \in CellsOf(p) /\ GroupOfCell(c) = g /\ ActionOfCell(c) = a
  BY <1>1, CellBounds, CellOfParts
<1>3. ASSUME NEW j \in DOMAIN slots
      PROVE  /\ slots[j].group \in Nat /\ slots[j].action \in Actions
             /\ slots[j].group = p.entity_group[slots[j].entity]
             /\ ys[j] \in Actions
  <2>1. slots[j] \in Slots /\ j \in 1 .. Len(ys)
    OBVIOUS
  <2> QED
    BY <2>1 DEF Slots, ValidSchedule
<1> HIDE DEF g, c
<1>4. \A j \in DOMAIN slots :
        CellOf(slots[j].group, slots[j].action) = c <=> slots[j].group = g /\ slots[j].action = a
  <2> SUFFICES ASSUME NEW j \in DOMAIN slots
               PROVE  CellOf(slots[j].group, slots[j].action) = c
                        <=> slots[j].group = g /\ slots[j].action = a
    OBVIOUS
  <2>1. /\ GroupOfCell(CellOf(slots[j].group, slots[j].action)) = slots[j].group
        /\ ActionOfCell(CellOf(slots[j].group, slots[j].action)) = slots[j].action
    BY <1>3, CellOfParts
  <2> QED
    BY <1>2, <2>1 DEF c
<1>5. outcomes = {ys[j] : j \in same}
  BY <1>4 DEF CellOutcomes
<1>6. outcomes \in SUBSET Actions
  BY <1>3, <1>5
<1>7. outcomes # {}
  <2>1. PICK j \in DOMAIN slots : slots[j].group = g /\ slots[j].action = a
    BY <1>1 DEF Covers
  <2> QED
    BY <1>5, <2>1
<1>8. cell = LookupCell(outcomes)
  BY <1>2 DEF BLookup, c, g
<1> HIDE DEF cell
<1> HIDE DEF outcomes
<1>9. (\A o \in outcomes : o = y) <=> \A j \in same : ys[j] = y
  BY <1>5
<1>10. (\A j \in same : ys[j] = y)
         <=> \A j \in DOMAIN slots :
               slots[j].action = a /\ p.entity_group[slots[j].entity] = g => ys[j] = y
  BY <1>3
<1>11. LookupCell(outcomes).status = "defined" /\ LookupCell(outcomes).predicted = y
         <=> \A o \in outcomes : o = y
  BY <1>6, <1>7, LookupIsUnanimous
<1> QED
  BY <1>8, <1>9, <1>10, <1>11 DEF cell, g, Unanimity

-------------------------------------------------------------------------------
(* Walks: a set V of visits, of which the loops have passed those below k.  *)

VisitsBelow(V, k) == {n \in V : n < k}
Walked(V, k) == FirstOf(V, Cardinality(VisitsBelow(V, k)))

LEMMA InitialSegment ==
  ASSUME NEW k \in Nat
  PROVE  IsFiniteSet(0 .. k - 1) /\ Cardinality(0 .. k - 1) = k
BY FS_Interval

\* An element is found again at its own rank.
LEMMA NthOfRank ==
  ASSUME NEW S \in SUBSET Int, IsFiniteSet(S), NEW e \in S
  PROVE  /\ Cardinality({d \in S : d < e}) \in 0 .. Cardinality(S) - 1
         /\ NthOf(S, Cardinality({d \in S : d < e})) = e
<1> DEFINE k == Cardinality({d \in S : d < e})
           f == NthOf(S, k)
<1>1. k \in 0 .. Cardinality(S) - 1
  BY RankBound
<1>2. f \in S /\ Cardinality({d \in S : d < f}) = k
  BY <1>1, NthOfIsElement
<1> HIDE DEF f
<1>3. e < f => Cardinality({d \in S : d < e}) < Cardinality({d \in S : d < f})
  BY <1>2, RankGrows
<1>4. f < e => Cardinality({d \in S : d < f}) < Cardinality({d \in S : d < e})
  BY <1>2, RankGrows
<1>5. f = e
  <2> HIDE DEF k
  <2>1. k \in Int
    BY <1>1
  <2>2. ~(e < f) /\ ~(f < e)
    BY <1>2, <1>3, <1>4, <2>1 DEF k
  <2> QED
    BY <1>2, <2>2
<1> QED
  BY <1>1, <1>5 DEF f

LEMMA BeforeType ==
  ASSUME NEW V \in SUBSET Nat, IsFiniteSet(V), NEW k \in Nat
  PROVE  /\ IsFiniteSet(VisitsBelow(V, k)) /\ Cardinality(VisitsBelow(V, k)) \in Nat
         /\ Cardinality(VisitsBelow(V, k)) <= Cardinality(V) /\ Cardinality(V) \in Nat
<1>1. VisitsBelow(V, k) \in SUBSET V
  BY DEF VisitsBelow
<1> QED
  BY <1>1, FS_Subset, FS_CardinalityType

\* The visits passed, one position each.
LEMMA WalkedPositions ==
  ASSUME NEW V \in SUBSET Nat, IsFiniteSet(V), NEW k \in Nat
  PROVE  LET m == Cardinality(VisitsBelow(V, k))
         IN  /\ m \in Nat /\ Walked(V, k) = [i \in 1 .. m |-> NthOf(V, i - 1)]
             /\ \A i \in 1 .. m : i - 1 \in 0 .. Cardinality(V) - 1
             /\ \A i \in 1 .. m : NthOf(V, i - 1) \in V
<1> DEFINE m == Cardinality(VisitsBelow(V, k))
<1>1. m \in Nat /\ m <= Cardinality(V) /\ Cardinality(V) \in Nat
  BY BeforeType
<1> HIDE DEF m
<1>2. (IF Cardinality(V) < m THEN Cardinality(V) ELSE m) = m
  BY <1>1
<1>3. FirstOf(V, m) = [i \in 1 .. m |-> NthOf(V, i - 1)]
  BY <1>2 DEF FirstOf
<1>4. \A i \in 1 .. m : i - 1 \in 0 .. Cardinality(V) - 1
  BY <1>1
<1>5. \A i \in 0 .. Cardinality(V) - 1 : NthOf(V, i) \in V
  <2>1. V \in SUBSET Int
    OBVIOUS
  <2> QED
    BY <2>1, NthOfIsElement
<1> QED
  BY <1>1, <1>3, <1>4, <1>5 DEF Walked, m

\* Nothing is passed at the start; a number that is no visit adds nothing.
LEMMA WalkSkips ==
  ASSUME NEW V \in SUBSET Nat, NEW k \in Nat, k \notin V
  PROVE  VisitsBelow(V, k + 1) = VisitsBelow(V, k)
<1>1. \A n \in V : n < k + 1 <=> n < k
  OBVIOUS
<1> QED
  BY <1>1 DEF VisitsBelow

LEMMA WalkTakes ==
  ASSUME NEW V \in SUBSET Nat, IsFiniteSet(V), NEW k \in V
  PROVE  /\ Cardinality(VisitsBelow(V, k + 1)) = Cardinality(VisitsBelow(V, k)) + 1
         /\ NthOf(V, Cardinality(VisitsBelow(V, k))) = k
<1>1. VisitsBelow(V, k + 1) = VisitsBelow(V, k) \cup {k}
  <2>1. \A n \in V : n < k + 1 <=> n < k \/ n = k
    OBVIOUS
  <2> QED
    BY <2>1 DEF VisitsBelow
<1>2. k \notin VisitsBelow(V, k)
  BY DEF VisitsBelow
<1>3. Cardinality(VisitsBelow(V, k + 1)) = Cardinality(VisitsBelow(V, k)) + 1
  BY <1>1, <1>2, BeforeType, FS_AddElement
<1>4. NthOf(V, Cardinality(VisitsBelow(V, k))) = k
  <2>1. V \in SUBSET Int
    OBVIOUS
  <2> QED
    BY <2>1, NthOfRank DEF VisitsBelow
<1> QED
  BY <1>3, <1>4

\* A walk that has passed the whole set, or as many as a budget, is its first elements.
LEMMA WalkEnds ==
  ASSUME NEW V \in SUBSET Nat, IsFiniteSet(V), NEW k \in Nat, V \subseteq 0 .. k - 1
  PROVE  Cardinality(VisitsBelow(V, k)) = Cardinality(V)
<1>1. \A n \in V : n < k
  OBVIOUS
<1>2. VisitsBelow(V, k) = V
  BY <1>1 DEF VisitsBelow
<1> QED
  BY <1>2

-------------------------------------------------------------------------------
(* Visits of cells.                                                        *)

LEMMA VisitNumbers ==
  ASSUME NEW p \in Partitions
  PROVE  /\ NumCells(p) \in Nat \ {0} /\ NumEntities \in Nat /\ NumActions \in Nat \ {0}
         /\ NumEntities * NumCells(p) \in Nat
         /\ CellsOf(p) \subseteq Nat
         /\ Visits(p) \subseteq Nat /\ IsFiniteSet(Visits(p))
<1>1. /\ NumEntities \in Nat /\ NumActions \in Nat \ {0} /\ NumCells(p) \in Nat
      /\ p.group_count \in Nat \ {0}
  BY ProtocolConstants, CellBounds DEF Partitions
<1>2. \A g, a \in Nat \ {0} : g * a # 0
  OBVIOUS
<1>3. NumCells(p) # 0
  BY <1>1, <1>2 DEF NumCells
<1>4. NumEntities * NumCells(p) \in Nat
  BY <1>1
<1>5. \A k \in Nat : (0 .. k - 1) \subseteq Nat /\ IsFiniteSet(0 .. k - 1)
  BY FS_Interval
<1>6. CellsOf(p) \subseteq Nat
  BY <1>1, <1>5 DEF CellsOf
<1>7. Visits(p) \subseteq Nat /\ IsFiniteSet(Visits(p))
  BY <1>4, <1>5 DEF Visits
<1> QED
  BY <1>1, <1>3, <1>4, <1>6, <1>7

\* The visit of a cell in a round.
LEMMA VisitAt ==
  ASSUME NEW p \in Partitions, NEW r \in Nat, NEW c \in CellsOf(p)
  PROVE  /\ r * NumCells(p) + c \in Nat
         /\ Visit(p, r * NumCells(p) + c) = [round |-> r, cell |-> c]
         /\ r < NumEntities => r * NumCells(p) + c \in Visits(p)
<1> DEFINE n == NumCells(p)
<1>1. n \in Nat \ {0} /\ c \in 0 .. n - 1 /\ NumEntities \in Nat
  BY VisitNumbers DEF CellsOf
<1>2. Visits(p) = 0 .. NumEntities * n - 1
  BY DEF Visits
<1> HIDE DEF n
<1>3. r * n \in Nat /\ r * n + c \in Nat
  BY <1>1
<1>4. (r * n + c) \div n = r /\ (r * n + c) % n = c
  BY <1>1, UniqueQuotient
<1>5. ASSUME r < NumEntities
      PROVE  r * n + c \in 0 .. NumEntities * n - 1
  <2>1. PICK k \in Nat : NumEntities = r + 1 + k
    <3>1. NumEntities - r - 1 \in Nat /\ NumEntities = r + 1 + (NumEntities - r - 1)
      BY <1>1, <1>5
    <3> QED
      BY <3>1
  <2>2. k * n \in Nat /\ NumEntities * n = r * n + n + k * n
    BY <1>1, <2>1
  <2> QED
    BY <1>1, <1>3, <2>2
<1> QED
  BY <1>2, <1>3, <1>4, <1>5 DEF Visit, n

\* Every visit is one of those.
LEMMA VisitParts ==
  ASSUME NEW p \in Partitions, NEW n \in Visits(p)
  PROVE  /\ Visit(p, n).cell \in CellsOf(p) /\ Visit(p, n).round \in 0 .. NumEntities - 1
         /\ n = Visit(p, n).round * NumCells(p) + Visit(p, n).cell
<1> DEFINE k == NumCells(p)
           r == n \div k
           c == n % k
<1>1. k \in Nat \ {0} /\ NumEntities \in Nat /\ n \in 0 .. NumEntities * k - 1 /\ n \in Nat
  BY VisitNumbers DEF Visits
<1>2. CellsOf(p) = 0 .. k - 1
  BY DEF CellsOf
<1>3. Visit(p, n) = [round |-> r, cell |-> c]
  BY DEF Visit
<1> HIDE DEF k
<1>4. n = k * r + c /\ c \in 0 .. k - 1 /\ r \in Nat
  BY <1>1
<1> HIDE DEF r, c
<1>5. n = r * k + c
  BY <1>1, <1>4
<1>6. r < NumEntities
  <2> SUFFICES ASSUME r >= NumEntities
               PROVE  FALSE
    BY <1>1, <1>4
  <2>1. PICK d \in Nat : r = NumEntities + d
    <3>1. r - NumEntities \in Nat /\ r = NumEntities + (r - NumEntities)
      BY <1>1, <1>4
    <3> QED
      BY <3>1
  <2>2. d * k \in Nat /\ NumEntities * k \in Nat /\ r * k = NumEntities * k + d * k
    BY <1>1, <2>1
  <2> QED
    BY <1>1, <1>4, <1>5, <2>2
<1> QED
  BY <1>1, <1>2, <1>3, <1>4, <1>5, <1>6 DEF k

LEMMA CellRecovered ==
  ASSUME NEW c \in Nat
  PROVE  CellOf(GroupOfCell(c), ActionOfCell(c)) = c
<1> DEFINE n == NumActions
<1>1. n \in Nat \ {0}
  BY ProtocolConstants
<1> HIDE DEF n
<1>2. c = n * (c \div n) + (c % n) /\ c \div n \in Nat
  BY <1>1
<1>3. \A q \in Nat : n * q = q * n
  BY <1>1
<1>4. c = (c \div n) * n + (c % n)
  BY <1>2, <1>3
<1> QED
  BY <1>4 DEF CellOf, GroupOfCell, ActionOfCell, n

-------------------------------------------------------------------------------
(* The slots of a walk.  M gives each cell the members it may be tested on, *)
(* all of its group; a walk visits a cell in a round only while M has a     *)
(* member for the round.                                                    *)

Walks(p, M, V) ==
  /\ M \in [CellsOf(p) -> SUBSET Entities]
  /\ \A c \in CellsOf(p) : M[c] \subseteq MembersOf(p, GroupOfCell(c))
  /\ V \in SUBSET Visits(p)
  /\ \A n \in V : Visit(p, n).round < Cardinality(M[Visit(p, n).cell])

SlotAt(p, M, n) == Slot(NthOf(M[Visit(p, n).cell], Visit(p, n).round), Visit(p, n).cell)

\* The slots of the visits below k, in order.
Laid(p, M, V, k) ==
  [i \in DOMAIN Walked(V, k) |-> SlotAt(p, M, Walked(V, k)[i])]

\* A visit tests the member whose rank is the round.
LEMMA SlotOfVisit ==
  ASSUME NEW p \in Partitions, NEW M, NEW V, Walks(p, M, V), NEW n \in V
  PROVE  LET s == SlotAt(p, M, n)
             v == Visit(p, n)
         IN  /\ s \in Slots
             /\ s.entity \in M[v.cell] /\ s.action = ActionOfCell(v.cell)
             /\ s.group = GroupOfCell(v.cell) /\ p.entity_group[s.entity] = s.group
             /\ Cardinality({d \in M[v.cell] : d < s.entity}) = v.round
<1> DEFINE v == Visit(p, n)
           S == M[v.cell]
           e == NthOf(S, v.round)
           s == SlotAt(p, M, n)
<1>1. n \in Visits(p) /\ v.round < Cardinality(S)
  BY DEF Walks
<1>2. v.cell \in CellsOf(p) /\ v.round \in Nat
  BY <1>1, VisitParts, VisitNumbers
<1>3. S \in SUBSET Entities /\ S \subseteq MembersOf(p, GroupOfCell(v.cell))
  BY <1>2 DEF Walks
<1>4. S \in SUBSET Int /\ IsFiniteSet(S)
  BY <1>3, EntitySubsets
<1>5. Cardinality(S) \in Nat
  BY <1>4, FS_CardinalityType
<1>6. v.round \in 0 .. Cardinality(S) - 1
  BY <1>1, <1>2, <1>5
<1>7. s = [entity |-> e, action |-> ActionOfCell(v.cell), group |-> GroupOfCell(v.cell)]
  BY DEF SlotAt, Slot
<1> HIDE DEF S
<1>8. e \in S /\ Cardinality({d \in S : d < e}) = v.round
  BY <1>4, <1>6, NthOfIsElement
<1>9. GroupOfCell(v.cell) \in Nat /\ ActionOfCell(v.cell) \in Actions
  BY <1>2, VisitNumbers, CellParts
<1>10. e \in Entities /\ p.entity_group[e] = GroupOfCell(v.cell)
  BY <1>3, <1>8 DEF MembersOf
<1> HIDE DEF e, s, v
<1>11. s \in Slots
  BY <1>7, <1>9, <1>10 DEF Slots
<1>12. s.entity = e /\ s.action = ActionOfCell(v.cell) /\ s.group = GroupOfCell(v.cell)
  BY <1>7
<1> QED
  BY <1>8, <1>10, <1>11, <1>12 DEF S, s, v

\* Two visits never test the same entity with the same action.
LEMMA VisitsDiffer ==
  ASSUME NEW p \in Partitions, NEW M, NEW V, Walks(p, M, V), NEW n \in V, NEW m \in V,
         SlotAt(p, M, n).entity = SlotAt(p, M, m).entity,
         SlotAt(p, M, n).action = SlotAt(p, M, m).action
  PROVE  n = m
<1>1. n \in Visits(p) /\ m \in Visits(p)
  BY DEF Walks
<1> DEFINE at(k) == Visit(p, k)
<1>2. \A k \in V : /\ p.entity_group[SlotAt(p, M, k).entity] = GroupOfCell(at(k).cell)
                    /\ SlotAt(p, M, k).action = ActionOfCell(at(k).cell)
                    /\ Cardinality({d \in M[at(k).cell] : d < SlotAt(p, M, k).entity}) = at(k).round
  <2> SUFFICES ASSUME NEW k \in V
               PROVE  /\ p.entity_group[SlotAt(p, M, k).entity] = GroupOfCell(at(k).cell)
                      /\ SlotAt(p, M, k).action = ActionOfCell(at(k).cell)
                      /\ Cardinality({d \in M[at(k).cell] : d < SlotAt(p, M, k).entity})
                           = at(k).round
    OBVIOUS
  <2> QED
    BY SlotOfVisit
<1> HIDE DEF at
<1>3. at(n).cell \in Nat /\ at(m).cell \in Nat
  BY <1>1, VisitParts, VisitNumbers DEF at
<1>4. at(n).cell = at(m).cell
  <2>1. /\ GroupOfCell(at(n).cell) = GroupOfCell(at(m).cell)
        /\ ActionOfCell(at(n).cell) = ActionOfCell(at(m).cell)
    BY <1>2
  <2> QED
    BY <1>3, <2>1, CellRecovered
<1>5. at(n).round = at(m).round
  BY <1>2, <1>4
<1> QED
  BY <1>1, <1>4, <1>5, VisitParts DEF at

LEMMA WalkVisits ==
  ASSUME NEW p \in Partitions, NEW M, NEW V, Walks(p, M, V)
  PROVE  V \in SUBSET Nat /\ IsFiniteSet(V) /\ V \subseteq Visits(p)
BY VisitNumbers, FS_Subset DEF Walks

\* What has been laid out: one slot per visit below k, none twice.
LEMMA LaidSlots ==
  ASSUME NEW p \in Partitions, NEW M, NEW V, Walks(p, M, V), NEW k \in Nat
  PROVE  LET m == Cardinality(VisitsBelow(V, k))
             s == Laid(p, M, V, k)
         IN  /\ m \in Nat /\ s \in Seq(Slots) /\ Len(s) = m /\ DOMAIN s = 1 .. m
             /\ \A i \in 1 .. m : s[i] = SlotAt(p, M, NthOf(V, i - 1)) /\ NthOf(V, i - 1) \in V
<1> DEFINE m == Cardinality(VisitsBelow(V, k))
           s == Laid(p, M, V, k)
           at(i) == NthOf(V, i - 1)
<1>1. V \in SUBSET Nat /\ IsFiniteSet(V)
  BY WalkVisits
<1>2. /\ m \in Nat /\ Walked(V, k) = [i \in 1 .. m |-> at(i)]
      /\ \A i \in 1 .. m : at(i) \in V
  BY <1>1, WalkedPositions
<1> HIDE DEF m, at
<1>3. DOMAIN Walked(V, k) = 1 .. m /\ \A i \in 1 .. m : Walked(V, k)[i] = at(i)
  BY <1>2
<1>4. s = [i \in 1 .. m |-> SlotAt(p, M, at(i))]
  BY <1>3 DEF Laid
<1> HIDE DEF s
<1>5. \A n \in V : SlotAt(p, M, n) \in Slots
  BY SlotOfVisit
<1>6. s \in [1 .. m -> Slots]
  BY <1>2, <1>4, <1>5
<1>7. s \in Seq(Slots) /\ Len(s) = m
  BY <1>2, <1>6
<1> QED
  BY <1>2, <1>4, <1>7 DEF m, s, at

LEMMA PositionsDiffer ==
  ASSUME NEW V \in SUBSET Nat, IsFiniteSet(V), NEW k \in Nat,
         NEW i \in 1 .. Cardinality(VisitsBelow(V, k)), NEW j \in 1 .. Cardinality(VisitsBelow(V, k)),
         NthOf(V, i - 1) = NthOf(V, j - 1)
  PROVE  i = j
<1>1. V \in SUBSET Int
  OBVIOUS
<1>2. i - 1 \in 0 .. Cardinality(V) - 1 /\ j - 1 \in 0 .. Cardinality(V) - 1
  BY WalkedPositions
<1>3. /\ Cardinality({d \in V : d < NthOf(V, i - 1)}) = i - 1
      /\ Cardinality({d \in V : d < NthOf(V, j - 1)}) = j - 1
  BY <1>1, <1>2, NthOfIsElement
<1>4. Cardinality(VisitsBelow(V, k)) \in Nat
  BY BeforeType
<1>5. i - 1 = j - 1
  BY <1>3
<1> QED
  BY <1>4, <1>5

\* A walk of the right length is a valid schedule.
LEMMA LaidValid ==
  ASSUME NEW p \in Partitions, NEW M, NEW V, Walks(p, M, V), NEW k \in Nat
  PROVE  ValidSchedule(Laid(p, M, V, k), p, Len(Laid(p, M, V, k)))
<1> DEFINE m == Cardinality(VisitsBelow(V, k))
           s == Laid(p, M, V, k)
           at(i) == NthOf(V, i - 1)
<1>1. V \in SUBSET Nat /\ IsFiniteSet(V)
  BY WalkVisits
<1>2. /\ Len(s) = m /\ DOMAIN s = 1 .. m
      /\ \A i \in 1 .. m : s[i] = SlotAt(p, M, at(i)) /\ at(i) \in V
  BY LaidSlots
<1>3. \A i, j \in 1 .. m : at(i) = at(j) => i = j
  BY <1>1, PositionsDiffer
<1>4. \A n, l \in V : /\ SlotAt(p, M, n).entity = SlotAt(p, M, l).entity
                      /\ SlotAt(p, M, n).action = SlotAt(p, M, l).action
                      => n = l
  BY VisitsDiffer
<1>5. \A n \in V : /\ SlotAt(p, M, n) \in Slots
                   /\ p.entity_group[SlotAt(p, M, n).entity] = SlotAt(p, M, n).group
  BY SlotOfVisit
<1> HIDE DEF m, s, at
<1>6. \A i, j \in DOMAIN s : i # j => \/ s[i].entity # s[j].entity
                                      \/ s[i].action # s[j].action
  BY <1>2, <1>3, <1>4
<1>7. \A i \in DOMAIN s : s[i] \in Slots /\ p.entity_group[s[i].entity] = s[i].group
  BY <1>2, <1>5
<1>8. \A i \in DOMAIN s : s[i].entity \in Entities /\ s[i].action \in Actions
  BY <1>7 DEF Slots
<1> QED
  BY <1>6, <1>7, <1>8 DEF ValidSchedule, s

LEMMA LaidPairs ==
  ASSUME NEW p \in Partitions, NEW M, NEW V, Walks(p, M, V), NEW k \in Nat,
         NEW e, NEW a, <<e, a>> \in PairsOf(Laid(p, M, V, k))
  PROVE  \E n \in V : SlotAt(p, M, n).entity = e /\ SlotAt(p, M, n).action = a
<1> DEFINE m == Cardinality(VisitsBelow(V, k))
           s == Laid(p, M, V, k)
<1>1. /\ DOMAIN s = 1 .. m
      /\ \A i \in 1 .. m : s[i] = SlotAt(p, M, NthOf(V, i - 1)) /\ NthOf(V, i - 1) \in V
  BY LaidSlots
<1> HIDE DEF m, s
<1>2. PICK i \in 1 .. m : s[i].entity = e /\ s[i].action = a
  BY <1>1 DEF PairsOf, s
<1> QED
  BY <1>1, <1>2

\* A visit adds its slot at the end; a number that is no visit adds nothing.
LEMMA LaidTakes ==
  ASSUME NEW p \in Partitions, NEW M, NEW V, Walks(p, M, V), NEW k \in V
  PROVE  Laid(p, M, V, k + 1) = Append(Laid(p, M, V, k), SlotAt(p, M, k))
<1> DEFINE m == Cardinality(VisitsBelow(V, k))
           s == Laid(p, M, V, k)
           t == Laid(p, M, V, k + 1)
           u == Append(s, SlotAt(p, M, k))
<1>1. V \in SUBSET Nat /\ IsFiniteSet(V) /\ k \in Nat /\ k + 1 \in Nat
  BY WalkVisits
<1>2. Cardinality(VisitsBelow(V, k + 1)) = m + 1 /\ NthOf(V, m) = k
  BY <1>1, WalkTakes
<1>3. /\ m \in Nat /\ s \in Seq(Slots) /\ Len(s) = m
      /\ \A i \in 1 .. m : s[i] = SlotAt(p, M, NthOf(V, i - 1))
  BY <1>1, LaidSlots
<1>4. /\ t \in Seq(Slots) /\ Len(t) = m + 1
      /\ \A i \in 1 .. m + 1 : t[i] = SlotAt(p, M, NthOf(V, i - 1))
  BY <1>1, <1>2, LaidSlots
<1>5. SlotAt(p, M, k) \in Slots
  BY SlotOfVisit
<1> HIDE DEF m, s, t
<1>6. u \in Seq(Slots) /\ Len(u) = m + 1 /\ u[m + 1] = SlotAt(p, M, k)
      /\ \A i \in 1 .. m : u[i] = s[i]
  BY <1>3, <1>5
<1>7. m + 1 - 1 = m
  BY <1>3
<1>8. t[m + 1] = u[m + 1]
  BY <1>2, <1>3, <1>4, <1>6, <1>7
<1>9. \A i \in 1 .. m : t[i] = u[i]
  BY <1>3, <1>4, <1>6
<1> HIDE DEF u
<1>10. \A i \in 1 .. m + 1 : t[i] = u[i]
  BY <1>3, <1>8, <1>9
<1> QED
  BY <1>3, <1>4, <1>6, <1>10 DEF s, t, u

LEMMA LaidSkips ==
  ASSUME NEW p \in Partitions, NEW M, NEW V, Walks(p, M, V), NEW k \in Nat, k \notin V
  PROVE  Laid(p, M, V, k + 1) = Laid(p, M, V, k)
BY WalkVisits, WalkSkips DEF Laid, Walked

\* A walk as long as a budget is the first visits within that budget.
LEMMA LaidIsFirst ==
  ASSUME NEW p \in Partitions, NEW M, NEW V, Walks(p, M, V), NEW k \in Nat
  PROVE  LET s == Laid(p, M, V, k)
             visits == FirstOf(V, Len(s))
         IN  s = [i \in DOMAIN visits |-> SlotAt(p, M, visits[i])]
<1>1. Len(Laid(p, M, V, k)) = Cardinality(VisitsBelow(V, k))
  BY LaidSlots
<1> QED
  BY <1>1 DEF Laid, Walked

\* As many visits as pairs: the walk visits every pair of a set once.
LEMMA VisitsOfPairs ==
  ASSUME NEW p \in Partitions, NEW M, NEW V, Walks(p, M, V),
         NEW P \in SUBSET (Entities \X Actions),
         \A q \in P : \E n \in V : SlotAt(p, M, n).entity = q[1] /\ SlotAt(p, M, n).action = q[2]
  PROVE  IsFiniteSet(P) /\ Cardinality(P) <= Cardinality(V)
<1> DEFINE Of(q, n) == SlotAt(p, M, n).entity = q[1] /\ SlotAt(p, M, n).action = q[2]
           f == [q \in P |-> CHOOSE n \in V : Of(q, n)]
<1>1. \A q \in P : f[q] \in V /\ Of(q, f[q])
  OBVIOUS
<1>2. \A q \in P : q = <<q[1], q[2]>>
  OBVIOUS
<1> HIDE DEF f
<1>3. ASSUME NEW q \in P, NEW r \in P, f[q] = f[r]
      PROVE  q = r
  <2>1. q[1] = r[1] /\ q[2] = r[2]
    BY <1>1, <1>3
  <2> QED
    BY <1>2, <2>1
<1>4. f \in [P -> V]
  BY <1>1 DEF f
<1>5. f \in Injection(P, V)
  BY <1>3, <1>4 DEF Injection, IsInjective
<1> QED
  BY <1>5, WalkVisits, FS_Injection

\* A member of a cell is tested by the visit in the round of its rank.
LEMMA MemberVisit ==
  ASSUME NEW p \in Partitions, NEW M \in [CellsOf(p) -> SUBSET Entities],
         NEW c \in CellsOf(p), NEW e \in M[c]
  PROVE  LET r == Cardinality({d \in M[c] : d < e})
             n == r * NumCells(p) + c
         IN  /\ r \in 0 .. Cardinality(M[c]) - 1
             /\ n \in Visits(p) /\ Visit(p, n) = [round |-> r, cell |-> c]
             /\ SlotAt(p, M, n).entity = e /\ SlotAt(p, M, n).action = ActionOfCell(c)
<1> DEFINE S == M[c]
           r == Cardinality({d \in S : d < e})
           n == r * NumCells(p) + c
<1>1. S \in SUBSET Entities /\ S \in SUBSET Int /\ IsFiniteSet(S)
  BY EntitySubsets
<1>2. r \in 0 .. Cardinality(S) - 1 /\ NthOf(S, r) = e
  BY <1>1, NthOfRank
<1>3. Cardinality(S) \in Nat /\ Cardinality(S) <= NumEntities /\ NumEntities \in Nat
  <2>1. NumEntities \in Nat /\ Entities = 0 .. NumEntities - 1
    BY ProtocolConstants DEF Entities
  <2>2. IsFiniteSet(Entities) /\ Cardinality(Entities) = NumEntities
    BY <2>1, FS_Interval
  <2> QED
    BY <1>1, <2>1, <2>2, FS_Subset, FS_CardinalityType
<1> HIDE DEF S, r
<1>4. r \in Nat /\ r < NumEntities
  BY <1>2, <1>3
<1>5. n \in Visits(p) /\ Visit(p, n) = [round |-> r, cell |-> c]
  BY <1>4, VisitAt
<1> HIDE DEF n
<1>6. SlotAt(p, M, n) = Slot(e, c)
  BY <1>2, <1>5 DEF SlotAt, S
<1>7. SlotAt(p, M, n).entity = e /\ SlotAt(p, M, n).action = ActionOfCell(c)
  BY <1>6 DEF Slot
<1> QED
  BY <1>2, <1>5, <1>7 DEF S, r, n

-------------------------------------------------------------------------------
(* Legal partitions.                                                       *)

LEMMA GroupOfCellType ==
  ASSUME NEW p \in Partitions, NEW c \in CellsOf(p)
  PROVE  GroupOfCell(c) \in GroupsOf(p) /\ ActionOfCell(c) \in Actions
<1> DEFINE n == NumActions
           g == p.group_count
           q == c \div n
<1>1. n \in Nat \ {0} /\ g \in Nat /\ c \in Nat /\ c \in 0 .. g * n - 1
  BY VisitNumbers, PartitionTypes DEF CellsOf, NumCells
<1> HIDE DEF n, g
<1>2. c = n * q + (c % n) /\ c % n \in 0 .. n - 1 /\ q \in Nat
  BY <1>1
<1> HIDE DEF q
<1>3. q < g
  <2> SUFFICES ASSUME q >= g
               PROVE  FALSE
    BY <1>1, <1>2
  <2>1. PICK d \in Nat : q = g + d
    <3>1. q - g \in Nat /\ q = g + (q - g)
      BY <1>1, <1>2
    <3> QED
      BY <3>1
  <2>2. d * n \in Nat /\ g * n \in Nat /\ n * q = g * n + d * n
    BY <1>1, <2>1
  <2> QED
    BY <1>1, <1>2, <2>2
<1>4. q \in 0 .. g - 1
  BY <1>1, <1>2, <1>3
<1> QED
  BY <1>1, <1>4, CellParts DEF GroupOfCell, GroupsOf, q, n, g

\* The partitions both schedules are built for.
Schedulable ==
  {p \in Partitions : \A g \in GroupsOf(p) : Cardinality(MembersOf(p, g)) >= 2}

\* Every group has its first member among the leaders.
LEMMA GroupsHaveLeaders ==
  ASSUME NEW h, h.entity_group \in [Entities -> Int], LegalHypothesis(h)
  PROVE  /\ IsFiniteSet(Leaders(h)) /\ Leaders(h) \in SUBSET Entities
         /\ Cardinality(Leaders(h)) \in Nat /\ Cardinality(Leaders(h)) >= h.group_count
<1> DEFINE n == h.group_count
           L == Leaders(h)
           f == [d \in L |-> h.entity_group[d]]
<1>1. n \in Nat /\ \A e \in Entities : h.entity_group[e] \in GroupsOf(h)
  BY ProtocolConstants DEF LegalHypothesis
<1>2. L \in SUBSET Entities /\ IsFiniteSet(L) /\ Cardinality(L) \in Nat
  <2>1. L \in SUBSET Entities
    BY DEF Leaders
  <2> QED
    BY <2>1, EntitySubsets, FS_CardinalityType
<1>3. ASSUME NEW g \in GroupsOf(h)
      PROVE  \E d \in L : f[d] = g
  <2> DEFINE S == MembersOf(h, g)
             d == NthOf(S, 0)
  <2>1. S \in SUBSET Entities /\ IsFiniteSet(S) /\ S \in SUBSET Int
    <3>1. S \in SUBSET Entities
      BY DEF MembersOf
    <3> QED
      BY <3>1, EntitySubsets
  <2>2. Cardinality(S) \in Nat /\ Cardinality(S) >= 2
    <3>1. Cardinality(S) >= MinEntitiesPerGroup
      BY DEF LegalHypothesis
    <3>2. MinEntitiesPerGroup \in Nat /\ MinEntitiesPerGroup >= 2
      BY ProtocolConstants
    <3> QED
      BY <2>1, <3>1, <3>2, FS_CardinalityType
  <2>3. d \in S /\ Cardinality({e \in S : e < d}) = 0
    <3> HIDE DEF S
    <3> QED
      BY <2>1, <2>2, NthOfIsElement
  <2>4. {e \in S : e < d} = {}
    <3>1. {e \in S : e < d} \in SUBSET S
      OBVIOUS
    <3> QED
      BY <2>1, <2>3, <3>1, FS_Subset, FS_EmptySet
  <2> HIDE DEF d
  <2>5. d \in Entities /\ h.entity_group[d] = g
    BY <2>3 DEF MembersOf
  <2>6. ASSUME NEW e \in 0 .. d - 1
        PROVE  h.entity_group[e] # h.entity_group[d]
    <3>1. e \in Entities /\ e < d
      <4>1. Entities = 0 .. NumEntities - 1 /\ NumEntities \in Nat
        BY ProtocolConstants DEF Entities
      <4> QED
        BY <2>5, <4>1
    <3> QED
      BY <2>4, <2>5, <3>1 DEF MembersOf
  <2> QED
    BY <2>5, <2>6 DEF Leaders
<1>4. f \in [L -> GroupsOf(h)]
  BY <1>1, <1>2
<1> HIDE DEF f, L
<1>5. f \in Surjection(L, GroupsOf(h))
  BY <1>3, <1>4 DEF Surjection
<1>6. IsFiniteSet(GroupsOf(h)) /\ Cardinality(GroupsOf(h)) = n
  <2>1. GroupsOf(h) = 0 .. n - 1
    BY DEF GroupsOf
  <2> HIDE DEF n
  <2> QED
    BY <1>1, <2>1, InitialSegment
<1>7. Cardinality(GroupsOf(h)) <= Cardinality(L)
  BY <1>2, <1>5, FS_Surjection
<1> QED
  BY <1>2, <1>6, <1>7 DEF L

\* Relabelling loses no group: each new label is the rank of a leader, whose group is
\* among the members.
LEMMA CanonicalIsSchedulable ==
  ASSUME NEW h, h.entity_group \in [Entities -> Int], LegalHypothesis(h)
  PROVE  Canonicalize(h) \in Schedulable
<1> DEFINE p == Canonicalize(h)
           L == Leaders(h)
           Earlier(e) == {d \in L : \A m \in MembersOf(h, h.entity_group[e]) : d < m}
<1>1. p \in Partitions
  BY CanonicalIsPartition
<1>2. /\ p.group_count = h.group_count
      /\ \A e \in Entities : p.entity_group[e] = Cardinality(Earlier(e))
  BY DEF Canonicalize
<1>3. /\ IsFiniteSet(L) /\ L \in SUBSET Entities /\ L \in SUBSET Int
      /\ Cardinality(L) \in Nat /\ Cardinality(L) >= h.group_count
  BY GroupsHaveLeaders, EntitySubsets
<1>4. h.group_count \in Nat /\ MinEntitiesPerGroup \in Nat /\ MinEntitiesPerGroup >= 2
  BY ProtocolConstants DEF LegalHypothesis
<1>5. ASSUME NEW d \in L
      PROVE  Earlier(d) = {l \in L : l < d}
  <2>1. d \in MembersOf(h, h.entity_group[d]) /\ d \in Nat
    BY <1>3, FiniteDomains DEF MembersOf
  <2>2. ASSUME NEW m \in MembersOf(h, h.entity_group[d])
        PROVE  m \in Nat /\ ~(m < d)
    <3>1. m \in Nat /\ h.entity_group[m] = h.entity_group[d]
      BY FiniteDomains DEF MembersOf
    <3>2. m < d => m \in 0 .. d - 1
      BY <2>1, <3>1
    <3> QED
      BY <3>1, <3>2 DEF Leaders
  <2>3. \A l \in L : l < d => \A m \in MembersOf(h, h.entity_group[d]) : l < m
    BY <1>3, <2>1, <2>2
  <2> QED
    BY <2>1, <2>3
<1> HIDE DEF p
<1>6. ASSUME NEW g \in GroupsOf(p)
      PROVE  Cardinality(MembersOf(p, g)) >= 2
  <2>1. g \in 0 .. Cardinality(L) - 1
    <3>1. g \in 0 .. h.group_count - 1
      BY <1>2 DEF GroupsOf
    <3> HIDE DEF L
    <3> QED
      BY <1>3, <1>4, <3>1
  <2> DEFINE d == NthOf(L, g)
             S == MembersOf(h, h.entity_group[d])
             T == MembersOf(p, g)
  <2>2. d \in L /\ Cardinality({l \in L : l < d}) = g
    <3> HIDE DEF L
    <3> QED
      BY <1>3, <2>1, NthOfIsElement
  <2> HIDE DEF d
  <2>3. d \in Entities /\ p.entity_group[d] = g
    BY <1>2, <1>3, <1>5, <2>2
  <2>4. ASSUME NEW e \in S
        PROVE  e \in T
    <3>1. e \in Entities /\ h.entity_group[e] = h.entity_group[d]
      BY DEF MembersOf
    <3>2. Earlier(e) = Earlier(d)
      BY <3>1
    <3>3. p.entity_group[e] = p.entity_group[d]
      BY <1>2, <2>3, <3>1, <3>2
    <3> QED
      BY <2>3, <3>1, <3>3 DEF MembersOf
  <2>5. IsFiniteSet(T) /\ Cardinality(T) \in Nat
    <3>1. T \in SUBSET Entities
      BY DEF MembersOf
    <3> QED
      BY <3>1, EntitySubsets, FS_CardinalityType
  <2>6. Cardinality(S) >= MinEntitiesPerGroup
    BY <2>3 DEF LegalHypothesis
  <2> HIDE DEF S, T
  <2>7. S \in SUBSET T
    BY <2>4
  <2>8. Cardinality(S) <= Cardinality(T) /\ Cardinality(S) \in Nat
    BY <2>5, <2>7, FS_Subset, FS_CardinalityType
  <2>9. Cardinality(T) >= 2
    BY <1>4, <2>5, <2>6, <2>8
  <2> QED
    BY <2>9 DEF T
<1> QED
  BY <1>1, <1>6 DEF Schedulable, p

-------------------------------------------------------------------------------
(* The walk of the calibration.                                            *)

CellMembers(p) == [c \in CellsOf(p) |-> MembersOf(p, GroupOfCell(c))]
SizeOf(p, c) == Cardinality(CellMembers(p)[c])
CalVisits(p) ==
  {n \in Visits(p) : Calibratable(Visit(p, n).round, SizeOf(p, Visit(p, n).cell))}

LEMMA CellMembersType ==
  ASSUME NEW p \in Schedulable, NEW c \in CellsOf(p)
  PROVE  /\ CellMembers(p) \in [CellsOf(p) -> SUBSET Entities]
         /\ CellMembers(p)[c] = MembersOf(p, GroupOfCell(c))
         /\ IsFiniteSet(CellMembers(p)[c]) /\ CellMembers(p)[c] \in SUBSET Int
         /\ SizeOf(p, c) \in Nat /\ SizeOf(p, c) >= 2
<1>1. p \in Partitions /\ \A g \in GroupsOf(p) : Cardinality(MembersOf(p, g)) >= 2
  BY DEF Schedulable
<1>2. GroupOfCell(c) \in GroupsOf(p)
  BY <1>1, GroupOfCellType
<1>3. CellMembers(p)[c] = MembersOf(p, GroupOfCell(c))
  BY DEF CellMembers
<1>4. CellMembers(p) \in [CellsOf(p) -> SUBSET Entities]
  BY DEF CellMembers, MembersOf
<1>5. IsFiniteSet(CellMembers(p)[c]) /\ CellMembers(p)[c] \in SUBSET Int
  <2>1. CellMembers(p)[c] \in SUBSET Entities
    BY <1>4
  <2> QED
    BY <2>1, EntitySubsets
<1>6. SizeOf(p, c) \in Nat /\ SizeOf(p, c) >= 2
  BY <1>1, <1>2, <1>3, <1>5, FS_CardinalityType DEF SizeOf
<1> QED
  BY <1>3, <1>4, <1>5, <1>6

LEMMA CalWalks ==
  ASSUME NEW p \in Schedulable
  PROVE  Walks(p, CellMembers(p), CalVisits(p))
<1>1. p \in Partitions
  BY DEF Schedulable
<1>2. ASSUME NEW n \in CalVisits(p)
      PROVE  Visit(p, n).round < Cardinality(CellMembers(p)[Visit(p, n).cell])
  <2> DEFINE r == Visit(p, n).round
             k == SizeOf(p, Visit(p, n).cell)
  <2>1. r \in Int /\ Visit(p, n).cell \in CellsOf(p) /\ Calibratable(r, k)
    BY <1>1, VisitParts DEF CalVisits
  <2>2. k \in Nat /\ k >= 2
    BY <2>1, CellMembersType
  <2> HIDE DEF r, k
  <2>3. r < k
    BY <2>1, <2>2 DEF Calibratable
  <2> QED
    BY <2>3 DEF r, k, SizeOf
<1>3. /\ CellMembers(p) \in [CellsOf(p) -> SUBSET Entities]
      /\ \A c \in CellsOf(p) : CellMembers(p)[c] \subseteq MembersOf(p, GroupOfCell(c))
  BY DEF CellMembers, MembersOf
<1>4. CalVisits(p) \in SUBSET Visits(p)
  BY DEF CalVisits
<1> QED
  BY <1>2, <1>3, <1>4 DEF Walks

\* The closed form is the beginning of this walk.
LEMMA CalClosed ==
  ASSUME NEW p \in Schedulable
  PROVE  LET visits == FirstOf(CalVisits(p), BCalibrationBudget)
         IN  CalibrationSchedule(p)
               = [i \in DOMAIN visits |-> SlotAt(p, CellMembers(p), visits[i])]
<1> DEFINE members(n) == MembersOf(p, GroupOfCell(Visit(p, n).cell))
           V == {n \in Visits(p) : Calibratable(Visit(p, n).round, Cardinality(members(n)))}
           visits == FirstOf(CalVisits(p), BCalibrationBudget)
<1>1. p \in Partitions /\ Walks(p, CellMembers(p), CalVisits(p))
  BY CalWalks DEF Schedulable
<1>2. \A n \in Visits(p) : CellMembers(p)[Visit(p, n).cell] = members(n)
  BY <1>1, VisitParts DEF CellMembers
<1>3. CalVisits(p) = V
  BY <1>2 DEF CalVisits, SizeOf
<1>4. CalVisits(p) \in SUBSET Int /\ IsFiniteSet(CalVisits(p)) /\ BCalibrationBudget \in Nat
      /\ CalVisits(p) \subseteq Visits(p)
  <2>1. CalVisits(p) \in SUBSET Nat /\ IsFiniteSet(CalVisits(p)) /\ CalVisits(p) \subseteq Visits(p)
    BY <1>1, WalkVisits
  <2> QED
    BY <2>1, ProtocolConstants
<1>5. \A i \in DOMAIN visits : visits[i] \in Visits(p)
  <2>1. visits \in Seq(CalVisits(p)) /\ DOMAIN visits = 1 .. Len(visits)
    BY <1>4, FirstOfIsSequence
  <2> QED
    BY <1>4, <2>1
<1>6. CalibrationSchedule(p)
        = [i \in DOMAIN FirstOf(V, BCalibrationBudget) |->
             Slot(NthOf(members(FirstOf(V, BCalibrationBudget)[i]),
                        Visit(p, FirstOf(V, BCalibrationBudget)[i]).round),
                  Visit(p, FirstOf(V, BCalibrationBudget)[i]).cell)]
  BY DEF CalibrationSchedule
<1> HIDE DEF V
<1>7. CalibrationSchedule(p)
        = [i \in DOMAIN visits |->
             Slot(NthOf(members(visits[i]), Visit(p, visits[i]).round), Visit(p, visits[i]).cell)]
  BY <1>3, <1>6
<1> HIDE DEF visits
<1> QED
  BY <1>2, <1>5, <1>7 DEF SlotAt, visits

LastOf(p, c) ==
  NthOf(MembersOf(p, GroupOfCell(c)), Cardinality(MembersOf(p, GroupOfCell(c))) - 1)

\* No visit of the calibration takes the last member of a cell.
LEMMA LastIsSpared ==
  ASSUME NEW p \in Schedulable, NEW k \in Nat, NEW c \in CellsOf(p)
  PROVE  /\ LastOf(p, c) \in MembersOf(p, GroupOfCell(c))
         /\ <<LastOf(p, c), ActionOfCell(c)>>
              \notin PairsOf(Laid(p, CellMembers(p), CalVisits(p), k))
<1> DEFINE M == CellMembers(p)
           V == CalVisits(p)
           S == MembersOf(p, GroupOfCell(c))
           size == SizeOf(p, c)
           e == NthOf(S, size - 1)
<1>1. p \in Partitions /\ Walks(p, M, V)
  BY CalWalks DEF Schedulable
<1>2. M[c] = S /\ IsFiniteSet(S) /\ S \in SUBSET Int /\ size \in Nat /\ size >= 2
      /\ size = Cardinality(S)
  BY CellMembersType DEF SizeOf
<1>3. LastOf(p, c) = e
  BY <1>2 DEF LastOf
<1> HIDE DEF S, size
<1>4. size - 1 \in 0 .. Cardinality(S) - 1
  BY <1>2
<1>5. e \in S /\ Cardinality({d \in S : d < e}) = size - 1
  BY <1>2, <1>4, NthOfIsElement
<1> HIDE DEF e
<1>6. ASSUME <<e, ActionOfCell(c)>> \in PairsOf(Laid(p, M, V, k))
      PROVE  FALSE
  <2>1. PICK n \in V : SlotAt(p, M, n).entity = e /\ SlotAt(p, M, n).action = ActionOfCell(c)
    BY <1>1, <1>6, LaidPairs
  <2> DEFINE d == Visit(p, n).cell
             r == Visit(p, n).round
  <2>2. n \in Visits(p) /\ d \in CellsOf(p) /\ r \in Nat /\ Calibratable(r, SizeOf(p, d))
    BY <1>1, VisitParts, VisitNumbers DEF CalVisits
  <2>3. /\ ActionOfCell(c) = ActionOfCell(d) /\ p.entity_group[e] = GroupOfCell(d)
        /\ Cardinality({x \in M[d] : x < e}) = r
    BY <1>1, <2>1, SlotOfVisit
  <2>4. p.entity_group[e] = GroupOfCell(c)
    BY <1>5 DEF S, MembersOf
  <2>5. c \in Nat /\ d \in Nat
    BY <1>1, <2>2, VisitNumbers
  <2>6. d = c
    BY <2>3, <2>4, <2>5, CellRecovered
  <2> HIDE DEF d, r
  <2>7. r = size - 1 /\ SizeOf(p, d) = size
    BY <1>2, <1>5, <2>3, <2>6 DEF size
  <2> QED
    BY <1>2, <2>2, <2>7 DEF Calibratable
<1> QED
  BY <1>3, <1>5, <1>6 DEF S

\* Entities with a successor in their group: all but one per group.
NotLast(p) == {e \in Entities : \E f \in MembersOf(p, p.entity_group[e]) : e < f}

LEMMA NotLastCount ==
  ASSUME NEW p \in Partitions
  PROVE  /\ IsFiniteSet(NotLast(p)) /\ Cardinality(NotLast(p)) \in Nat
         /\ Cardinality(NotLast(p)) >= NumEntities - MaxGroups
<1> DEFINE L == Entities \ NotLast(p)
           g == p.group_count
           f == [e \in L |-> p.entity_group[e]]
<1>1. /\ NumEntities \in Nat \ {0} /\ IsFiniteSet(Entities) /\ Entities \subseteq Nat
      /\ Cardinality(Entities) = NumEntities
  <2>1. NumEntities \in Nat \ {0} /\ Entities = 0 .. NumEntities - 1
    BY ProtocolConstants DEF Entities
  <2> QED
    BY <2>1, FS_Interval, FiniteDomains
<1>2. g \in Nat /\ g <= MaxGroups /\ MaxGroups \in Nat /\ \A e \in Entities : p.entity_group[e] \in 0 .. g - 1
  BY PartitionTypes, ProtocolConstants DEF GroupsOf
<1>3. f \in [L -> 0 .. g - 1]
  BY <1>2
<1>4. ASSUME NEW d \in L, NEW e \in L, f[d] = f[e]
      PROVE  d = e
  <2>1. d \in Entities /\ e \in Entities /\ d \in Nat /\ e \in Nat
        /\ p.entity_group[d] = p.entity_group[e]
    BY <1>1, <1>4
  <2>2. /\ d \in MembersOf(p, p.entity_group[e]) /\ e \in MembersOf(p, p.entity_group[d])
    BY <2>1 DEF MembersOf
  <2>3. ~(d < e) /\ ~(e < d)
    BY <2>1, <2>2 DEF NotLast
  <2> QED
    BY <2>1, <2>3
<1> HIDE DEF f
<1>5. f \in Injection(L, 0 .. g - 1)
  BY <1>3, <1>4 DEF Injection, IsInjective
<1>6. IsFiniteSet(0 .. g - 1) /\ Cardinality(0 .. g - 1) = g
  <2> HIDE DEF g
  <2> QED
    BY <1>2, InitialSegment
<1>7. Cardinality(L) <= g
  BY <1>5, <1>6, FS_Injection
<1>8. NotLast(p) \in SUBSET Entities
  BY DEF NotLast
<1>9. IsFiniteSet(NotLast(p)) /\ Cardinality(NotLast(p)) \in Nat
  BY <1>1, <1>8, FS_Subset, FS_CardinalityType
<1>10. Cardinality(L) = Cardinality(Entities) - Cardinality(NotLast(p))
  <2>1. Entities \cap NotLast(p) = NotLast(p)
    BY <1>8
  <2> QED
    BY <1>1, <2>1, FS_Difference
<1> QED
  BY <1>1, <1>2, <1>7, <1>9, <1>10

\* The pairs that may be calibrated are enough for the calibration budget.
LEMMA CalEnough ==
  ASSUME NEW p \in Schedulable
  PROVE  Cardinality(CalVisits(p)) >= BCalibrationBudget
<1> DEFINE M == CellMembers(p)
           V == CalVisits(p)
           P == NotLast(p) \X Actions
<1>1. p \in Partitions /\ Walks(p, M, V) /\ IsFiniteSet(V) /\ Cardinality(V) \in Nat
  BY CalWalks, WalkVisits, FS_CardinalityType DEF Schedulable
<1>2. P \in SUBSET (Entities \X Actions)
  BY DEF NotLast
<1>3. ASSUME NEW e \in NotLast(p), NEW a \in Actions
      PROVE  \E n \in V : SlotAt(p, M, n).entity = e /\ SlotAt(p, M, n).action = a
  <2> DEFINE g == p.entity_group[e]
             c == CellOf(g, a)
             r == Cardinality({d \in M[c] : d < e})
             n == r * NumCells(p) + c
  <2>1. PICK f \in MembersOf(p, g) : e < f
    BY DEF NotLast
  <2>2. e \in Entities /\ g \in GroupsOf(p) /\ g \in Nat
    BY <1>1, PartitionTypes DEF NotLast
  <2>3. c \in CellsOf(p) /\ GroupOfCell(c) = g /\ ActionOfCell(c) = a
    BY <1>1, <2>2, CellBounds, CellOfParts
  <2> HIDE DEF c
  <2>4. /\ M \in [CellsOf(p) -> SUBSET Entities] /\ M[c] = MembersOf(p, g)
        /\ IsFiniteSet(M[c]) /\ M[c] \in SUBSET Int /\ SizeOf(p, c) \in Nat
    BY <2>3, CellMembersType
  <2>5. e \in M[c] /\ f \in M[c]
    BY <2>1, <2>2, <2>4 DEF MembersOf
  <2>6. /\ r \in 0 .. Cardinality(M[c]) - 1
        /\ n \in Visits(p) /\ Visit(p, n) = [round |-> r, cell |-> c]
        /\ SlotAt(p, M, n).entity = e /\ SlotAt(p, M, n).action = ActionOfCell(c)
    BY <1>1, <2>3, <2>4, <2>5, MemberVisit
  <2>7. r < SizeOf(p, c) - 1
    <3>1. /\ Cardinality({d \in M[c] : d < f}) \in 0 .. Cardinality(M[c]) - 1
          /\ r < Cardinality({d \in M[c] : d < f})
      BY <2>1, <2>4, <2>5, RankBound, RankGrows
    <3> HIDE DEF r, M
    <3> QED
      BY <2>4, <2>6, <3>1 DEF SizeOf, M
  <2> HIDE DEF n, r
  <2>8. n \in V
    BY <2>6, <2>7 DEF CalVisits, Calibratable
  <2> QED
    BY <2>3, <2>6, <2>8
<1>4. \A q \in P : q[1] \in NotLast(p) /\ q[2] \in Actions
  OBVIOUS
<1>5. \A q \in P : \E n \in V : SlotAt(p, M, n).entity = q[1] /\ SlotAt(p, M, n).action = q[2]
  <2> HIDE DEF P, V, M
  <2> QED
    BY <1>3, <1>4
<1>6. Cardinality(P) <= Cardinality(V)
  <2> HIDE DEF P, V, M
  <2> QED
    BY <1>1, <1>2, <1>5, VisitsOfPairs
<1>7. Cardinality(P) = Cardinality(NotLast(p)) * NumActions
  <2>1. NumActions \in Nat \ {0} /\ Actions = 0 .. NumActions - 1
    BY ProtocolConstants DEF Actions
  <2>2. IsFiniteSet(Actions) /\ Cardinality(Actions) = NumActions
    BY <2>1, FS_Interval
  <2> QED
    BY <1>1, <2>2, NotLastCount, FS_Product
<1>8. \A x, y, n \in Int : x >= y /\ n >= 0 => x * n >= n * y
  <2> SUFFICES ASSUME NEW x \in Int, NEW y \in Int, NEW n \in Int, x >= y, n >= 0
               PROVE  x * n >= n * y
    OBVIOUS
  <2>1. (x - y) * n >= 0
    OBVIOUS
  <2>2. (x - y) * n = x * n - n * y
    OBVIOUS
  <2> QED
    BY <2>1, <2>2
<1>9. Cardinality(NotLast(p)) * NumActions >= NumActions * (NumEntities - MaxGroups)
  <2>1. /\ Cardinality(NotLast(p)) \in Int /\ NumEntities - MaxGroups \in Int
        /\ NumActions \in Int /\ NumActions >= 0
        /\ Cardinality(NotLast(p)) >= NumEntities - MaxGroups
    BY <1>1, NotLastCount, ProtocolConstants
  <2> QED
    BY <1>8, <2>1
<1>10. /\ BCalibrationBudget <= NumActions * (NumEntities - MaxGroups)
       /\ BCalibrationBudget \in Nat /\ NumActions * (NumEntities - MaxGroups) \in Int
       /\ Cardinality(NotLast(p)) * NumActions \in Int
  <2>1. BCalibrationBudget \in Nat /\ NumActions \in Int /\ NumEntities - MaxGroups \in Int
    BY ProtocolConstants
  <2>2. NumActions * (NumEntities - MaxGroups) \in Int
    BY <2>1
  <2>3. Cardinality(NotLast(p)) * NumActions \in Int
    BY <1>1, <2>1, NotLastCount
  <2> QED
    BY <2>1, <2>2, <2>3, ProtocolConstants
<1> HIDE DEF P, V
<1> QED
  BY <1>1, <1>6, <1>7, <1>9, <1>10 DEF V

-------------------------------------------------------------------------------
(* The walk of the transfer.                                               *)

Remaining(p, used) == [c \in CellsOf(p) |-> RemainingMembers(p, used, c)]
TestVisits(p, M) ==
  {n \in Visits(p) : Visit(p, n).round < Cardinality(M[Visit(p, n).cell])}

LEMMA RemainingType ==
  ASSUME NEW p \in Partitions, NEW used, NEW c \in CellsOf(p)
  PROVE  LET M == Remaining(p, used)
         IN  /\ M \in [CellsOf(p) -> SUBSET Entities]
             /\ M[c] = RemainingMembers(p, used, c)
             /\ M[c] \subseteq MembersOf(p, GroupOfCell(c))
             /\ IsFiniteSet(M[c]) /\ M[c] \in SUBSET Int
             /\ Cardinality(M[c]) \in Nat /\ Cardinality(M[c]) <= NumEntities
<1> DEFINE M == Remaining(p, used)
<1>1. M \in [CellsOf(p) -> SUBSET Entities] /\ M[c] = RemainingMembers(p, used, c)
      /\ M[c] \subseteq MembersOf(p, GroupOfCell(c))
  BY DEF Remaining, RemainingMembers, MembersOf
<1>2. M[c] \in SUBSET Entities
  BY <1>1
<1> HIDE DEF M
<1>3. IsFiniteSet(Entities) /\ Cardinality(Entities) = NumEntities
  <2>1. NumEntities \in Nat /\ Entities = 0 .. NumEntities - 1
    BY ProtocolConstants DEF Entities
  <2> QED
    BY <2>1, FS_Interval
<1>4. /\ IsFiniteSet(M[c]) /\ M[c] \in SUBSET Int
      /\ Cardinality(M[c]) \in Nat /\ Cardinality(M[c]) <= NumEntities
  BY <1>2, <1>3, EntitySubsets, FS_Subset, FS_CardinalityType
<1> QED
  BY <1>1, <1>4 DEF M

LEMMA TestWalks ==
  ASSUME NEW p \in Partitions, NEW used
  PROVE  Walks(p, Remaining(p, used), TestVisits(p, Remaining(p, used)))
BY DEF Walks, Remaining, TestVisits, RemainingMembers, MembersOf

\* The closed form is the beginning of this walk.
LEMMA TestClosed ==
  ASSUME NEW p \in Partitions, NEW used
  PROVE  LET M == Remaining(p, used)
             visits == FirstOf(TestVisits(p, M), BTransferBudget)
         IN  TransferSchedule(p, used) = [i \in DOMAIN visits |-> SlotAt(p, M, visits[i])]
BY DEF TransferSchedule, Remaining, TestVisits, SlotAt

\* No slot of the transfer repeats a calibrated pair.
LEMMA TestIsFresh ==
  ASSUME NEW p \in Partitions, NEW used, NEW k \in Nat
  PROVE  LET M == Remaining(p, used)
         IN  PairsOf(Laid(p, M, TestVisits(p, M), k)) \cap PairsOf(used) = {}
<1> DEFINE M == Remaining(p, used)
           V == TestVisits(p, M)
           s == Laid(p, M, V, k)
<1>1. Walks(p, M, V)
  BY TestWalks
<1>2. ASSUME NEW q \in PairsOf(s), q \in PairsOf(used)
      PROVE  FALSE
  <2>1. q = <<q[1], q[2]>>
    BY <1>2 DEF PairsOf
  <2>2. PICK n \in V : SlotAt(p, M, n).entity = q[1] /\ SlotAt(p, M, n).action = q[2]
    <3>1. <<q[1], q[2]>> \in PairsOf(s)
      BY <1>2, <2>1
    <3> QED
      BY <1>1, <3>1, LaidPairs
  <2> DEFINE c == Visit(p, n).cell
  <2>3. q[1] \in M[c] /\ q[2] = ActionOfCell(c)
    BY <1>1, <2>2, SlotOfVisit
  <2>4. c \in CellsOf(p)
    BY <2>2, VisitParts DEF TestVisits
  <2>5. <<q[1], q[2]>> \notin PairsOf(used)
    BY <2>3, <2>4, RemainingType DEF RemainingMembers
  <2> QED
    BY <1>2, <2>1, <2>5
<1> QED
  BY <1>2

\* A schedule has no more pairs than slots.
LEMMA PairsCount ==
  ASSUME NEW used \in Seq(Slots)
  PROVE  /\ IsFiniteSet(PairsOf(used)) /\ Cardinality(PairsOf(used)) \in Nat
         /\ Cardinality(PairsOf(used)) <= Len(used)
<1> DEFINE m == Len(used)
           f == [i \in 1 .. m |-> <<used[i].entity, used[i].action>>]
<1>1. m \in Nat /\ DOMAIN used = 1 .. m
  OBVIOUS
<1>2. PairsOf(used) = {f[i] : i \in 1 .. m}
  BY <1>1 DEF PairsOf
<1> HIDE DEF m
<1>3. f \in [1 .. m -> PairsOf(used)] /\ \A q \in PairsOf(used) : \E i \in 1 .. m : f[i] = q
  <2> HIDE DEF f
  <2>1. DOMAIN f = 1 .. m /\ f = [i \in 1 .. m |-> f[i]]
    BY DEF f
  <2> QED
    BY <1>2, <2>1
<1> HIDE DEF f
<1>4. f \in Surjection(1 .. m, PairsOf(used))
  BY <1>3 DEF Surjection
<1>5. IsFiniteSet(1 .. m) /\ Cardinality(1 .. m) = m
  BY <1>1, FS_Interval
<1> QED
  BY <1>4, <1>5, FS_Surjection, FS_CardinalityType DEF m

\* The pairs left by a calibration are enough for the transfer budget.
LEMMA TestEnough ==
  ASSUME NEW p \in Partitions, NEW used \in Seq(Slots), Len(used) = BCalibrationBudget
  PROVE  Cardinality(TestVisits(p, Remaining(p, used))) >= BTransferBudget
<1> DEFINE M == Remaining(p, used)
           V == TestVisits(p, M)
           E == Entities \X Actions
           U == PairsOf(used)
           P == E \ U
<1>1. Walks(p, M, V) /\ IsFiniteSet(V) /\ Cardinality(V) \in Nat
  BY TestWalks, WalkVisits, FS_CardinalityType
<1>2. ASSUME NEW q \in P
      PROVE  \E n \in V : SlotAt(p, M, n).entity = q[1] /\ SlotAt(p, M, n).action = q[2]
  <2> DEFINE e == q[1]
             a == q[2]
             g == p.entity_group[e]
             c == CellOf(g, a)
             r == Cardinality({d \in M[c] : d < e})
             n == r * NumCells(p) + c
  <2>1. e \in Entities /\ a \in Actions /\ q = <<e, a>> /\ q \notin PairsOf(used)
    OBVIOUS
  <2>2. g \in GroupsOf(p) /\ g \in Nat
    BY <2>1, PartitionTypes
  <2>3. c \in CellsOf(p) /\ GroupOfCell(c) = g /\ ActionOfCell(c) = a
    BY <2>1, <2>2, CellBounds, CellOfParts
  <2> HIDE DEF c, e, a
  <2>4. M \in [CellsOf(p) -> SUBSET Entities] /\ Cardinality(M[c]) \in Nat
    BY <2>3, RemainingType
  <2>5. e \in M[c]
    <3>1. e \in MembersOf(p, GroupOfCell(c))
      BY <2>1, <2>3 DEF MembersOf
    <3>2. <<e, ActionOfCell(c)>> \notin PairsOf(used)
      BY <2>1, <2>3
    <3> QED
      BY <2>3, <3>1, <3>2, RemainingType DEF RemainingMembers
  <2>6. /\ r \in 0 .. Cardinality(M[c]) - 1
        /\ n \in Visits(p) /\ Visit(p, n) = [round |-> r, cell |-> c]
        /\ SlotAt(p, M, n).entity = e /\ SlotAt(p, M, n).action = ActionOfCell(c)
    <3> HIDE DEF M
    <3> QED
      BY <2>3, <2>4, <2>5, MemberVisit
  <2> HIDE DEF n, r
  <2>7. n \in V
    <3>1. r < Cardinality(M[c])
      BY <2>4, <2>6
    <3> QED
      BY <2>6, <3>1 DEF TestVisits
  <2> QED
    BY <2>3, <2>6, <2>7 DEF e, a
<1>3. P \in SUBSET E
  OBVIOUS
<1> HIDE DEF M, V
<1>4. Cardinality(P) <= Cardinality(V)
  <2> HIDE DEF P
  <2> QED
    BY <1>1, <1>2, <1>3, VisitsOfPairs
<1>5. /\ IsFiniteSet(E) /\ Cardinality(E) = NumEntities * NumActions
      /\ NumEntities \in Nat /\ NumActions \in Nat
  <2>1. /\ NumActions \in Nat /\ Actions = 0 .. NumActions - 1
        /\ NumEntities \in Nat /\ Entities = 0 .. NumEntities - 1
    BY ProtocolConstants DEF Actions, Entities
  <2>3. /\ IsFiniteSet(Actions) /\ Cardinality(Actions) = NumActions
        /\ IsFiniteSet(Entities) /\ Cardinality(Entities) = NumEntities
    BY <2>1, InitialSegment
  <2>4. /\ IsFiniteSet(Entities \X Actions)
        /\ Cardinality(Entities \X Actions) = Cardinality(Entities) * Cardinality(Actions)
    BY <2>3, FS_Product
  <2> QED
    BY <2>1, <2>3, <2>4
<1>6. IsFiniteSet(U) /\ Cardinality(U) \in Nat /\ Cardinality(U) <= BCalibrationBudget
  BY PairsCount
<1> HIDE DEF E, U
<1>7. Cardinality(P) = Cardinality(E) - Cardinality(E \cap U)
  BY <1>5, FS_Difference
<1>8. Cardinality(E \cap U) <= Cardinality(U) /\ Cardinality(E \cap U) \in Nat
  <2>1. E \cap U \in SUBSET U
    OBVIOUS
  <2> QED
    BY <1>6, <2>1, FS_Subset, FS_CardinalityType
<1>9. /\ BTransferBudget <= NumActions * NumEntities - BCalibrationBudget
      /\ BTransferBudget \in Nat /\ BCalibrationBudget \in Nat
  BY ProtocolConstants
<1>10. NumEntities * NumActions = NumActions * NumEntities /\ NumEntities * NumActions \in Nat
  BY <1>5
<1> DEFINE x == NumEntities * NumActions
<1>11. Cardinality(P) = x - Cardinality(E \cap U) /\ x \in Nat
       /\ BTransferBudget <= x - BCalibrationBudget
  BY <1>5, <1>7, <1>9, <1>10
<1> HIDE DEF P, x
<1> QED
  BY <1>1, <1>4, <1>6, <1>8, <1>9, <1>11 DEF V, M
\* The walk is never longer than the numbers it has passed.
LEMMA LaidLength ==
  ASSUME NEW p \in Partitions, NEW M, NEW V, Walks(p, M, V), NEW k \in Nat
  PROVE  /\ Laid(p, M, V, k) \in Seq(Slots)
         /\ Len(Laid(p, M, V, k)) \in Nat /\ Len(Laid(p, M, V, k)) <= k
<1>1. V \in SUBSET Nat /\ IsFiniteSet(V)
  BY WalkVisits
<1>2. /\ Laid(p, M, V, k) \in Seq(Slots) /\ Len(Laid(p, M, V, k)) = Cardinality(VisitsBelow(V, k))
      /\ Cardinality(VisitsBelow(V, k)) \in Nat
  BY LaidSlots
<1>3. VisitsBelow(V, k) \in SUBSET (0 .. k - 1)
  <2>1. \A n \in V : n < k => n \in 0 .. k - 1
    BY <1>1
  <2> QED
    BY <2>1 DEF VisitsBelow
<1>4. Cardinality(VisitsBelow(V, k)) <= k
  BY <1>3, InitialSegment, FS_Subset
<1> QED
  BY <1>2, <1>4

\* A schedule as long as its budget is the closed form.
LEMMA CalibratedIsClosed ==
  ASSUME NEW p \in Schedulable, NEW k \in Nat,
         Len(Laid(p, CellMembers(p), CalVisits(p), k)) = BCalibrationBudget
  PROVE  Laid(p, CellMembers(p), CalVisits(p), k) = CalibrationSchedule(p)
<1>1. p \in Partitions /\ Walks(p, CellMembers(p), CalVisits(p))
  BY CalWalks DEF Schedulable
<1>2. Laid(p, CellMembers(p), CalVisits(p), k)
        = [i \in DOMAIN FirstOf(CalVisits(p), BCalibrationBudget) |->
             SlotAt(p, CellMembers(p), FirstOf(CalVisits(p), BCalibrationBudget)[i])]
  BY <1>1, LaidIsFirst
<1> QED
  BY <1>2, CalClosed

LEMMA TestedIsClosed ==
  ASSUME NEW p \in Partitions, NEW used, NEW k \in Nat,
         Len(Laid(p, Remaining(p, used), TestVisits(p, Remaining(p, used)), k)) = BTransferBudget
  PROVE  Laid(p, Remaining(p, used), TestVisits(p, Remaining(p, used)), k)
           = TransferSchedule(p, used)
<1> DEFINE M == Remaining(p, used)
           V == TestVisits(p, M)
<1>1. Walks(p, M, V)
  BY TestWalks
<1>2. TransferSchedule(p, used)
        = [i \in DOMAIN FirstOf(V, BTransferBudget) |-> SlotAt(p, M, FirstOf(V, BTransferBudget)[i])]
  BY TestClosed
<1> HIDE DEF M, V
<1>3. Laid(p, M, V, k)
        = [i \in DOMAIN FirstOf(V, Len(Laid(p, M, V, k))) |->
             SlotAt(p, M, FirstOf(V, Len(Laid(p, M, V, k)))[i])]
  BY <1>1, LaidIsFirst
<1> QED
  BY <1>2, <1>3 DEF M, V


-------------------------------------------------------------------------------
(* Both schedules exist.                                                   *)

\* A walk with enough visits has a point at which it has made as many as a budget.
LEMMA WalkReaches ==
  ASSUME NEW p \in Partitions, NEW M, NEW V, Walks(p, M, V),
         NEW n \in Nat, n <= Cardinality(V)
  PROVE  \E k \in Nat : Len(Laid(p, M, V, k)) = n
<1>1. V \in SUBSET Nat /\ IsFiniteSet(V) /\ V \subseteq Visits(p) /\ Cardinality(V) \in Nat
  BY WalkVisits, FS_CardinalityType
<1>2. \A k \in Nat : Len(Laid(p, M, V, k)) = Cardinality(VisitsBelow(V, k))
  BY LaidSlots
<1>3. CASE n < Cardinality(V)
  <2>1. n \in 0 .. Cardinality(V) - 1 /\ V \in SUBSET Int
    BY <1>1, <1>3
  <2>2. NthOf(V, n) \in V /\ Cardinality({d \in V : d < NthOf(V, n)}) = n
    BY <1>1, <2>1, NthOfIsElement
  <2> QED
    BY <1>1, <1>2, <2>2 DEF VisitsBelow
<1>4. CASE n = Cardinality(V)
  <2> DEFINE k == NumEntities * NumCells(p)
  <2>1. k \in Nat /\ \A v \in V : v \in Nat /\ v \in 0 .. k - 1
    BY <1>1, VisitNumbers DEF Visits
  <2> HIDE DEF k
  <2>2. VisitsBelow(V, k) = V
    BY <2>1 DEF VisitsBelow
  <2> QED
    BY <1>2, <1>4, <2>1, <2>2
<1> QED
  BY <1>1, <1>3, <1>4

\* Every group of two or more has room for its share of the calibration and keeps a member
\* of each cell for the transfer.
LEMMA CalibrationExists ==
  ASSUME NEW p \in Schedulable
  PROVE  /\ ValidSchedule(CalibrationSchedule(p), p, BCalibrationBudget)
         /\ CalibrationSchedule(p) \in Seq(Slots)
         /\ \A c \in CellsOf(p) : RemainingMembers(p, CalibrationSchedule(p), c) # {}
<1> DEFINE M == CellMembers(p)
           V == CalVisits(p)
<1>1. p \in Partitions /\ Walks(p, M, V) /\ Cardinality(V) >= BCalibrationBudget
      /\ BCalibrationBudget \in Nat
  BY CalWalks, CalEnough, ProtocolConstants DEF Schedulable
<1>2. Cardinality(V) \in Nat
  BY <1>1, WalkVisits, FS_CardinalityType
<1>3. PICK k \in Nat : Len(Laid(p, M, V, k)) = BCalibrationBudget
  <2> HIDE DEF M, V
  <2> QED
    BY <1>1, <1>2, WalkReaches
<1>4. CalibrationSchedule(p) = Laid(p, M, V, k)
  BY <1>3, CalibratedIsClosed
<1>5. ASSUME NEW c \in CellsOf(p)
      PROVE  RemainingMembers(p, CalibrationSchedule(p), c) # {}
  BY <1>4, LastIsSpared DEF RemainingMembers
<1>6. Laid(p, M, V, k) \in Seq(Slots)
  BY <1>1, LaidLength
<1>7. ValidSchedule(Laid(p, M, V, k), p, BCalibrationBudget)
  BY <1>1, <1>3, LaidValid
<1> QED
  BY <1>4, <1>5, <1>6, <1>7

\* What a calibration leaves is enough for a transfer that repeats nothing of it.
LEMMA TransferExists ==
  ASSUME NEW p \in Partitions, NEW used \in Seq(Slots), Len(used) = BCalibrationBudget
  PROVE  /\ ValidSchedule(TransferSchedule(p, used), p, BTransferBudget)
         /\ PairsOf(TransferSchedule(p, used)) \cap PairsOf(used) = {}
<1> DEFINE M == Remaining(p, used)
           V == TestVisits(p, M)
<1>1. Walks(p, M, V) /\ Cardinality(V) >= BTransferBudget /\ BTransferBudget \in Nat
  BY TestWalks, TestEnough, ProtocolConstants
<1>2. Cardinality(V) \in Nat
  BY <1>1, WalkVisits, FS_CardinalityType
<1>3. PICK k \in Nat : Len(Laid(p, M, V, k)) = BTransferBudget
  <2> HIDE DEF M, V
  <2> QED
    BY <1>1, <1>2, WalkReaches
<1>4. TransferSchedule(p, used) = Laid(p, M, V, k)
  BY <1>3, TestedIsClosed
<1>5. PairsOf(Laid(p, M, V, k)) \cap PairsOf(used) = {}
  BY TestIsFresh
<1>6. ValidSchedule(Laid(p, M, V, k), p, BTransferBudget)
  BY <1>1, <1>3, LaidValid
<1> QED
  BY <1>4, <1>5, <1>6
===============================================================================
