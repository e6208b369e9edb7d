----------------------------- MODULE V1Study_proofs -----------------------------
(***************************************************************************)
(* Proofs about V1Study, for every number of worlds, calls and tokens.     *)
(***************************************************************************)
EXTENDS V1Study, FiniteSetTheorems, SequenceTheorems, WellFoundedInduction, TLAPS

-------------------------------------------------------------------------------
(* The lock between the two phases of the benchmark.                       *)

\* What the files say of the Null vanguard: a process runs it before there is a result,
\* a killed one has reached KillAt, and the pass record has at most one wrong field.
Files ==
  /\ running = "null" => "null" \in triggered /\ vanguard = None
  /\ vanguard # None =>
       /\ "null" \in triggered
       /\ vanguard.class = "HALLUCINATION_KILL" => vanguard.positives >= KillAt
  /\ pass # None =>
       /\ vanguard # None
       /\ pass \in PassRecords
       /\ pass.status = Status(vanguard.class) \/ pass.positive_count = vanguard.positives

Lock == Files /\ KilledStaysLocked

\* The actions that start, continue or end a safeguard change nothing the lock is about.
LEMMA SafeguardKeepsLock ==
  ASSUME Lock,
         \/ StartLive \/ StartReplacement \/ StartV11
         \/ CycleAnswered \/ CycleProviderFails \/ CycleFailsLocally \/ SafeguardCompletes
  PROVE  Lock'
<1> USE StudyConstants DEF Lock, Files, KilledStaysLocked, committed, process
<1>1. vanguard' = vanguard /\ pass' = pass
  BY DEF StartLive, StartReplacement, StartV11, SafeguardStarts, Starts, CycleAnswered,
         CycleProviderFails, CycleFailsLocally, CycleInvalid, CycleAborts, CycleEnds,
         SafeguardCompletes, SafeguardWrites
<1>2. triggered \subseteq triggered'
  BY DEF StartLive, StartReplacement, StartV11, SafeguardStarts, Starts, CycleAnswered,
         CycleProviderFails, CycleFailsLocally, CycleInvalid, CycleAborts, CycleEnds,
         SafeguardCompletes, SafeguardWrites
<1>3. running' \in {running, "safeguard", None}
  BY DEF StartLive, StartReplacement, StartV11, SafeguardStarts, Starts, CycleAnswered,
         CycleProviderFails, CycleFailsLocally, CycleInvalid, CycleAborts, CycleEnds,
         SafeguardCompletes, SafeguardWrites, Exits
<1>4. QED
  BY <1>1, <1>2, <1>3

LEMMA LockInvariant == Spec => []Lock
<1> USE StudyConstants DEF Lock, Files, KilledStaysLocked, committed, process
<1>1. Init => Lock
  BY DEF Init
<1>2. Lock /\ [Next]_vars => Lock'
  <2> SUFFICES ASSUME Lock, [Next]_vars PROVE Lock'
    OBVIOUS
  <2>1. CASE \/ StartLive \/ StartReplacement \/ StartV11
             \/ CycleAnswered \/ CycleProviderFails \/ CycleFailsLocally \/ SafeguardCompletes
    BY <2>1, SafeguardKeepsLock
  <2>2. CASE Authorize
    BY <2>2 DEF Authorize
  <2>3. CASE Ratify
    BY <2>3 DEF Ratify
  <2>4. CASE StartNull
    BY <2>4 DEF StartNull, Starts
  <2>5. CASE StartCausal
    <3>1. pass # None /\ vanguard # None /\ running' = "causal"
      BY <2>5 DEF StartCausal, Starts, NullPassed
    <3>2. vanguard.class # "HALLUCINATION_KILL"
      <4> SUFFICES ASSUME vanguard.class = "HALLUCINATION_KILL" PROVE FALSE
        OBVIOUS
      <4>1. pass.status = "NULL_VANGUARD_PASSED" /\ pass.positive_count < KillAt
            /\ pass.positive_count # None
        BY <2>5 DEF StartCausal, NullPassed
      <4>2. Status(vanguard.class) = "not_passed"
        BY DEF Status
      <4>3. pass.positive_count = vanguard.positives /\ vanguard.positives >= KillAt
        BY <3>1, <4>1, <4>2
      <4>4. pass.positive_count \in Int /\ KillAt \in Int
        BY <3>1, <4>1 DEF PassRecords
      <4>5. QED
        BY <4>1, <4>3, <4>4
    <3>3. pass.status = Status(vanguard.class) => vanguard.class = "NULL_PASS"
      BY <2>5 DEF StartCausal, NullPassed, Status
    <3>4. QED
      BY <2>5, <3>1, <3>2, <3>3 DEF StartCausal, Starts
  <2>6. CASE CallAnswered \/ ArmReturns
    BY <2>6 DEF CallAnswered, ArmReturns
  <2>7. CASE NullProviderFails
    BY <2>7 DEF NullProviderFails, NullWrites, Exits, Aborted
  <2>8. CASE NullWorldEnds
    BY <2>8 DEF NullWorldEnds, NullWrites, NextWorld, Exits, KillReached
  <2>9. CASE CausalProviderFails \/ PairEnds
    BY <2>9 DEF CausalProviderFails, PairEnds, CausalCompletes, NextWorld, Exits
  <2>10. CASE Killed
    BY <2>10 DEF Killed, Exits
  <2>11. CASE UNCHANGED vars
    BY <2>11 DEF vars
  <2>12. QED
    BY <2>1, <2>2, <2>3, <2>4, <2>5, <2>6, <2>7, <2>8, <2>9, <2>10, <2>11 DEF Next
<1>3. QED
  BY <1>1, <1>2, PTL DEF Spec

\* A killed Null vanguard keeps the causal worlds locked, for every number of worlds, and
\* so does an aborted one whose record has the right status.
THEOREM KilledVanguardLocks == Spec => []KilledStaysLocked
<1>1. Lock => KilledStaysLocked
  BY DEF Lock
<1>2. QED
  BY <1>1, LockInvariant, PTL

-------------------------------------------------------------------------------
(* Stopping the Null vanguard early.                                       *)

LEMMA MultiplyMonotone ==
  ASSUME NEW a \in Nat, NEW b \in Nat, NEW c \in Nat, a <= b
  PROVE  a * c <= b * c
<1>1. PICK k \in Nat : b = a + k
  <2>1. b - a \in Nat /\ b = a + (b - a)
    OBVIOUS
  <2>2. QED
    BY <2>1
<1>2. (a + k) * c = a * c + k * c /\ k * c \in Nat /\ a * c \in Nat
  OBVIOUS
<1>3. QED
  BY <1>1, <1>2

LEMMA ProductType ==
  ASSUME NEW a \in Nat, NEW b \in Nat
  PROVE  a * b \in Nat
OBVIOUS

LEMMA DeclaredType ==
  ASSUME NEW S, NEW worlds \in Seq(S), \A i \in DOMAIN worlds : worlds[i].positive \in BOOLEAN
  PROVE  /\ Declared(worlds) \in Seq(BOOLEAN)
         /\ Len(Declared(worlds)) = Len(worlds)
         /\ DOMAIN Declared(worlds) = 1 .. Len(worlds)
<1>1. DOMAIN worlds = 1 .. Len(worlds) /\ Len(worlds) \in Nat
  OBVIOUS
<1>2. Declared(worlds) \in [1 .. Len(worlds) -> BOOLEAN]
  BY <1>1 DEF Declared
<1>3. QED
  BY <1>1, <1>2

LEMMA PositivesFinite ==
  ASSUME NEW declared \in Seq(BOOLEAN)
  PROVE  /\ IsFiniteSet(Positives(declared))
         /\ Cardinality(Positives(declared)) \in Nat
<1>1. IsFiniteSet(1 .. Len(declared))
  BY FS_Interval
<1>2. Positives(declared) \subseteq 1 .. Len(declared)
  BY DEF Positives
<1>3. QED
  BY <1>1, <1>2, FS_Subset, FS_CardinalityType

\* A finished world adds one to the positives, or nothing.
LEMMA PositivesAppend ==
  ASSUME NEW S, NEW worlds \in Seq(S), NEW row,
         \A i \in DOMAIN worlds : worlds[i].positive \in BOOLEAN,
         row.positive \in BOOLEAN
  PROVE  /\ Append(worlds, row) \in Seq(S \cup {row})
         /\ Len(Append(worlds, row)) = Len(worlds) + 1
         /\ \A i \in DOMAIN Append(worlds, row) : Append(worlds, row)[i].positive \in BOOLEAN
         /\ Cardinality(Positives(Declared(Append(worlds, row))))
              = Cardinality(Positives(Declared(worlds))) + IF row.positive THEN 1 ELSE 0
<1> DEFINE longer == Append(worlds, row)
           n == Len(worlds)
<1>1. worlds \in Seq(S \cup {row}) /\ n \in Nat /\ DOMAIN worlds = 1 .. n
  OBVIOUS
<1>2. /\ longer \in Seq(S \cup {row})
      /\ Len(longer) = n + 1
      /\ DOMAIN longer = 1 .. n + 1
      /\ \A i \in 1 .. n : longer[i] = worlds[i]
      /\ longer[n + 1] = row
  BY <1>1, AppendProperties
<1>3. \A i \in DOMAIN longer : longer[i].positive \in BOOLEAN
  BY <1>1, <1>2
<1>4. IsFiniteSet(Positives(Declared(worlds))) /\ n + 1 \notin Positives(Declared(worlds))
  <2>1. Declared(worlds) \in Seq(BOOLEAN) /\ DOMAIN Declared(worlds) = 1 .. n
    BY <1>1, DeclaredType
  <2>2. IsFiniteSet(Positives(Declared(worlds)))
    BY <2>1, PositivesFinite
  <2>3. n + 1 \notin Positives(Declared(worlds))
    BY <1>1, <2>1 DEF Positives
  <2>4. QED
    BY <2>2, <2>3
<1> HIDE DEF longer
<1>5. CASE row.positive
  <2>1. Positives(Declared(longer)) = Positives(Declared(worlds)) \cup {n + 1}
    BY <1>1, <1>2, <1>5 DEF Positives, Declared
  <2>2. Cardinality(Positives(Declared(longer))) = Cardinality(Positives(Declared(worlds))) + 1
    BY <1>4, <2>1, FS_AddElement
  <2>3. QED
    BY <1>2, <1>3, <1>5, <2>2 DEF longer
<1>6. CASE ~ row.positive
  <2>1. Positives(Declared(longer)) = Positives(Declared(worlds))
    BY <1>1, <1>2, <1>6 DEF Positives, Declared
  <2>2. Cardinality(Positives(Declared(worlds))) \in Nat
    BY <1>4, FS_CardinalityType
  <2>3. QED
    BY <1>2, <1>3, <1>6, <2>1, <2>2 DEF longer
<1>7. QED
  BY <1>5, <1>6

\* KillAt positives are the kill, whatever the worlds not executed declare.
LEMMA KillAtDecides ==
  ASSUME NEW declared \in Seq(BOOLEAN), NEW rest \in Seq(BOOLEAN),
         Cardinality(Positives(declared)) >= KillAt
  PROVE  HallucinationKill(declared \o rest)
<1>1. /\ declared \o rest \in Seq(BOOLEAN)
      /\ DOMAIN (declared \o rest) = 1 .. Len(declared) + Len(rest)
      /\ \A i \in 1 .. Len(declared) : (declared \o rest)[i] = declared[i]
      /\ Len(declared) \in Nat /\ Len(rest) \in Nat /\ DOMAIN declared = 1 .. Len(declared)
  BY ConcatProperties
<1>2. Positives(declared) \subseteq Positives(declared \o rest)
  BY <1>1 DEF Positives
<1>3. /\ IsFiniteSet(Positives(declared \o rest))
      /\ Cardinality(Positives(declared)) \in Nat
      /\ Cardinality(Positives(declared \o rest)) \in Nat
  BY <1>1, PositivesFinite
<1>4. Cardinality(Positives(declared)) <= Cardinality(Positives(declared \o rest))
  BY <1>2, <1>3, FS_Subset
<1>5. KillAt \in Nat /\ KillRate[1] \in Nat /\ KillRate[2] \in Nat /\ NullWorlds \in Nat
  BY StudyConstants, AnalysisConstants
<1>6. KillAt <= Cardinality(Positives(declared \o rest))
  BY <1>3, <1>4, <1>5
<1>7. KillAt * KillRate[2] <= Cardinality(Positives(declared \o rest)) * KillRate[2]
  BY <1>3, <1>5, <1>6, MultiplyMonotone
<1> DEFINE reached == KillAt * KillRate[2]
           rate == Cardinality(Positives(declared \o rest)) * KillRate[2]
           kill == KillRate[1] * NullWorlds
<1>8. reached \in Nat /\ rate \in Nat /\ kill \in Nat /\ reached >= kill
  <2>1. reached \in Nat /\ rate \in Nat /\ kill \in Nat
    BY <1>3, <1>5, ProductType
  <2>2. reached >= kill
    BY StudyConstants
  <2>3. QED
    BY <2>1, <2>2
<1> HIDE DEF reached, rate, kill
<1>9. rate >= kill
  BY <1>7, <1>8 DEF reached, rate
<1>10. QED
  BY <1>9 DEF HallucinationKill, rate, kill

\* Fewer positives in all the worlds are not.
LEMMA BelowKillAtDecides ==
  ASSUME NEW declared \in Seq(BOOLEAN), Cardinality(Positives(declared)) < KillAt
  PROVE  ~ HallucinationKill(declared)
<1>1. /\ KillAt \in Nat \ {0} /\ KillRate[1] \in Nat /\ KillRate[2] \in Nat /\ NullWorlds \in Nat
      /\ Cardinality(Positives(declared)) \in Nat
  BY StudyConstants, AnalysisConstants, PositivesFinite
<1>2. Cardinality(Positives(declared)) <= KillAt - 1 /\ KillAt - 1 \in Nat
  BY <1>1
<1>3. Cardinality(Positives(declared)) * KillRate[2] <= (KillAt - 1) * KillRate[2]
  BY <1>1, <1>2, MultiplyMonotone
<1> DEFINE below == (KillAt - 1) * KillRate[2]
           rate == Cardinality(Positives(declared)) * KillRate[2]
           kill == KillRate[1] * NullWorlds
<1>4. below \in Nat /\ rate \in Nat /\ kill \in Nat /\ below < kill
  <2>1. below \in Nat /\ rate \in Nat /\ kill \in Nat
    BY <1>1, <1>2, ProductType
  <2>2. below < kill
    BY StudyConstants
  <2>3. QED
    BY <2>1, <2>2
<1> HIDE DEF below, rate, kill
<1>5. rate < kill
  BY <1>3, <1>4 DEF below, rate
<1>6. QED
  BY <1>4, <1>5 DEF HallucinationKill, rate, kill

\* The Null phase between two worlds: its positives are counted, and short of KillAt.
NullProgress ==
  running = "null" =>
    /\ \/ arms = <<"full">>
       \/ arms = <<>> /\ results["full"] \in {0, 1}
    /\ DOMAIN results = Arms
    /\ rows \in Seq(Range(rows)) /\ Len(rows) < NullWorlds
    /\ \A i \in DOMAIN rows : rows[i].positive \in BOOLEAN
    /\ tally = Cardinality(Positives(Declared(rows))) /\ tally < KillAt

Stop == NullProgress /\ EarlyStopDecides

LEMMA SequenceOfItsRange ==
  ASSUME NEW S, NEW s \in Seq(S)
  PROVE  s \in Seq(Range(s))
<1>1. Len(s) \in Nat /\ DOMAIN s = 1 .. Len(s) /\ s = [i \in 1 .. Len(s) |-> s[i]]
  OBVIOUS
<1>2. \A i \in 1 .. Len(s) : s[i] \in Range(s)
  BY <1>1 DEF Range
<1>3. s \in [1 .. Len(s) -> Range(s)]
  BY <1>1, <1>2
<1>4. QED
  BY <1>1, <1>3

LEMMA EmptyRows ==
  /\ <<>> \in Seq(Range(<<>>)) /\ Len(<<>>) = 0 /\ DOMAIN <<>> = {}
  /\ Cardinality(Positives(Declared(<<>>))) = 0
<1>1. <<>> \in Seq({}) /\ Len(<<>>) = 0 /\ DOMAIN <<>> = {}
  OBVIOUS
<1>2. Positives(Declared(<<>>)) = {}
  BY <1>1 DEF Positives, Declared
<1>3. QED
  BY <1>1, <1>2, SequenceOfItsRange, FS_EmptySet

\* The phase begins.
LEMMA StartKeepsStop ==
  ASSUME Stop, NEW phase \in {"safeguard", "null", "causal"}, Starts(phase)
  PROVE  Stop'
<1>1. evidence' = None /\ running' = phase /\ rows' = <<>> /\ tally' = 0 /\ results' = NoResults
  BY DEF Starts
<1>2. EarlyStopDecides'
  BY <1>1 DEF EarlyStopDecides, Wrote
<1>3. ASSUME phase = "null" PROVE arms' = <<"full">>
  BY <1>3 DEF Starts, ArmOrder
<1>4. 0 < NullWorlds /\ 0 < KillAt
  <2>1. {NullWorlds, KillAt} \subseteq Nat \ {0}
    BY Zenon, StudyConstants, AnalysisConstants
  <2>2. QED
    BY <2>1
<1>5. NullProgress'
  <2>1. DOMAIN results' = Arms
    BY <1>1 DEF NoResults
  <2>2. rows' \in Seq(Range(rows')) /\ Len(rows') = 0 /\ DOMAIN rows' = {}
    BY <1>1, EmptyRows
  <2>3. tally' = Cardinality(Positives(Declared(rows')))
    BY <1>1, EmptyRows
  <2>4. /\ Len(rows') < NullWorlds /\ tally' < KillAt
        /\ \A i \in DOMAIN rows' : rows'[i].positive \in BOOLEAN
    BY <1>1, <1>4, <2>2
  <2>5. running' = "null" => arms' = <<"full">>
    BY <1>1, <1>3
  <2>6. QED
    BY <2>1, <2>2, <2>3, <2>4, <2>5 DEF NullProgress
<1>6. QED
  BY <1>2, <1>5 DEF Stop

\* A process that ends with other evidence, or none, satisfies both.
LEMMA ExitKeepsStop ==
  ASSUME Exits, evidence' = None \/ evidence'.phase # "null" \/ evidence'.class = Aborted
  PROVE  Stop'
<1>1. NullProgress'
  BY StudyConstants DEF Exits, NullProgress
<1>2. EarlyStopDecides'
  BY DEF EarlyStopDecides, Wrote, Aborted
<1>3. QED
  BY <1>1, <1>2 DEF Stop

\* The facts about the rows when a world is done.
LEMMA WorldCounted ==
  ASSUME NullProgress, running = "null", arms = <<>>
  PROVE  LET worlds == Append(rows, NullRow)
             positives == tally + results["full"]
         IN  /\ worlds \in Seq(Range(worlds)) /\ Len(worlds) = Len(rows) + 1 /\ Len(rows) \in Nat
             /\ \A i \in DOMAIN worlds : worlds[i].positive \in BOOLEAN
             /\ positives = Cardinality(Positives(Declared(worlds))) /\ positives \in Nat
<1> DEFINE worlds == Append(rows, NullRow)
<1>1. results["full"] \in {0, 1}
  BY DEF NullProgress
<1>2. /\ rows \in Seq(Range(rows)) /\ \A i \in DOMAIN rows : rows[i].positive \in BOOLEAN
      /\ tally = Cardinality(Positives(Declared(rows)))
  BY DEF NullProgress
<1>3. NullRow.positive = (results["full"] = 1) /\ NullRow.positive \in BOOLEAN
  BY DEF NullRow
<1>4. /\ worlds \in Seq(Range(rows) \cup {NullRow}) /\ Len(worlds) = Len(rows) + 1
      /\ \A i \in DOMAIN worlds : worlds[i].positive \in BOOLEAN
      /\ Cardinality(Positives(Declared(worlds))) = tally + IF NullRow.positive THEN 1 ELSE 0
  BY <1>2, <1>3, PositivesAppend
<1>5. tally \in Nat /\ Len(rows) \in Nat
  BY <1>2, DeclaredType, PositivesFinite
<1>6. Cardinality(Positives(Declared(worlds))) = tally + results["full"]
  BY <1>1, <1>3, <1>4, <1>5
<1>7. worlds \in Seq(Range(worlds))
  BY <1>4, SequenceOfItsRange
<1>8. QED
  BY <1>1, <1>4, <1>5, <1>6, <1>7

LEMMA WorldEndKeepsStop ==
  ASSUME Stop, NullWorldEnds
  PROVE  Stop'
<1> DEFINE worlds == Append(rows, NullRow)
           positives == tally + results["full"]
           declared == Declared(worlds)
<1>1. running = "null" /\ arms = <<>> /\ NullProgress /\ EarlyStopDecides
  BY DEF Stop, NullWorldEnds
<1>2. /\ worlds \in Seq(Range(worlds)) /\ Len(worlds) = Len(rows) + 1 /\ Len(rows) \in Nat
      /\ \A i \in DOMAIN worlds : worlds[i].positive \in BOOLEAN
      /\ positives = Cardinality(Positives(declared)) /\ positives \in Nat
  BY <1>1, WorldCounted
<1>3. declared \in Seq(BOOLEAN) /\ Len(declared) = Len(worlds)
  BY <1>2, DeclaredType
<1>4. NullWorlds \in Nat /\ KillAt \in Nat /\ Len(rows) < NullWorlds
  BY <1>1, StudyConstants, AnalysisConstants DEF NullProgress
<1> HIDE DEF worlds, positives, declared
<1>5. CASE KillReached(positives)
  <2>1. NullWrites("HALLUCINATION_KILL", worlds, positives, usage["full"])
    BY <1>5 DEF NullWorldEnds, worlds, positives
  <2>2. /\ evidence'.worlds = worlds /\ evidence'.class = "HALLUCINATION_KILL"
        /\ running' = None
    BY <2>1 DEF NullWrites, Exits
  <2>3. ASSUME NEW rest \in [1 .. NullWorlds - Len(declared) -> BOOLEAN]
        PROVE  HallucinationKill(declared \o rest)
    <3>1. NullWorlds - Len(declared) \in Nat
      BY <1>2, <1>3, <1>4
    <3>2. rest \in Seq(BOOLEAN)
      BY <3>1
    <3>3. Cardinality(Positives(declared)) >= KillAt
      BY <1>2, <1>5 DEF KillReached
    <3>4. QED
      BY <1>3, <3>2, <3>3, KillAtDecides
  <2>4. EarlyStopDecides'
    BY <2>2, <2>3 DEF EarlyStopDecides, declared
  <2>5. NullProgress'
    BY <2>2, StudyConstants DEF NullProgress
  <2>6. QED
    BY <2>4, <2>5 DEF Stop
<1>6. CASE ~ KillReached(positives) /\ Len(rows) + 1 = NullWorlds
  <2>1. NullWrites("NULL_PASS", worlds, positives, usage["full"])
    BY <1>6 DEF NullWorldEnds, worlds, positives
  <2>2. evidence'.worlds = worlds /\ evidence'.class = "NULL_PASS" /\ running' = None
    BY <2>1 DEF NullWrites, Exits
  <2>3. ~ HallucinationKill(declared)
    BY <1>2, <1>3, <1>4, <1>6, BelowKillAtDecides DEF KillReached
  <2>4. NullWorlds - Len(declared) = 0
    BY <1>2, <1>3, <1>4, <1>6
  <2>5. EarlyStopDecides'
    BY <2>2, <2>3, <2>4 DEF EarlyStopDecides, declared
  <2>6. NullProgress'
    BY <2>2, StudyConstants DEF NullProgress
  <2>7. QED
    BY <2>5, <2>6 DEF Stop
<1>7. CASE ~ KillReached(positives) /\ Len(rows) + 1 # NullWorlds
  <2>1. NextWorld(NullRow) /\ tally' = positives
    BY <1>7 DEF NullWorldEnds, positives
  <2>2. /\ running' = "null" /\ evidence' = evidence /\ rows' = worlds /\ tally' = positives
        /\ results' = NoResults /\ arms' = ArmOrder("null", Len(rows) + 1)
    BY <1>1, <2>1 DEF NextWorld, worlds
  <2>3. arms' = <<"full">> /\ DOMAIN results' = Arms
    BY <2>2 DEF ArmOrder, NoResults
  <2>4. Len(worlds) < NullWorlds /\ positives < KillAt
    BY <1>2, <1>4, <1>7 DEF KillReached
  <2>5. NullProgress'
    <3>1. rows' \in Seq(Range(rows')) /\ Len(rows') < NullWorlds
      BY <1>2, <2>2, <2>4
    <3>2. \A i \in DOMAIN rows' : rows'[i].positive \in BOOLEAN
      BY <1>2, <2>2
    <3>3. tally' = Cardinality(Positives(Declared(rows'))) /\ tally' < KillAt
      BY <1>2, <2>2, <2>4 DEF declared
    <3>4. QED
      BY <2>3, <3>1, <3>2, <3>3 DEF NullProgress
  <2>6. EarlyStopDecides'
    BY <1>1, <2>2 DEF EarlyStopDecides, Wrote
  <2>7. QED
    BY <2>5, <2>6 DEF Stop
<1>8. QED
  BY <1>5, <1>6, <1>7

LEMMA ArmKeepsStop ==
  ASSUME Stop, CallAnswered \/ ArmReturns
  PROVE  Stop'
<1>1. running' = running /\ evidence' = evidence /\ rows' = rows /\ tally' = tally
  BY DEF CallAnswered, ArmReturns
<1>2. EarlyStopDecides'
  BY <1>1 DEF Stop, EarlyStopDecides, Wrote
<1>3. ASSUME running = "null"
      PROVE  /\ arms' = <<"full">> \/ (arms' = <<>> /\ results'["full"] \in {0, 1})
             /\ DOMAIN results' = Arms
  <2>1. CASE CallAnswered
    BY <1>3, <2>1 DEF CallAnswered, Stop, NullProgress
  <2>2. CASE ArmReturns
    <3>1. arms = <<"full">> /\ DOMAIN results = Arms
      BY <1>3, <2>2 DEF ArmReturns, Stop, NullProgress
    <3>2. Head(arms) = "full" /\ Tail(arms) = <<>>
      BY <3>1
    <3>3. PICK value \in 0 .. 1 : results' = [results EXCEPT !["full"] = value]
      BY <1>3, <2>2, <3>2 DEF ArmReturns
    <3>4. results'["full"] \in {0, 1} /\ DOMAIN results' = Arms
      BY <3>1, <3>3 DEF Arms
    <3>5. QED
      BY <2>2, <3>2, <3>4 DEF ArmReturns
  <2>3. QED
    BY <2>1, <2>2
<1>4. NullProgress'
  BY <1>1, <1>3 DEF Stop, NullProgress
<1>5. QED
  BY <1>2, <1>4 DEF Stop

\* Steps outside the Null phase that leave the evidence as it is, or write other evidence.
LEMMA OtherStepKeepsStop ==
  ASSUME Stop, running # "null", running' = running,
         evidence' = evidence \/ evidence'.phase = "safeguard"
  PROVE  Stop'
BY DEF Stop, NullProgress, EarlyStopDecides, Wrote

LEMMA SafeguardKeepsStop ==
  ASSUME Stop,
         \/ StartLive \/ StartReplacement \/ StartV11
         \/ CycleAnswered \/ CycleProviderFails \/ CycleFailsLocally \/ SafeguardCompletes
  PROVE  Stop'
<1>1. ASSUME NEW class, NEW cycles, NEW misses, NEW records,
             SafeguardWrites(class, cycles, misses, records)
      PROVE  Stop'
  BY <1>1, ExitKeepsStop DEF SafeguardWrites, SafeguardEvidence
<1>2. ASSUME NEW records, CycleAborts(records) PROVE Stop'
  BY <1>1, <1>2 DEF CycleAborts
<1>3. ASSUME NEW hit, NEW records, InCycle, CycleEnds(hit, records) PROVE Stop'
  <2>1. running # "null" /\ running' = running /\ evidence' = evidence
    BY <1>3 DEF InCycle, CycleEnds
  <2>2. QED
    BY <2>1, OtherStepKeepsStop
<1>4. ASSUME NEW r, SafeguardStarts(r) PROVE Stop'
  <2>1. CASE Starts("safeguard")
    BY <2>1, StartKeepsStop
  <2>2. CASE ~ Starts("safeguard")
    <3>1. /\ running # "null" /\ running' = running
          /\ evidence' = SafeguardEvidence(Aborted, PendingCycles(Cycles), None, <<>>)
      BY <1>4, <2>2, StudyConstants DEF SafeguardStarts, process
    <3>2. evidence'.phase = "safeguard"
      BY <3>1 DEF SafeguardEvidence
    <3>3. QED
      BY <3>1, <3>2, OtherStepKeepsStop
  <2>3. QED
    BY <2>1, <2>2
<1>5. QED
  BY <1>1, <1>2, <1>3, <1>4 DEF StartLive, StartReplacement, StartV11, CycleAnswered, CycleInvalid,
     CycleProviderFails, CycleFailsLocally, SafeguardCompletes

LEMMA StopInvariant == Spec => []Stop
<1>1. Init => Stop
  BY StudyConstants DEF Init, Stop, NullProgress, EarlyStopDecides, Wrote
<1>2. Stop /\ [Next]_vars => Stop'
  <2> SUFFICES ASSUME Stop, [Next]_vars PROVE Stop'
    OBVIOUS
  <2>1. CASE \/ StartLive \/ StartReplacement \/ StartV11
             \/ CycleAnswered \/ CycleProviderFails \/ CycleFailsLocally \/ SafeguardCompletes
    BY <2>1, SafeguardKeepsStop
  <2>2. CASE Authorize \/ Ratify \/ UNCHANGED vars
    BY <2>2 DEF Authorize, Ratify, vars, process, Stop, NullProgress, EarlyStopDecides, Wrote
  <2>3. CASE StartNull \/ StartCausal
    BY <2>3, StartKeepsStop DEF StartNull, StartCausal
  <2>4. CASE CallAnswered \/ ArmReturns
    BY <2>4, ArmKeepsStop
  <2>5. CASE NullProviderFails
    BY <2>5, ExitKeepsStop DEF NullProviderFails, NullWrites
  <2>6. CASE NullWorldEnds
    BY <2>6, WorldEndKeepsStop
  <2>7. CASE CausalProviderFails
    BY <2>7, ExitKeepsStop DEF CausalProviderFails
  <2>8. CASE PairEnds
    <3>1. CASE Len(rows) + 1 = CausalWorlds
      <4>1. Exits /\ evidence'.phase = "causal"
        BY <2>8, <3>1 DEF PairEnds, CausalCompletes
      <4>2. QED
        BY <4>1, ExitKeepsStop
    <3>2. CASE Len(rows) + 1 # CausalWorlds
      <4>1. running # "null" /\ running' = running /\ evidence' = evidence
        BY <2>8, <3>2 DEF PairEnds, NextWorld
      <4>2. QED
        BY <4>1, OtherStepKeepsStop
    <3>3. QED
      BY <3>1, <3>2
  <2>9. CASE Killed
    BY <2>9, ExitKeepsStop DEF Killed
  <2>10. QED
    BY <2>1, <2>2, <2>3, <2>4, <2>5, <2>6, <2>7, <2>8, <2>9 DEF Next
<1>3. QED
  BY <1>1, <1>2, PTL DEF Spec

\* For every number of Null worlds and every registered rate, what an early stop reports
\* is what the registered analysis of all the worlds would have decided.
THEOREM EarlyStopIsTheAnalysis == Spec => []EarlyStopDecides
<1>1. Stop => EarlyStopDecides
  BY DEF Stop
<1>2. QED
  BY <1>1, StopInvariant, PTL

-------------------------------------------------------------------------------
(* The safeguard's verdict.                                                *)

\* Between two cycles every answered cycle has its usage record, and the misses counted
\* are all the cycles exactly if none has hit.
CycleProgress ==
  running = "safeguard" =>
    /\ arms = <<>>
    /\ rows \in Seq(Range(rows)) /\ Len(rows) <= Cycles
    /\ \A i \in DOMAIN rows : rows[i].hit \in BOOLEAN /\ rows[i].usage_index = i - 1
    /\ DOMAIN usage = Arms /\ DOMAIN starts = Arms
    /\ usage["full"] \in Seq(Range(usage["full"])) /\ Len(usage["full"]) = Len(rows)
    /\ starts["full"] = Len(rows)
    /\ tally \in 0 .. Len(rows)
    /\ tally = Len(rows) <=> \A i \in DOMAIN rows : ~ rows[i].hit

Honest == CycleProgress /\ InfrastructureIsNoVerdict

\* _invoke appends one record to the sink, or none.
LEMMA InvokeAppends ==
  ASSUME NEW records, records \in Seq(Range(records)), NEW response,
         NEW longer, longer = Invoke(records, response)
  PROVE  /\ longer \in Seq(Range(longer))
         /\ Raises(response) => longer = records
         /\ ~ Raises(response) => Len(longer) = Len(records) + 1
<1>1. CASE Raises(response)
  BY <1>1 DEF Invoke
<1>2. CASE ~ Raises(response)
  <2>1. longer = Append(records, response.total_tokens)
    BY <1>2 DEF Invoke
  <2>2. records \in Seq(Range(records) \cup {response.total_tokens})
    OBVIOUS
  <2>3. /\ longer \in Seq(Range(records) \cup {response.total_tokens})
        /\ Len(longer) = Len(records) + 1
    BY <2>1, <2>2, AppendProperties
  <2>4. QED
    BY <1>2, <2>3, SequenceOfItsRange
<1>3. QED
  BY <1>1, <1>2

LEMMA RowAppended ==
  ASSUME CycleProgress, InCycle, NEW hit \in BOOLEAN,
         NEW longer, longer = Append(rows, CycleRow(hit, starts["full"]))
  PROVE  /\ longer \in Seq(Range(longer))
         /\ Len(rows) \in Nat /\ Len(longer) = Len(rows) + 1
         /\ DOMAIN rows = 1 .. Len(rows) /\ DOMAIN longer = 1 .. Len(rows) + 1
         /\ \A i \in DOMAIN rows : longer[i] = rows[i]
         /\ longer[Len(rows) + 1].hit = hit /\ longer[Len(rows) + 1].usage_index = Len(rows)
<1> DEFINE row == CycleRow(hit, starts["full"])
<1>1. rows \in Seq(Range(rows)) /\ starts["full"] = Len(rows)
  BY DEF InCycle, CycleProgress
<1>2. row.hit = hit /\ row.usage_index = Len(rows)
  BY <1>1 DEF CycleRow
<1> HIDE DEF row
<1>3. rows \in Seq(Range(rows) \cup {row}) /\ longer = Append(rows, row)
  BY <1>1 DEF row
<1>4. /\ longer \in Seq(Range(rows) \cup {row})
      /\ Len(longer) = Len(rows) + 1 /\ longer[Len(rows) + 1] = row
      /\ \A i \in 1 .. Len(rows) : longer[i] = rows[i]
  BY <1>3, AppendProperties
<1>5. longer \in Seq(Range(longer))
  BY <1>4, SequenceOfItsRange
<1>6. /\ Len(rows) \in Nat /\ DOMAIN rows = 1 .. Len(rows) /\ DOMAIN longer = 1 .. Len(rows) + 1
  BY <1>1, <1>4
<1>7. QED
  BY <1>2, <1>4, <1>5, <1>6

LEMMA CycleEndKeepsHonest ==
  ASSUME Honest, InCycle, NEW hit \in BOOLEAN, NEW records,
         records \in Seq(Range(records)), Len(records) = starts["full"] + 1,
         CycleEnds(hit, records)
  PROVE  Honest'
<1>1. InfrastructureIsNoVerdict'
  BY DEF CycleEnds, Honest, InfrastructureIsNoVerdict, Wrote
<1>2. running = "safeguard" /\ CycleProgress
  BY DEF InCycle, Honest
<1>3. /\ rows' \in Seq(Range(rows')) /\ Len(rows) \in Nat /\ Len(rows') = Len(rows) + 1
      /\ DOMAIN rows = 1 .. Len(rows) /\ DOMAIN rows' = 1 .. Len(rows) + 1
      /\ \A i \in DOMAIN rows : rows'[i] = rows[i]
      /\ rows'[Len(rows) + 1].hit = hit /\ rows'[Len(rows) + 1].usage_index = Len(rows)
  BY <1>2, RowAppended DEF CycleEnds
<1>4. /\ DOMAIN usage = Arms /\ DOMAIN starts = Arms /\ starts["full"] = Len(rows) /\ "full" \in Arms
      /\ arms = <<>>
      /\ \A i \in DOMAIN rows : rows[i].hit \in BOOLEAN /\ rows[i].usage_index = i - 1
      /\ tally \in 0 .. Len(rows)
      /\ tally = Len(rows) <=> \A i \in DOMAIN rows : ~ rows[i].hit
  BY <1>2 DEF CycleProgress, Arms
<1>5. /\ usage'["full"] = records /\ starts'["full"] = Len(records) /\ arms' = <<>>
      /\ DOMAIN usage' = Arms /\ DOMAIN starts' = Arms
      /\ tally' = (IF hit THEN 0 ELSE tally + 1)
  BY <1>4 DEF CycleEnds
<1>6. Len(rows) < Cycles
  BY DEF InCycle
<1> DEFINE n == Len(rows)
           longer == rows'
           misses == tally'
<1>7. Len(longer) <= Cycles /\ Len(records) = Len(longer)
  <2>1. n \in Nat /\ n < Cycles /\ Len(longer) = n + 1 /\ starts["full"] = n
    BY <1>3, <1>4, <1>6
  <2> HIDE DEF n, longer
  <2>2. QED
    BY <2>1 DEF Cycles
<1>8. \A i \in DOMAIN longer : longer[i].hit \in BOOLEAN /\ longer[i].usage_index = i - 1
  <2>1. /\ n \in Nat /\ DOMAIN rows = 1 .. n /\ DOMAIN longer = 1 .. n + 1
        /\ \A i \in DOMAIN rows : longer[i] = rows[i]
        /\ longer[n + 1].hit = hit /\ longer[n + 1].usage_index = n
    BY <1>3
  <2> HIDE DEF n, longer
  <2> TAKE i \in DOMAIN longer
  <2>2. CASE i = n + 1
    BY <2>1, <2>2
  <2>3. CASE i # n + 1
    BY <1>4, <2>1, <2>3
  <2>4. QED
    BY <2>2, <2>3
<1>9. /\ misses \in 0 .. Len(longer)
      /\ misses = Len(longer) <=> \A i \in DOMAIN longer : ~ longer[i].hit
  <2>1. /\ n \in Nat /\ DOMAIN rows = 1 .. n /\ DOMAIN longer = 1 .. n + 1 /\ Len(longer) = n + 1
        /\ \A i \in DOMAIN rows : longer[i] = rows[i]
        /\ longer[n + 1].hit = hit
        /\ misses = (IF hit THEN 0 ELSE tally + 1)
        /\ tally \in 0 .. n
        /\ tally = n <=> \A i \in DOMAIN rows : ~ rows[i].hit
    BY <1>3, <1>4, <1>5
  <2> HIDE DEF n, longer, misses
  <2>2. CASE hit
    <3>1. misses = 0 /\ n + 1 \in DOMAIN longer /\ longer[n + 1].hit
      BY <2>1, <2>2
    <3>2. QED
      BY <2>1, <3>1
  <2>3. CASE ~ hit
    <3>1. (\A i \in DOMAIN longer : ~ longer[i].hit) <=> \A i \in DOMAIN rows : ~ rows[i].hit
      <4>1. DOMAIN longer = DOMAIN rows \cup {n + 1}
        BY <2>1
      <4>2. QED
        BY <2>1, <2>3, <4>1
    <3>2. misses = tally + 1
      BY <2>1, <2>3
    <3>3. QED
      BY <2>1, <3>1, <3>2
  <2>4. QED
    BY <2>2, <2>3
<1>10. CycleProgress'
  BY <1>3, <1>5, <1>7, <1>8, <1>9 DEF CycleProgress
<1>11. QED
  BY <1>1, <1>10 DEF Honest

\* The evidence of an abort with the answered cycles in front.
LEMMA AbortKeepsHonest ==
  ASSUME Honest, InCycle, CycleAborts(usage["full"])
  PROVE  Honest'
<1> DEFINE pending == PendingCycles(Cycles - Len(rows))
           cycles == rows \o pending
<1>1. running = "safeguard" /\ CycleProgress /\ Len(rows) < Cycles
  BY DEF InCycle, Honest
<1>2. /\ rows \in Seq(Range(rows)) /\ Len(usage["full"]) = Len(rows)
      /\ \A i \in DOMAIN rows : rows[i].hit \in BOOLEAN /\ rows[i].usage_index = i - 1
  BY <1>1 DEF CycleProgress
<1>3. Len(rows) \in Nat /\ DOMAIN rows = 1 .. Len(rows) /\ Cycles - Len(rows) \in Nat
  BY <1>1, <1>2 DEF Cycles
<1>4. /\ pending \in Seq({CycleRow(None, None)}) /\ Len(pending) = Cycles - Len(rows)
      /\ \A i \in 1 .. Cycles - Len(rows) : pending[i] = CycleRow(None, None)
  <2>1. pending \in [1 .. Cycles - Len(rows) -> {CycleRow(None, None)}]
    BY DEF PendingCycles
  <2>2. QED
    BY <1>3, <2>1
<1>5. CycleRow(None, None).hit = None
  BY DEF CycleRow
<1> HIDE DEF pending
<1>6. /\ rows \in Seq(Range(rows) \cup {CycleRow(None, None)})
      /\ pending \in Seq(Range(rows) \cup {CycleRow(None, None)})
  BY <1>2, <1>4
<1>7. /\ cycles \in Seq(Range(rows) \cup {CycleRow(None, None)})
      /\ Len(cycles) = Len(rows) + Len(pending)
      /\ \A i \in 1 .. Len(rows) : cycles[i] = rows[i]
      /\ \A i \in Len(rows) + 1 .. Len(rows) + Len(pending) : cycles[i] = pending[i - Len(rows)]
  BY <1>3, <1>4, <1>6, ConcatProperties
<1> HIDE DEF cycles
<1>8. DOMAIN cycles = 1 .. Cycles
  BY <1>3, <1>4, <1>7 DEF Cycles
<1>9. \A i \in Len(rows) + 1 .. Cycles : cycles[i].hit = None
  <2> TAKE i \in Len(rows) + 1 .. Cycles
  <2>1. i \in Len(rows) + 1 .. Len(rows) + Len(pending) /\ i - Len(rows) \in 1 .. Cycles - Len(rows)
    BY <1>3, <1>4 DEF Cycles
  <2>2. QED
    BY <1>4, <1>5, <1>7, <2>1
<1>10. {i \in DOMAIN cycles : cycles[i].hit # None} = 1 .. Len(rows)
  BY <1>2, <1>3, <1>7, <1>8, <1>9, StudyConstants DEF Cycles
<1>11. \A i \in 1 .. Len(rows) : cycles[i].usage_index = i - 1
  BY <1>2, <1>3, <1>7
<1>12. SafeguardWrites(Aborted, cycles, None, usage["full"])
  BY DEF CycleAborts, cycles, pending
<1>13. /\ evidence'.cycles = cycles /\ evidence'.usage = usage["full"]
       /\ evidence'.class = Aborted /\ evidence'.misses = None /\ running' = None
  BY <1>12 DEF SafeguardWrites, SafeguardEvidence, Exits
<1>14. InfrastructureIsNoVerdict'
  BY <1>2, <1>10, <1>11, <1>13 DEF InfrastructureIsNoVerdict
<1>15. CycleProgress'
  BY <1>13, StudyConstants DEF CycleProgress
<1>16. QED
  BY <1>14, <1>15 DEF Honest

LEMMA VerdictKeepsHonest ==
  ASSUME Honest, SafeguardCompletes
  PROVE  Honest'
<1>1. /\ running = "safeguard" /\ CycleProgress /\ Len(rows) = Cycles
      /\ SafeguardWrites(Verdict(tally), rows, tally, usage["full"])
  BY DEF SafeguardCompletes, Honest
<1>2. /\ evidence'.cycles = rows /\ evidence'.usage = usage["full"]
      /\ evidence'.class = Verdict(tally) /\ evidence'.misses = tally /\ running' = None
  BY <1>1 DEF SafeguardWrites, SafeguardEvidence, Exits
<1>3. /\ rows \in Seq(Range(rows)) /\ Len(usage["full"]) = Cycles /\ tally \in 0 .. Cycles
      /\ \A i \in DOMAIN rows : rows[i].hit \in BOOLEAN /\ rows[i].usage_index = i - 1
      /\ tally = Cycles <=> \A i \in DOMAIN rows : ~ rows[i].hit
  BY <1>1 DEF CycleProgress
<1>4. DOMAIN rows = 1 .. Cycles
  BY <1>1, <1>3
<1>5. {i \in DOMAIN rows : rows[i].hit # None} = 1 .. Cycles
  BY <1>3, <1>4, StudyConstants
<1>6. Verdict(tally) # Aborted /\ tally # None
  BY <1>3, StudyConstants DEF Verdict, Aborted, Cycles
<1>7. Verdict(tally) = "COMPLETED_PASS" <=> \E i \in 1 .. Cycles : rows[i].hit
  BY <1>3, <1>4 DEF Verdict, Cycles
<1>8. InfrastructureIsNoVerdict'
  BY <1>2, <1>3, <1>4, <1>5, <1>6, <1>7 DEF InfrastructureIsNoVerdict
<1>9. CycleProgress'
  BY <1>2, StudyConstants DEF CycleProgress
<1>10. QED
  BY <1>8, <1>9 DEF Honest

LEMMA StartsKeepsHonest ==
  ASSUME NEW phase \in {"safeguard", "null", "causal"}, Starts(phase)
  PROVE  Honest'
<1>1. /\ evidence' = None /\ running' = phase /\ rows' = <<>> /\ tally' = 0
      /\ usage' = NoRecords /\ starts' = [arm \in Arms |-> 0]
  BY DEF Starts
<1>2. InfrastructureIsNoVerdict'
  BY <1>1 DEF InfrastructureIsNoVerdict, Wrote
<1>3. ASSUME phase = "safeguard" PROVE arms' = <<>>
  BY <1>3 DEF Starts, ArmOrder
<1>4. /\ usage'["full"] = <<>> /\ starts'["full"] = 0 /\ DOMAIN usage' = Arms /\ DOMAIN starts' = Arms
  BY <1>1 DEF NoRecords, Arms
<1>5. /\ rows' \in Seq(Range(rows')) /\ Len(rows') = 0 /\ DOMAIN rows' = {}
      /\ usage'["full"] \in Seq(Range(usage'["full"])) /\ Len(usage'["full"]) = 0
  BY <1>1, <1>4, EmptyRows
<1>6. CycleProgress'
  BY <1>1, <1>3, <1>4, <1>5 DEF CycleProgress, Cycles
<1>7. QED
  BY <1>2, <1>6 DEF Honest

LEMMA StartKeepsHonest ==
  ASSUME Honest, NEW r, SafeguardStarts(r)
  PROVE  Honest'
<1>1. CASE Starts("safeguard")
  BY <1>1, StartsKeepsHonest
<1>2. CASE ~ Starts("safeguard")
  <2> DEFINE cycles == PendingCycles(Cycles)
  <2>1. /\ running' = None
        /\ evidence' = SafeguardEvidence(Aborted, cycles, None, <<>>)
    BY <1>2 DEF SafeguardStarts, process
  <2>2. /\ evidence'.cycles = cycles /\ evidence'.usage = <<>>
        /\ evidence'.class = Aborted /\ evidence'.misses = None
    BY <2>1 DEF SafeguardEvidence
  <2>3. {i \in DOMAIN cycles : cycles[i].hit # None} = {}
    BY DEF PendingCycles, CycleRow
  <2> HIDE DEF cycles
  <2>4. Len(<<>>) = 0 /\ 1 .. 0 = {}
    OBVIOUS
  <2>5. InfrastructureIsNoVerdict'
    BY <2>2, <2>3, <2>4 DEF InfrastructureIsNoVerdict
  <2>6. CycleProgress'
    BY <2>1, StudyConstants DEF CycleProgress
  <2>7. QED
    BY <2>5, <2>6 DEF Honest
<1>3. QED
  BY <1>1, <1>2

LEMMA CycleKeepsHonest ==
  ASSUME Honest, CycleAnswered \/ CycleProviderFails \/ CycleFailsLocally
  PROVE  Honest'
<1> DEFINE records == usage["full"]
<1>1. /\ InCycle /\ running = "safeguard"
      /\ records \in Seq(Range(records)) /\ starts["full"] = Len(records) /\ Len(records) \in Nat
  BY DEF CycleAnswered, CycleProviderFails, CycleFailsLocally, InCycle, Honest, CycleProgress
<1>2. ASSUME NEW response \in Responses, ~ Raises(response)
      PROVE  /\ Invoke(records, response) \in Seq(Range(Invoke(records, response)))
             /\ Len(Invoke(records, response)) = starts["full"] + 1
  BY <1>1, <1>2, InvokeAppends
<1>3. CASE CycleAnswered
  <2>1. PICK response \in Responses :
          /\ ~ Raises(response)
          /\ \/ CycleInvalid(Invoke(records, response))
             \/ \E hit \in BOOLEAN : CycleEnds(hit, Invoke(records, response))
    BY <1>3 DEF CycleAnswered
  <2>2. \E hit \in BOOLEAN : CycleEnds(hit, Invoke(records, response))
    BY <1>2, <2>1 DEF CycleInvalid
  <2>3. QED
    BY <1>1, <1>2, <2>1, <2>2, CycleEndKeepsHonest
<1>4. CASE CycleProviderFails
  <2>1. PICK response \in Responses : Raises(response) /\ CycleAborts(Invoke(records, response))
    BY <1>4 DEF CycleProviderFails
  <2>2. Invoke(records, response) = records
    BY <2>1 DEF Invoke
  <2>3. QED
    BY <1>1, <2>1, <2>2, AbortKeepsHonest
<1>5. CASE CycleFailsLocally
  <2>1. Len(records) # starts["full"] + 1
    BY <1>1
  <2>2. CycleAborts(records)
    BY <1>5, <2>1 DEF CycleFailsLocally, CycleInvalid
  <2>3. QED
    BY <1>1, <2>2, AbortKeepsHonest
<1>6. QED
  BY <1>3, <1>4, <1>5

\* A process outside a safeguard leaves the evidence as it is or ends.
LEMMA OtherStepKeepsHonest ==
  ASSUME Honest,
         \/ running # "safeguard" /\ running' = running /\ evidence' = evidence
         \/ running' = None /\ (evidence' = None \/ evidence'.phase # "safeguard")
  PROVE  Honest'
BY StudyConstants DEF Honest, CycleProgress, InfrastructureIsNoVerdict, Wrote

LEMMA HonestInvariant == Spec => []Honest
<1>1. Init => Honest
  BY StudyConstants DEF Init, Honest, CycleProgress, InfrastructureIsNoVerdict, Wrote
<1>2. Honest /\ [Next]_vars => Honest'
  <2> SUFFICES ASSUME Honest, [Next]_vars PROVE Honest'
    OBVIOUS
  <2>1. CASE StartLive \/ StartReplacement \/ StartV11
    BY <2>1, StartKeepsHonest DEF StartLive, StartReplacement, StartV11
  <2>2. CASE CycleAnswered \/ CycleProviderFails \/ CycleFailsLocally
    BY <2>2, CycleKeepsHonest
  <2>3. CASE SafeguardCompletes
    BY <2>3, VerdictKeepsHonest
  <2>4. CASE Authorize \/ Ratify \/ UNCHANGED vars
    BY <2>4 DEF Authorize, Ratify, vars, process, Honest, CycleProgress,
                InfrastructureIsNoVerdict, Wrote
  <2>5. CASE StartNull \/ StartCausal
    BY <2>5, StartsKeepsHonest DEF StartNull, StartCausal
  <2>6. CASE CallAnswered \/ ArmReturns
    <3>1. arms # <<>> /\ running' = running /\ evidence' = evidence
      BY <2>6 DEF CallAnswered, ArmReturns, Calling
    <3>2. running # "safeguard"
      BY <3>1 DEF Honest, CycleProgress
    <3>3. QED
      BY <3>1, <3>2, OtherStepKeepsHonest
  <2>7. CASE NullProviderFails \/ CausalProviderFails \/ Killed
    <3>1. running' = None /\ (evidence' = None \/ evidence'.phase # "safeguard")
      BY <2>7 DEF NullProviderFails, NullWrites, CausalProviderFails, Killed, Exits
    <3>2. QED
      BY <3>1, OtherStepKeepsHonest
  <2>8. CASE NullWorldEnds \/ PairEnds
    <3>1. \/ running # "safeguard" /\ running' = running /\ evidence' = evidence
          \/ running' = None /\ evidence'.phase # "safeguard"
      BY <2>8 DEF NullWorldEnds, NullWrites, PairEnds, CausalCompletes, NextWorld, Exits
    <3>2. QED
      BY <3>1, OtherStepKeepsHonest
  <2>9. QED
    BY <2>1, <2>2, <2>3, <2>4, <2>5, <2>6, <2>7, <2>8 DEF Next
<1>3. QED
  BY <1>1, <1>2, PTL DEF Spec

\* A verdict of the safeguard is about three cycles the provider answered, whatever the
\* tokens it reports and whatever a response fails on.
THEOREM VerdictNeedsAnswers == Spec => []InfrastructureIsNoVerdict
<1>1. Honest => InfrastructureIsNoVerdict
  BY DEF Honest
<1>2. QED
  BY <1>1, HonestInvariant, PTL

-------------------------------------------------------------------------------
(* Induction over sets of numbers, since no prover takes a predicate.       *)

Less == {p \in Nat \X Nat : p[1] < p[2]}

\* A nonempty set of numbers has a least one.
LEMMA LeastNatural ==
  ASSUME NEW S, S \subseteq Nat, S # {}
  PROVE  \E m \in S : \A k \in S : m <= k
<1>1. IsWellFoundedOn(Less, Nat)
  BY Zenon, NatLessThanWellFounded DEF OpToRel, Less
<1>2. PICK m \in S : \A k \in S : ~ (<<k, m>> \in Less)
  BY <1>1, WFMin
<1>3. ASSUME NEW k \in S PROVE m <= k
  <2>1. k \in Nat /\ m \in Nat /\ ~ (<<k, m>> \in Less)
    BY <1>2
  <2>2. ~ (k < m)
    BY <2>1 DEF Less
  <2>3. QED
    BY <2>1, <2>2
<1>4. QED
  BY <1>3

\* Induction, over a set of numbers.
LEMMA EveryNatural ==
  ASSUME NEW S, 0 \in S, \A n \in S \cap Nat : n + 1 \in S
  PROVE  Nat \subseteq S
<1> SUFFICES ASSUME Nat \ S # {} PROVE FALSE
  OBVIOUS
<1>1. PICK m \in Nat \ S : \A k \in Nat \ S : m <= k
  BY LeastNatural
<1>2. m # 0 /\ m - 1 \in Nat /\ ~ (m <= m - 1)
  BY <1>1
<1>3. m - 1 \in S
  BY <1>1, <1>2
<1>4. QED
  BY <1>1, <1>2, <1>3

-------------------------------------------------------------------------------
(* Sums.                                                                   *)

Pick(s) == CHOOSE x \in s : TRUE
Folded(f, g, s) == IF s = {} THEN 0 ELSE f[Pick(s)] + g[s \ {Pick(s)}]
SumsBelow(f) == CHOOSE g : g = [s \in SUBSET DOMAIN f |-> Folded(f, g, s)]

\* SumOf is the value at the whole domain of a function that is computed set by set.
LEMMA SumIsFolded ==
  ASSUME NEW f
  PROVE  SumOf(f) = SumsBelow(f)[DOMAIN f]
BY Zenon DEF SumOf, MapThenSumSet, MapThenFoldSet, SumsBelow, Folded, Pick

LEMMA SubsetOfFinite ==
  ASSUME NEW D, IsFiniteSet(D), NEW s \in SUBSET D
  PROVE  /\ IsFiniteSet(s) /\ Cardinality(s) \in Nat /\ Cardinality(s) <= Cardinality(D)
         /\ Cardinality(s) = 0 <=> s = {}
         /\ \A x \in s : /\ s \ {x} \in SUBSET D
                         /\ Cardinality(s \ {x}) \in Nat
                         /\ Cardinality(s \ {x}) = Cardinality(s) - 1
<1>1. IsFiniteSet(s) /\ Cardinality(s) <= Cardinality(D)
  BY FS_Subset
<1>2. Cardinality(s) \in Nat
  BY <1>1, FS_CardinalityType
<1>3. Cardinality(s) = 0 <=> s = {}
  BY <1>1, FS_EmptySet
<1>4. ASSUME NEW x \in s
      PROVE  /\ s \ {x} \in SUBSET D
             /\ Cardinality(s \ {x}) \in Nat
             /\ Cardinality(s \ {x}) = Cardinality(s) - 1
  BY <1>1, FS_RemoveElement, FS_CardinalityType
<1>5. QED
  BY <1>1, <1>2, <1>3, <1>4

LEMMA PickIsElement ==
  ASSUME NEW s, s # {}
  PROVE  Pick(s) \in s
BY DEF Pick

\* For every size there is a function that is right on the sets up to that size.
LEMMA SumsUpTo ==
  ASSUME NEW f, IsFiniteSet(DOMAIN f)
  PROVE  \A n \in Nat : \E g : \A s \in SUBSET DOMAIN f :
           Cardinality(s) <= n => g[s] = Folded(f, g, s)
<1> DEFINE D == DOMAIN f
           Right(g, n) == \A s \in SUBSET D : Cardinality(s) <= n => g[s] = Folded(f, g, s)
           Sizes == {n \in Nat : \E g : Right(g, n)}
<1>1. 0 \in Sizes
  <2> DEFINE g == [s \in SUBSET D |-> 0]
  <2>1. ASSUME NEW s \in SUBSET D, Cardinality(s) <= 0 PROVE g[s] = Folded(f, g, s)
    <3>1. s = {}
      BY <2>1, SubsetOfFinite
    <3>2. QED
      BY <3>1 DEF Folded
  <2>2. Right(g, 0)
    BY <2>1
  <2>3. QED
    BY <2>2
<1>2. ASSUME NEW n \in Sizes \cap Nat PROVE n + 1 \in Sizes
  <2>1. PICK g : Right(g, n)
    BY <1>2
  <2> DEFINE h == [s \in SUBSET D |-> Folded(f, g, s)]
  <2>2. ASSUME NEW s \in SUBSET D, Cardinality(s) <= n + 1 PROVE h[s] = Folded(f, h, s)
    <3>1. CASE s = {}
      BY <3>1 DEF Folded
    <3>2. CASE s # {}
      <4> DEFINE r == s \ {Pick(s)}
      <4>1. Pick(s) \in s
        BY <3>2, PickIsElement
      <4>2. r \in SUBSET D /\ Cardinality(r) <= n
        BY <2>2, <4>1, SubsetOfFinite
      <4>3. g[r] = Folded(f, g, r)
        BY <2>1, <4>2
      <4>4. h[r] = Folded(f, g, r)
        BY <4>2
      <4>5. h[s] = f[Pick(s)] + g[r]
        BY <3>2 DEF Folded
      <4> HIDE DEF h
      <4>6. Folded(f, h, s) = f[Pick(s)] + h[r]
        BY <3>2 DEF Folded
      <4>7. QED
        BY <4>3, <4>4, <4>5, <4>6
    <3>3. QED
      BY <3>1, <3>2
  <2> HIDE DEF h
  <2>3. Right(h, n + 1)
    BY <2>2
  <2>4. QED
    BY <2>3
<1> HIDE DEF Sizes
<1>3. Nat \subseteq Sizes
  BY <1>1, <1>2, EveryNatural
<1>4. QED
  BY <1>3 DEF Sizes

\* So the function SumOf chooses exists.
LEMMA SumsBelowFolds ==
  ASSUME NEW f, IsFiniteSet(DOMAIN f)
  PROVE  \A s \in SUBSET DOMAIN f : SumsBelow(f)[s] = Folded(f, SumsBelow(f), s)
<1> DEFINE D == DOMAIN f
           Is(g) == g = [s \in SUBSET D |-> Folded(f, g, s)]
<1>1. Cardinality(D) \in Nat
  BY FS_CardinalityType
<1>2. PICK h : \A s \in SUBSET D : Cardinality(s) <= Cardinality(D) => h[s] = Folded(f, h, s)
  BY <1>1, SumsUpTo
<1> DEFINE g == [s \in SUBSET D |-> h[s]]
<1>3. ASSUME NEW s \in SUBSET D PROVE g[s] = Folded(f, g, s)
  <2>1. h[s] = Folded(f, h, s)
    BY <1>2, SubsetOfFinite
  <2>2. s \ {Pick(s)} \in SUBSET D
    OBVIOUS
  <2>3. g[s] = h[s] /\ g[s \ {Pick(s)}] = h[s \ {Pick(s)}]
    BY <2>2
  <2> HIDE DEF g
  <2>4. QED
    BY <2>1, <2>3 DEF Folded
<1>4. Is(g)
  BY <1>3
<1> HIDE DEF g
<1>5. \E e : Is(e)
  BY <1>4
<1>6. Is(SumsBelow(f))
  BY <1>5 DEF SumsBelow
<1>7. QED
  BY <1>6

LEMMA SumsAreIntegers ==
  ASSUME NEW f, IsFiniteSet(DOMAIN f), \A i \in DOMAIN f : f[i] \in Int
  PROVE  \A s \in SUBSET DOMAIN f : SumsBelow(f)[s] \in Int
<1> DEFINE D == DOMAIN f
           g == SumsBelow(f)
           Sizes == {n \in Nat : \A s \in SUBSET D : Cardinality(s) = n => g[s] \in Int}
<1>1. \A s \in SUBSET D : g[s] = Folded(f, g, s)
  BY SumsBelowFolds
<1> HIDE DEF g
<1>2. 0 \in Sizes
  <2>1. ASSUME NEW s \in SUBSET D, Cardinality(s) = 0 PROVE g[s] \in Int
    <3>1. s = {}
      BY <2>1, SubsetOfFinite
    <3>2. g[s] = 0
      BY <1>1, <3>1 DEF Folded
    <3>3. QED
      BY <3>2
  <2>2. QED
    BY <2>1
<1>3. ASSUME NEW n \in Sizes \cap Nat PROVE n + 1 \in Sizes
  <2>1. ASSUME NEW s \in SUBSET D, Cardinality(s) = n + 1 PROVE g[s] \in Int
    <3> DEFINE p == Pick(s)
    <3>1. s # {}
      BY <1>3, <2>1, SubsetOfFinite
    <3>2. p \in s
      BY <3>1, PickIsElement
    <3>3. g[s] = f[p] + g[s \ {p}]
      BY <1>1, <3>1 DEF Folded
    <3> HIDE DEF p
    <3>4. s \ {p} \in SUBSET D /\ Cardinality(s \ {p}) = n
      BY <1>3, <2>1, <3>2, SubsetOfFinite
    <3>5. g[s \ {p}] \in Int /\ f[p] \in Int
      BY <1>3, <3>2, <3>4
    <3>6. QED
      BY <3>3, <3>5
  <2>2. QED
    BY <2>1
<1> HIDE DEF Sizes
<1>4. Nat \subseteq Sizes
  BY <1>2, <1>3, EveryNatural
<1>5. ASSUME NEW s \in SUBSET D PROVE g[s] \in Int
  <2>1. Cardinality(s) \in Sizes
    BY <1>4, SubsetOfFinite
  <2>2. QED
    BY <2>1 DEF Sizes
<1>6. QED
  BY <1>5 DEF g

\* The order in which elements are picked does not matter.
LEMMA AnyOrder ==
  ASSUME NEW f, IsFiniteSet(DOMAIN f), \A i \in DOMAIN f : f[i] \in Int
  PROVE  \A s \in SUBSET DOMAIN f : \A x \in s :
           SumsBelow(f)[s] = f[x] + SumsBelow(f)[s \ {x}]
<1> DEFINE D == DOMAIN f
           g == SumsBelow(f)
           Splits(s) == \A x \in s : g[s] = f[x] + g[s \ {x}]
           Sizes == {n \in Nat : \A s \in SUBSET D : Cardinality(s) = n => Splits(s)}
<1>1. /\ \A s \in SUBSET D : g[s] = Folded(f, g, s)
      /\ \A s \in SUBSET D : g[s] \in Int
  BY SumsBelowFolds, SumsAreIntegers
<1> HIDE DEF g
<1>2. 0 \in Sizes
  <2>1. ASSUME NEW s \in SUBSET D, Cardinality(s) = 0 PROVE Splits(s)
    BY <2>1, SubsetOfFinite
  <2>2. QED
    BY <2>1
<1>3. ASSUME NEW n \in Sizes \cap Nat PROVE n + 1 \in Sizes
  <2>1. \A s \in SUBSET D : Cardinality(s) = n => Splits(s)
    BY <1>3
  <2>2. ASSUME NEW s \in SUBSET D, Cardinality(s) = n + 1 PROVE Splits(s)
    <3>1. s # {}
      BY <1>3, <2>2, SubsetOfFinite
    <3> DEFINE p == Pick(s)
    <3>2. p \in s
      BY <3>1, PickIsElement
    <3>3. g[s] = f[p] + g[s \ {p}]
      BY <1>1, <3>1 DEF Folded
    <3> HIDE DEF p
    <3>4. \A x \in s : s \ {x} \in SUBSET D /\ Cardinality(s \ {x}) = n
      BY <1>3, <2>2, SubsetOfFinite
    <3> HIDE DEF Splits
    <3>5. \A x \in s : Splits(s \ {x})
      BY <2>1, <3>4
    <3>6. ASSUME NEW x \in s, x # p PROVE g[s] = f[x] + g[s \ {x}]
      <4> DEFINE both == s \ {x, p}
      <4>1. (s \ {p}) \ {x} = both /\ (s \ {x}) \ {p} = both
        OBVIOUS
      <4>2. x \in s \ {p} /\ p \in s \ {x} /\ both \in SUBSET D
        BY <3>2, <3>6
      <4> HIDE DEF both
      <4>3. g[s \ {p}] = f[x] + g[both]
        BY <3>2, <3>5, <4>1, <4>2 DEF Splits
      <4>4. g[s \ {x}] = f[p] + g[both]
        BY <3>5, <4>1, <4>2 DEF Splits
      <4>5. f[x] \in Int /\ f[p] \in Int /\ g[both] \in Int
        BY <1>1, <3>2, <4>2
      <4>6. QED
        BY <3>3, <4>3, <4>4, <4>5
    <3>7. QED
      BY <3>3, <3>6 DEF Splits
  <2>3. QED
    BY <2>2
<1> HIDE DEF Sizes
<1>4. Nat \subseteq Sizes
  BY <1>2, <1>3, EveryNatural
<1>5. ASSUME NEW s \in SUBSET D PROVE Splits(s)
  <2>1. Cardinality(s) \in Sizes
    BY <1>4, SubsetOfFinite
  <2>2. QED
    BY <2>1 DEF Sizes
<1>6. QED
  BY <1>5 DEF g

\* Two functions that agree on a set have the same sum over it.
LEMMA SumsAgree ==
  ASSUME NEW f, NEW e, IsFiniteSet(DOMAIN f), DOMAIN e \subseteq DOMAIN f,
         \A i \in DOMAIN e : e[i] = f[i]
  PROVE  \A s \in SUBSET DOMAIN e : SumsBelow(e)[s] = SumsBelow(f)[s]
<1> DEFINE D == DOMAIN e
           g == SumsBelow(f)
           h == SumsBelow(e)
           Sizes == {n \in Nat : \A s \in SUBSET D : Cardinality(s) = n => h[s] = g[s]}
<1>1. IsFiniteSet(D)
  BY FS_Subset
<1>2. \A s \in SUBSET D : g[s] = Folded(f, g, s) /\ h[s] = Folded(e, h, s)
  <2>1. \A s \in SUBSET DOMAIN f : g[s] = Folded(f, g, s)
    BY SumsBelowFolds
  <2>2. \A s \in SUBSET D : h[s] = Folded(e, h, s)
    BY <1>1, SumsBelowFolds
  <2>3. QED
    BY <2>1, <2>2
<1> HIDE DEF g, h
<1>3. 0 \in Sizes
  <2>1. ASSUME NEW s \in SUBSET D, Cardinality(s) = 0 PROVE h[s] = g[s]
    <3>1. s = {}
      BY <1>1, <2>1, SubsetOfFinite
    <3>2. QED
      BY <1>2, <3>1 DEF Folded
  <2>2. QED
    BY <2>1
<1>4. ASSUME NEW n \in Sizes \cap Nat PROVE n + 1 \in Sizes
  <2>1. ASSUME NEW s \in SUBSET D, Cardinality(s) = n + 1 PROVE h[s] = g[s]
    <3> DEFINE p == Pick(s)
    <3>1. s # {}
      BY <1>1, <1>4, <2>1, SubsetOfFinite
    <3>2. p \in s
      BY <3>1, PickIsElement
    <3>3. g[s] = f[p] + g[s \ {p}] /\ h[s] = e[p] + h[s \ {p}]
      BY <1>2, <3>1 DEF Folded
    <3> HIDE DEF p
    <3>4. s \ {p} \in SUBSET D /\ Cardinality(s \ {p}) = n
      BY <1>1, <1>4, <2>1, <3>2, SubsetOfFinite
    <3>5. h[s \ {p}] = g[s \ {p}] /\ e[p] = f[p]
      BY <1>4, <3>2, <3>4
    <3>6. QED
      BY <3>3, <3>5
  <2>2. QED
    BY <2>1
<1> HIDE DEF Sizes
<1>5. Nat \subseteq Sizes
  BY <1>3, <1>4, EveryNatural
<1>6. ASSUME NEW s \in SUBSET D PROVE h[s] = g[s]
  <2>1. Cardinality(s) \in Sizes
    BY <1>1, <1>5, SubsetOfFinite
  <2>2. QED
    BY <2>1 DEF Sizes
<1>7. QED
  BY <1>6 DEF g, h

LEMMA SumEmpty ==
  ASSUME NEW f, DOMAIN f = {}
  PROVE  SumOf(f) = 0
<1>1. IsFiniteSet(DOMAIN f)
  BY FS_EmptySet
<1>2. SumsBelow(f)[{}] = Folded(f, SumsBelow(f), {})
  BY <1>1, SumsBelowFolds
<1>3. QED
  BY <1>2, SumIsFolded DEF Folded

\* A column with one number more has that much more of a sum.
LEMMA SumExtends ==
  ASSUME NEW n \in Nat, NEW e, NEW f, DOMAIN e = 1 .. n, DOMAIN f = 1 .. (n + 1),
         \A i \in 1 .. n : e[i] = f[i], \A i \in 1 .. (n + 1) : f[i] \in Int
  PROVE  SumOf(e) \in Int /\ SumOf(f) = SumOf(e) + f[n + 1]
<1>1. IsFiniteSet(DOMAIN f) /\ IsFiniteSet(DOMAIN e) /\ DOMAIN e \subseteq DOMAIN f
  BY FS_Interval
<1>2. n + 1 \in DOMAIN f /\ DOMAIN f \ {n + 1} = DOMAIN e
  OBVIOUS
<1>3. SumsBelow(f)[DOMAIN f] = f[n + 1] + SumsBelow(f)[DOMAIN e]
  <2>1. \A i \in DOMAIN f : f[i] \in Int
    OBVIOUS
  <2>2. \A s \in SUBSET DOMAIN f : \A x \in s : SumsBelow(f)[s] = f[x] + SumsBelow(f)[s \ {x}]
    BY <1>1, <2>1, AnyOrder, Zenon
  <2>3. DOMAIN f \in SUBSET DOMAIN f
    OBVIOUS
  <2>4. \A x \in DOMAIN f : SumsBelow(f)[DOMAIN f] = f[x] + SumsBelow(f)[DOMAIN f \ {x}]
    BY <2>2, <2>3, Zenon
  <2>5. QED
    BY <1>2, <2>4, Zenon
<1>4. SumsBelow(e)[DOMAIN e] = SumsBelow(f)[DOMAIN e]
  BY <1>1, SumsAgree
<1>5. SumsBelow(e)[DOMAIN e] \in Int /\ f[n + 1] \in Int
  BY <1>1, <1>2, SumsAreIntegers
<1>6. QED
  BY <1>3, <1>4, <1>5, SumIsFolded

LEMMA SumAppend ==
  ASSUME NEW s \in Seq(Int), NEW x \in Int
  PROVE  SumOf(s) \in Int /\ SumOf(Append(s, x)) = SumOf(s) + x
<1> DEFINE t == Append(s, x)
           n == Len(s)
<1>1. /\ n \in Nat /\ DOMAIN s = 1 .. n /\ DOMAIN t = 1 .. (n + 1)
      /\ \A i \in 1 .. n : s[i] = t[i]
      /\ t[n + 1] = x /\ \A i \in 1 .. (n + 1) : t[i] \in Int
  OBVIOUS
<1> HIDE DEF t, n
<1>2. SumOf(s) \in Int /\ SumOf(t) = SumOf(s) + t[n + 1]
  BY <1>1, SumExtends
<1>3. QED
  BY <1>1, <1>2 DEF t

\* The sum of two sequences one after the other.
LEMMA SumConcat ==
  ASSUME NEW s \in Seq(Int)
  PROVE  \A t \in Seq(Int) : SumOf(s \o t) = SumOf(s) + SumOf(t) /\ SumOf(t) \in Int
<1> DEFINE Adds(t) == SumOf(s \o t) = SumOf(s) + SumOf(t) /\ SumOf(t) \in Int
           Sizes == {n \in Nat : \A t \in Seq(Int) : Len(t) = n => Adds(t)}
<1>0. SumOf(s) \in Int
  BY SumAppend
<1>1. 0 \in Sizes
  <2>1. ASSUME NEW t \in Seq(Int), Len(t) = 0 PROVE Adds(t)
    <3>1. DOMAIN t = {} /\ s \o t = s
      BY <2>1
    <3>2. SumOf(t) = 0
      BY <3>1, SumEmpty
    <3>3. QED
      BY <1>0, <3>1, <3>2
  <2>2. QED
    BY <2>1
<1>2. ASSUME NEW n \in Sizes \cap Nat PROVE n + 1 \in Sizes
  <2>1. ASSUME NEW t \in Seq(Int), Len(t) = n + 1 PROVE Adds(t)
    <3> DEFINE r == SubSeq(t, 1, n)
               x == t[n + 1]
    <3>1. r \in Seq(Int) /\ Len(r) = n /\ x \in Int /\ t = Append(r, x)
      BY <1>2, <2>1
    <3> HIDE DEF r, x
    <3>2. s \o t = Append(s \o r, x) /\ s \o r \in Seq(Int)
      <4>1. <<x>> \in Seq(Int) /\ t = r \o <<x>>
        BY <3>1, AppendIsConcat
      <4>2. s \o r \in Seq(Int) /\ (s \o r) \o <<x>> = s \o t
        BY <3>1, <4>1, ConcatAssociative
      <4>3. Append(s \o r, x) = (s \o r) \o <<x>>
        BY <3>1, <4>2, AppendIsConcat
      <4>4. QED
        BY <4>2, <4>3
    <3>3. SumOf(s \o r) = SumOf(s) + SumOf(r) /\ SumOf(r) \in Int
      BY <1>2, <3>1
    <3>4. SumOf(t) = SumOf(r) + x
      BY <3>1, SumAppend
    <3>5. SumOf(s \o t) = SumOf(s \o r) + x
      BY <3>1, <3>2, SumAppend
    <3>6. QED
      BY <1>0, <3>1, <3>3, <3>4, <3>5
  <2>2. QED
    BY <2>1
<1> HIDE DEF Sizes
<1>3. Nat \subseteq Sizes
  BY <1>1, <1>2, EveryNatural
<1>4. ASSUME NEW t \in Seq(Int) PROVE Adds(t)
  <2>1. Len(t) \in Sizes
    BY <1>3
  <2>2. QED
    BY <2>1 DEF Sizes
<1>5. QED
  BY <1>4

\* A sum of numbers of tokens is one.
LEMMA SumOfNaturals ==
  \A s \in Seq(Nat) : SumOf(s) \in Nat
<1> DEFINE Sizes == {n \in Nat : \A t \in Seq(Nat) : Len(t) = n => SumOf(t) \in Nat}
<1>1. 0 \in Sizes
  <2>1. ASSUME NEW t \in Seq(Nat), Len(t) = 0 PROVE SumOf(t) \in Nat
    <3>1. DOMAIN t = {}
      BY <2>1
    <3>2. QED
      BY <3>1, SumEmpty
  <2>2. QED
    BY <2>1
<1>2. ASSUME NEW n \in Sizes \cap Nat PROVE n + 1 \in Sizes
  <2>1. ASSUME NEW t \in Seq(Nat), Len(t) = n + 1 PROVE SumOf(t) \in Nat
    <3> DEFINE r == SubSeq(t, 1, n)
               x == t[n + 1]
    <3>1. r \in Seq(Nat) /\ Len(r) = n /\ x \in Nat /\ t = Append(r, x)
      BY <1>2, <2>1
    <3> HIDE DEF r, x
    <3>2. SumOf(r) \in Nat
      BY <1>2, <3>1
    <3>3. r \in Seq(Int) /\ x \in Int
      BY <3>1
    <3>4. SumOf(t) = SumOf(r) + x
      BY <3>1, <3>3, SumAppend
    <3>5. QED
      BY <3>1, <3>2, <3>4
  <2>2. QED
    BY <2>1
<1> HIDE DEF Sizes
<1>3. Nat \subseteq Sizes
  BY <1>1, <1>2, EveryNatural
<1>4. ASSUME NEW s \in Seq(Nat) PROVE SumOf(s) \in Nat
  <2>1. Len(s) \in Sizes
    BY <1>3
  <2>2. QED
    BY <2>1 DEF Sizes
<1>5. QED
  BY <1>4


-------------------------------------------------------------------------------
(* Usage records and the worlds they belong to.                            *)

Records == Seq(Nat \cup {None})
RowCalls(worlds, arm) == [i \in DOMAIN worlds |-> worlds[i].calls[arm]]
RowTokens(worlds, arm) ==
  [i \in DOMAIN worlds |-> IF worlds[i].total[arm] = None THEN 0 ELSE worlds[i].total[arm]]

\* The first n records of an arm are those of the finished worlds, in number and, if none
\* of them lacks its count, in tokens.
Attributed(worlds, records, n, arm) ==
  /\ n \in 0 .. Len(records)
  /\ \A i \in DOMAIN worlds : /\ worlds[i].calls[arm] \in Nat
                              /\ worlds[i].total[arm] \in Nat \cup {None}
                              /\ worlds[i].calls[arm] = 0 => worlds[i].total[arm] = None
  /\ SumOf(RowCalls(worlds, arm)) = n
  /\ None \notin Range(SubSeq(records, 1, n)) =>
       /\ SumOf(RowTokens(worlds, arm)) = SumOf(SubSeq(records, 1, n))
       /\ \A i \in DOMAIN worlds : worlds[i].calls[arm] # 0 => worlds[i].total[arm] # None

LEMMA CompleteRecords ==
  ASSUME NEW records \in Records, None \notin Range(records)
  PROVE  records \in Seq(Nat) /\ records \in Seq(Int)
<1>1. Len(records) \in Nat /\ DOMAIN records = 1 .. Len(records)
      /\ records = [i \in 1 .. Len(records) |-> records[i]]
  BY DEF Records
<1>2. \A i \in 1 .. Len(records) : records[i] \in Nat
  BY <1>1 DEF Records, Range
<1>3. records \in [1 .. Len(records) -> Nat]
  BY <1>1, <1>2
<1>4. records \in Seq(Nat)
  BY <1>1, <1>3
<1>5. QED
  BY <1>4

\* _usage_totals gives a number exactly if there are records and none lacks its count.
LEMMA UsageTotalType ==
  ASSUME NEW records \in Records
  PROVE  /\ UsageTotal(records) \in Nat \cup {None}
         /\ records = <<>> => UsageTotal(records) = None
         /\ records # <<>> /\ None \notin Range(records) =>
              UsageTotal(records) = SumOf(records) /\ UsageTotal(records) \in Nat
<1>1. None \notin Range(records) => SumOf(records) \in Nat
  BY CompleteRecords, SumOfNaturals
<1>2. QED
  BY <1>1 DEF UsageTotal

LEMMA SliceType ==
  ASSUME NEW records \in Records, NEW n \in 0 .. Len(records)
  PROVE  /\ SubSeq(records, 1, n) \in Records
         /\ Len(SubSeq(records, 1, n)) = n
         /\ SubSeq(records, n + 1, Len(records)) \in Records
         /\ Len(SubSeq(records, n + 1, Len(records))) = Len(records) - n
         /\ SubSeq(records, 1, n) \o SubSeq(records, n + 1, Len(records)) = records
         /\ SubSeq(records, 1, Len(records)) = records
<1>1. Len(records) \in Nat /\ n \in Nat /\ n <= Len(records)
  BY DEF Records
<1>2. SubSeq(records, 1, n) \in Records /\ Len(SubSeq(records, 1, n)) = n
  BY <1>1 DEF Records
<1>3. /\ SubSeq(records, n + 1, Len(records)) \in Records
      /\ Len(SubSeq(records, n + 1, Len(records))) = Len(records) - n
  BY <1>1 DEF Records
<1>4. SubSeq(records, 1, Len(records)) = records
  BY <1>1 DEF Records
<1>5. SubSeq(records, 1, n) \o SubSeq(records, n + 1, Len(records))
        = SubSeq(records, 1, Len(records))
  <2>1. /\ records \in Seq(Nat \cup {None})
        /\ 1 \in 1 .. Len(records) + 1
        /\ n \in 1 - 1 .. Len(records)
        /\ Len(records) \in n .. Len(records)
    BY <1>1 DEF Records
  <2>2. QED
    BY <2>1, ConcatAdjacentSubSeq
<1>6. QED
  BY <1>2, <1>3, <1>4, <1>5

\* The arms of a world, in either order.
LEMMA ArmOrderType ==
  ASSUME NEW phase \in {"safeguard", "null", "causal"}, NEW i \in Nat
  PROVE  /\ ArmOrder(phase, i) \in Seq(Arms)
         /\ phase = "null" => ArmOrder(phase, i) = <<"full">>
<1>1. <<>> \in Seq(Arms)
  OBVIOUS
<1>2. <<"full">> \in Seq(Arms) /\ <<"full", "flat">> \in Seq(Arms)
      /\ <<"flat", "full">> \in Seq(Arms)
  BY DEF Arms
<1>3. CASE phase = "null"
  BY <1>2, <1>3 DEF ArmOrder
<1>4. CASE phase = "causal"
  <2>1. (i % 2) = 0 \/ (i % 2) = 1
    OBVIOUS
  <2>2. CASE (i % 2) = 0
    BY <1>2, <1>4, <2>2 DEF ArmOrder
  <2>3. CASE (i % 2) = 1
    BY <1>2, <1>4, <2>3 DEF ArmOrder
  <2>4. QED
    BY <1>4, <2>1, <2>2, <2>3
<1>5. CASE phase = "safeguard"
  BY <1>1, <1>5 DEF ArmOrder
<1>6. QED
  BY <1>3, <1>4, <1>5

\* The row of a world takes the records since it began.
LEMMA WorldAdds ==
  ASSUME NEW S, NEW worlds \in Seq(S), NEW records \in Records, NEW n, NEW arm, NEW row,
         Attributed(worlds, records, n, arm),
         row.calls[arm] = Len(SubSeq(records, n + 1, Len(records))),
         row.total[arm] = UsageTotal(SubSeq(records, n + 1, Len(records)))
  PROVE  Attributed(Append(worlds, row), records, Len(records), arm)
<1> DEFINE longer == Append(worlds, row)
           k == Len(worlds)
           before == SubSeq(records, 1, n)
           since == SubSeq(records, n + 1, Len(records))
<1>1. /\ k \in Nat /\ DOMAIN worlds = 1 .. k /\ DOMAIN longer = 1 .. (k + 1)
      /\ \A i \in 1 .. k : longer[i] = worlds[i]
      /\ longer[k + 1] = row
  OBVIOUS
<1>2. n \in 0 .. Len(records) /\ Len(records) \in Nat
  BY DEF Attributed, Records
<1>3. /\ before \in Records /\ since \in Records /\ before \o since = records
      /\ Len(since) = Len(records) - n /\ SubSeq(records, 1, Len(records)) = records
  BY <1>2, SliceType
<1>4. Len(records) \in 0 .. Len(records)
  BY <1>2
<1>5. row.calls[arm] = Len(records) - n /\ row.total[arm] = UsageTotal(since)
  BY <1>3
<1> HIDE DEF longer, k, before, since
<1>6. ASSUME NEW i \in DOMAIN longer
      PROVE  /\ longer[i].calls[arm] \in Nat
             /\ longer[i].total[arm] \in Nat \cup {None}
             /\ longer[i].calls[arm] = 0 => longer[i].total[arm] = None
  <2>1. CASE i \in 1 .. k
    BY <1>1, <2>1 DEF Attributed
  <2>2. CASE i = k + 1
    <3>1. since = <<>> => UsageTotal(since) = None
      BY <1>3, UsageTotalType
    <3>2. Len(since) = 0 => since = <<>>
      BY <1>3 DEF Records
    <3>3. UsageTotal(since) \in Nat \cup {None}
      BY <1>3, UsageTotalType
    <3>4. QED
      BY <1>1, <1>2, <1>3, <1>5, <2>2, <3>1, <3>2, <3>3
  <2>3. QED
    BY <1>1, <2>1, <2>2
<1>7. SumOf(RowCalls(longer, arm)) = Len(records)
  <2> DEFINE e == RowCalls(worlds, arm)
             f == RowCalls(longer, arm)
  <2>1. /\ DOMAIN e = 1 .. k /\ DOMAIN f = 1 .. (k + 1)
        /\ \A i \in 1 .. k : e[i] = f[i]
        /\ f[k + 1] = Len(records) - n
    BY <1>1, <1>5 DEF RowCalls
  <2>2. \A i \in 1 .. (k + 1) : f[i] \in Int
    BY <1>1, <1>6 DEF RowCalls
  <2> HIDE DEF e, f
  <2>3. SumOf(e) \in Int /\ SumOf(f) = SumOf(e) + f[k + 1]
    BY <1>1, <2>1, <2>2, SumExtends
  <2>4. SumOf(e) = n
    BY DEF Attributed, e
  <2>5. QED
    BY <1>2, <2>1, <2>3, <2>4 DEF f
<1>8. ASSUME None \notin Range(records)
      PROVE  /\ SumOf(RowTokens(longer, arm)) = SumOf(records)
             /\ \A i \in DOMAIN longer : longer[i].calls[arm] # 0 => longer[i].total[arm] # None
  <2>1. None \notin Range(before) /\ None \notin Range(since)
    <3>1. /\ \A i \in DOMAIN before : before[i] \in Range(records)
          /\ \A i \in DOMAIN since : since[i] \in Range(records)
      BY <1>2 DEF Range, Records, before, since
    <3>2. QED
      BY <1>8, <3>1 DEF Range
  <2>2. SumOf(RowTokens(worlds, arm)) = SumOf(before)
    BY <2>1 DEF Attributed, before
  <2>3. SumOf(records) = SumOf(before) + SumOf(since) /\ SumOf(since) \in Int
    <3>1. before \in Seq(Int) /\ since \in Seq(Int)
      BY <1>3, <2>1, CompleteRecords
    <3>2. QED
      BY <1>3, <3>1, SumConcat
  <2>4. since = <<>> => SumOf(since) = 0
    <3>1. DOMAIN <<>> = {}
      OBVIOUS
    <3>2. QED
      BY <3>1, SumEmpty
  <2>5. (IF row.total[arm] = None THEN 0 ELSE row.total[arm]) = SumOf(since)
    <3>1. CASE since = <<>>
      BY <1>3, <1>5, <2>4, <3>1, UsageTotalType
    <3>2. CASE since # <<>>
      <4>1. UsageTotal(since) = SumOf(since) /\ UsageTotal(since) \in Nat
        BY <1>3, <2>1, <3>2, UsageTotalType
      <4>2. QED
        BY <1>5, <4>1, StudyConstants
    <3>3. QED
      BY <3>1, <3>2
  <2> DEFINE e == RowTokens(worlds, arm)
             f == RowTokens(longer, arm)
  <2>6. /\ DOMAIN e = 1 .. k /\ DOMAIN f = 1 .. (k + 1)
        /\ \A i \in 1 .. k : e[i] = f[i]
        /\ f[k + 1] = SumOf(since)
    BY <1>1, <2>5 DEF RowTokens
  <2>7. \A i \in 1 .. (k + 1) : f[i] \in Int
    BY <1>1, <1>6 DEF RowTokens
  <2> HIDE DEF e, f
  <2>8. SumOf(e) \in Int /\ SumOf(f) = SumOf(e) + f[k + 1]
    BY <1>1, <2>6, <2>7, SumExtends
  <2>9. SumOf(f) = SumOf(records)
    BY <2>2, <2>3, <2>6, <2>8 DEF e
  <2>10. ASSUME NEW i \in DOMAIN longer, longer[i].calls[arm] # 0
         PROVE  longer[i].total[arm] # None
    <3>1. CASE i \in 1 .. k
      BY <1>1, <2>1, <2>10, <3>1 DEF Attributed, before
    <3>2. CASE i = k + 1
      <4>1. since # <<>>
        BY <1>1, <1>2, <1>3, <1>5, <2>10, <3>2 DEF Records
      <4>2. UsageTotal(since) \in Nat
        BY <1>3, <2>1, <4>1, UsageTotalType
      <4>3. QED
        BY <1>1, <1>5, <3>2, <4>2, StudyConstants
    <3>3. QED
      BY <1>1, <3>1, <3>2
  <2>11. QED
    BY <2>9, <2>10 DEF f
<1>9. QED
  BY <1>3, <1>4, <1>6, <1>7, <1>8 DEF Attributed, longer


\* UsageAttributed and SuccessIsEarned, of any evidence.
Covered(e, arm) ==
  LET rowCalls == SumOf(RowCalls(e.worlds, arm))
      interrupted == Len(e.usage[arm]) - rowCalls
  IN  /\ interrupted \in 0 .. (IF e.class = Aborted THEN ModelCalls ELSE 0)
      /\ e.class # Aborted /\ None \notin Range(e.usage[arm]) =>
           SumOf(e.usage[arm]) = SumOf(RowTokens(e.worlds, arm))

PaidTokens(worlds, arm) ==
  [i \in DOMAIN worlds |-> IF worlds[i].calls[arm] = 0 THEN 0 ELSE worlds[i].total[arm]]
Advantage(worlds) == [i \in DOMAIN worlds |-> worlds[i].score["full"] - worlds[i].score["flat"]]

Earned(e) ==
  /\ Len(e.worlds) = CausalWorlds
  /\ \A arm \in Arms : None \notin Range(e.usage[arm])
  /\ SumOf(PaidTokens(e.worlds, "flat")) > 0
  /\ SumOf(PaidTokens(e.worlds, "full")) * RatioBound[2]
       <= RatioBound[1] * SumOf(PaidTokens(e.worlds, "flat"))
  /\ SumOf(Advantage(e.worlds)) * MinAdvantage[2] >= MinAdvantage[1] * ScoreMax * CausalWorlds

LEMMA EvidenceProperties ==
  /\ UsageAttributed <=> ((Wrote("null") \/ Wrote("causal")) =>
                            \A arm \in Arms : Covered(evidence, arm))
  /\ SuccessIsEarned <=> (Wrote("causal") /\ evidence.success => Earned(evidence))
<1>1. UsageAttributed <=> ((Wrote("null") \/ Wrote("causal")) =>
                             \A arm \in Arms : Covered(evidence, arm))
  BY Zenon DEF UsageAttributed, Covered, RowCalls, RowTokens
<1>2. SuccessIsEarned <=> (Wrote("causal") /\ evidence.success => Earned(evidence))
  BY Zenon DEF SuccessIsEarned, Earned, PaidTokens, Advantage
<1>3. QED
  BY <1>1, <1>2

LEMMA EvidenceIsCovered ==
  ASSUME NEW e, NEW arm, NEW n, e.usage[arm] \in Records,
         Attributed(e.worlds, e.usage[arm], n, arm),
         e.class = Aborted => Len(e.usage[arm]) - n <= ModelCalls,
         e.class # Aborted => n = Len(e.usage[arm])
  PROVE  Covered(e, arm)
<1>1. n \in 0 .. Len(e.usage[arm]) /\ Len(e.usage[arm]) \in Nat /\ ModelCalls \in Nat
  BY StudyConstants DEF Attributed, Records
<1>2. SumOf(RowCalls(e.worlds, arm)) = n
  BY DEF Attributed
<1>3. Len(e.usage[arm]) - n \in 0 .. (IF e.class = Aborted THEN ModelCalls ELSE 0)
  BY <1>1
<1>4. ASSUME e.class # Aborted, None \notin Range(e.usage[arm])
      PROVE  SumOf(e.usage[arm]) = SumOf(RowTokens(e.worlds, arm))
  <2>1. SubSeq(e.usage[arm], 1, n) = e.usage[arm]
    BY <1>1, <1>4, SliceType
  <2>2. QED
    BY <1>4, <2>1 DEF Attributed
<1>5. QED
  BY <1>2, <1>3, <1>4 DEF Covered

\* The audit of the compute compares the tokens of the pairs.
LEMMA AuditIsOfPairs ==
  ASSUME NEW worlds, NEW records \in Records, NEW arm,
         Attributed(worlds, records, Len(records), arm), UsageTotal(records) # None
  PROVE  /\ None \notin Range(records)
         /\ UsageTotal(records) \in Nat
         /\ SumOf(PaidTokens(worlds, arm)) = UsageTotal(records)
<1>1. records # <<>> /\ None \notin Range(records) /\ UsageTotal(records) = SumOf(records)
  BY DEF UsageTotal
<1>2. UsageTotal(records) \in Nat
  BY <1>1, UsageTotalType
<1>3. SubSeq(records, 1, Len(records)) = records
  <2>1. Len(records) \in 0 .. Len(records)
    BY DEF Attributed
  <2>2. QED
    BY <2>1, SliceType
<1>4. /\ SumOf(RowTokens(worlds, arm)) = SumOf(records)
      /\ \A i \in DOMAIN worlds : worlds[i].calls[arm] = 0 <=> worlds[i].total[arm] = None
  BY <1>1, <1>3 DEF Attributed
<1>5. PaidTokens(worlds, arm) = RowTokens(worlds, arm)
  BY <1>4 DEF PaidTokens, RowTokens
<1>6. QED
  BY <1>1, <1>2, <1>4, <1>5

LEMMA CompletionIsEarned ==
  ASSUME NEW S, NEW pairs \in Seq(S), CausalCompletes(pairs), Len(pairs) = CausalWorlds,
         \A arm \in Arms : usage[arm] \in Records
                           /\ Attributed(pairs, usage[arm], Len(usage[arm]), arm)
  PROVE  evidence'.success => Earned(evidence')
<1> DEFINE full == UsageTotal(usage["full"])
           flat == UsageTotal(usage["flat"])
           scores(arm) == [i \in DOMAIN pairs |-> pairs[i].score[arm]]
           comparison == PairedSignFlipTest(scores("full"), scores("flat"))
<1> SUFFICES ASSUME evidence'.success PROVE Earned(evidence')
  OBVIOUS
<1>1. /\ evidence'.worlds = pairs /\ evidence'.usage = usage
      /\ evidence'.success = (comparison.success /\ ComputeStatus(full, flat) = "VALID")
  BY DEF CausalCompletes
<1>2. comparison.success /\ ComputeStatus(full, flat) = "VALID"
  BY <1>1
<1> HIDE DEF full, flat
<1>3. full # None /\ flat # None /\ flat # 0 /\ full * RatioBound[2] <= RatioBound[1] * flat
  BY <1>2 DEF ComputeStatus
<1>4. /\ None \notin Range(usage["full"]) /\ SumOf(PaidTokens(pairs, "full")) = full
      /\ None \notin Range(usage["flat"]) /\ SumOf(PaidTokens(pairs, "flat")) = flat
      /\ flat \in Nat
  BY <1>3, AuditIsOfPairs DEF full, flat, Arms
<1>5. flat > 0
  BY <1>3, <1>4
<1>6. SumOf(Advantage(pairs)) * MinAdvantage[2] >= MinAdvantage[1] * ScoreMax * CausalWorlds
  <2> DEFINE diffs == [i \in DOMAIN scores("full") |-> scores("full")[i] - scores("flat")[i]]
  <2>1. diffs = Advantage(pairs)
    BY DEF Advantage
  <2>2. Len(scores("full")) = CausalWorlds
    <3>1. DOMAIN pairs = 1 .. Len(pairs) /\ Len(pairs) \in Nat
      OBVIOUS
    <3>2. QED
      BY <3>1
  <2>3. comparison.success =>
          SumOf(diffs) * MinAdvantage[2] >= MinAdvantage[1] * ScoreMax * Len(scores("full"))
    BY DEF PairedSignFlipTest
  <2>4. QED
    BY <1>2, <2>1, <2>2, <2>3
<1>7. QED
  BY <1>1, <1>3, <1>4, <1>5, <1>6 DEF Earned, Arms


\* Between two steps of a benchmark phase the rows account for the records up to the
\* start of the current world, and an arm has made no more calls than its schedule.
Billed ==
  /\ rows \in Seq(Range(rows))
  /\ arms \in Seq(Arms)
  /\ usage \in [Arms -> Records] /\ starts \in [Arms -> Nat]
  /\ \A arm \in Arms : Attributed(rows, usage[arm], starts[arm], arm)
  /\ \A arm \in Arms : CallsMade(arm) <= ModelCalls
  /\ running = "null" => usage["flat"] = <<>> /\ arms \in {<<"full">>, <<>>}

Billing ==
  /\ running \in {"null", "causal"} => Billed
  /\ UsageAttributed
  /\ SuccessIsEarned

\* Evidence of another process, or none, claims nothing here.
LEMMA OtherEvidence ==
  ASSUME ~ Wrote("null"), ~ Wrote("causal")
  PROVE  UsageAttributed /\ SuccessIsEarned
BY DEF UsageAttributed, SuccessIsEarned

LEMMA SameEvidence ==
  ASSUME UsageAttributed, SuccessIsEarned, evidence' = evidence
  PROVE  UsageAttributed' /\ SuccessIsEarned'
BY DEF UsageAttributed, SuccessIsEarned, Wrote

LEMMA NothingAttributed ==
  ASSUME NEW arm
  PROVE  Attributed(<<>>, <<>>, 0, arm)
<1>1. DOMAIN RowCalls(<<>>, arm) = {} /\ DOMAIN RowTokens(<<>>, arm) = {}
  BY DEF RowCalls, RowTokens
<1>2. SumOf(RowCalls(<<>>, arm)) = 0 /\ SumOf(RowTokens(<<>>, arm)) = 0
  BY <1>1, SumEmpty
<1>3. SubSeq(<<>>, 1, 0) = <<>> /\ 0 \in 0 .. Len(<<>>) /\ DOMAIN <<>> = {}
  OBVIOUS
<1>4. SumOf(<<>>) = 0
  BY <1>3, SumEmpty
<1>5. QED
  BY <1>2, <1>3, <1>4 DEF Attributed

LEMMA StartBills ==
  ASSUME NEW phase \in {"safeguard", "null", "causal"}, Starts(phase)
  PROVE  Billing'
<1>1. /\ evidence' = None /\ running' = phase /\ rows' = <<>> /\ usage' = NoRecords
      /\ starts' = [arm \in Arms |-> 0] /\ arms' = ArmOrder(phase, 0)
  BY DEF Starts
<1>2. UsageAttributed' /\ SuccessIsEarned'
  BY <1>1 DEF UsageAttributed, SuccessIsEarned, Wrote
<1>3. Billed'
  <2>1. rows' \in Seq(Range(rows'))
    BY <1>1, EmptyRows
  <2>2. arms' \in Seq(Arms) /\ (phase = "null" => arms' \in {<<"full">>, <<>>})
    BY <1>1, ArmOrderType
  <2>3. usage' \in [Arms -> Records] /\ starts' \in [Arms -> Nat]
    BY <1>1 DEF NoRecords, Records
  <2>4. \A arm \in Arms : usage'[arm] = <<>> /\ starts'[arm] = 0
    BY <1>1 DEF NoRecords
  <2>5. \A arm \in Arms : Attributed(<<>>, <<>>, 0, arm)
    BY NothingAttributed
  <2>6. \A arm \in Arms : Attributed(rows', usage'[arm], starts'[arm], arm)
    BY <1>1, <2>4, <2>5
  <2>7. \A arm \in Arms : Len(usage'[arm]) - starts'[arm] <= ModelCalls
    BY <2>4, StudyConstants
  <2>8. running' = "null" => usage'["flat"] = <<>> /\ arms' \in {<<"full">>, <<>>}
    BY <1>1, <2>2, <2>4 DEF Arms
  <2>9. QED
    BY <2>1, <2>2, <2>3, <2>6, <2>7, <2>8 DEF Billed, CallsMade
<1>4. QED
  BY <1>2, <1>3 DEF Billing

\* A call appends to the records after the start of the world.
LEMMA RecordAfterStart ==
  ASSUME NEW worlds, NEW records \in Records, NEW t \in Nat \cup {None}, NEW n, NEW arm,
         Attributed(worlds, records, n, arm)
  PROVE  Attributed(worlds, Append(records, t), n, arm)
<1>1. /\ Len(records) \in Nat /\ n \in 0 .. Len(records)
      /\ Append(records, t) \in Records /\ Len(Append(records, t)) = Len(records) + 1
  BY DEF Attributed, Records
<1>2. SubSeq(Append(records, t), 1, n) = SubSeq(records, 1, n)
  BY <1>1 DEF Records
<1>3. n \in 0 .. Len(Append(records, t))
  BY <1>1
<1>4. QED
  BY <1>2, <1>3 DEF Attributed

LEMMA CallBills ==
  ASSUME Billing, CallAnswered
  PROVE  Billing'
<1>1. /\ evidence' = evidence /\ running' = running /\ rows' = rows /\ arms' = arms
      /\ starts' = starts
  BY DEF CallAnswered, committed
<1>2. UsageAttributed' /\ SuccessIsEarned'
  BY <1>1, SameEvidence DEF Billing
<1>3. ASSUME running \in {"null", "causal"} PROVE Billed'
  <2>1. Billed
    BY <1>3 DEF Billing
  <2> DEFINE h == Head(arms)
  <2>2. PICK response \in Responses :
          /\ ~ Raises(response)
          /\ usage' = [usage EXCEPT ![h] = Invoke(@, response)]
    BY DEF CallAnswered
  <2> DEFINE t == response.total_tokens
  <2>3. t \in Nat \cup {None}
    BY StudyConstants DEF Responses
  <2>4. h \in Arms /\ CallsMade(h) < ModelCalls
    <3>1. arms # <<>> /\ arms \in Seq(Arms) /\ CallsMade(h) < ModelCalls
      BY <2>1 DEF CallAnswered, Calling, Billed
    <3>2. QED
      BY <3>1
  <2> HIDE DEF h, t
  <2>5. usage' = [usage EXCEPT ![h] = Append(@, t)]
    BY <2>2 DEF Invoke, t
  <2>6. usage \in [Arms -> Records] /\ starts \in [Arms -> Nat]
    BY <2>1 DEF Billed
  <2>7. /\ usage'[h] = Append(usage[h], t) /\ usage[h] \in Records
        /\ \A arm \in Arms \ {h} : usage'[arm] = usage[arm]
    BY <2>4, <2>5, <2>6
  <2>8. Append(usage[h], t) \in Records /\ Len(Append(usage[h], t)) = Len(usage[h]) + 1
        /\ Len(usage[h]) \in Nat
    BY <2>3, <2>7 DEF Records
  <2>9. usage' \in [Arms -> Records]
    BY <2>5, <2>6, <2>8
  <2>10. ASSUME NEW arm \in Arms
         PROVE  /\ Attributed(rows, usage'[arm], starts[arm], arm)
                /\ Len(usage'[arm]) - starts[arm] <= ModelCalls
    <3>1. /\ Attributed(rows, usage[arm], starts[arm], arm)
          /\ Len(usage[arm]) - starts[arm] <= ModelCalls
      BY <2>1 DEF Billed, CallsMade
    <3>2. CASE arm = h
      <4>1. Attributed(rows, usage'[arm], starts[arm], arm)
        <5>1. Attributed(rows, usage[h], starts[h], h) /\ usage[h] \in Records
          BY <2>7, <3>1, <3>2
        <5>2. Attributed(rows, Append(usage[h], t), starts[h], h)
          BY <2>3, <5>1, RecordAfterStart
        <5>3. QED
          BY <2>7, <3>2, <5>2
      <4>2. Len(usage[h]) - starts[h] < ModelCalls /\ ModelCalls \in Nat /\ starts[h] \in Nat
        BY <2>4, <2>6, StudyConstants DEF CallsMade
      <4>3. Len(usage'[h]) - starts[h] <= ModelCalls
        BY <2>7, <2>8, <4>2
      <4>4. QED
        BY <3>2, <4>1, <4>3
    <3>3. CASE arm # h
      BY <2>7, <3>1, <3>3
    <3>4. QED
      BY <3>2, <3>3
  <2>11. running = "null" => usage'["flat"] = <<>> /\ arms \in {<<"full">>, <<>>}
    <3>1. running = "null" => usage["flat"] = <<>> /\ arms \in {<<"full">>, <<>>}
      BY <2>1 DEF Billed
    <3>2. running = "null" => h = "full"
      BY <3>1 DEF h, CallAnswered, Calling
    <3>3. QED
      BY <2>7, <3>1, <3>2 DEF Arms
  <2>12. rows \in Seq(Range(rows)) /\ arms \in Seq(Arms)
    BY <2>1 DEF Billed
  <2>13. QED
    BY <1>1, <2>6, <2>9, <2>10, <2>11, <2>12 DEF Billed, CallsMade
<1>4. QED
  BY <1>1, <1>2, <1>3 DEF Billing

LEMMA ArmBills ==
  ASSUME Billing, ArmReturns
  PROVE  Billing'
<1>1. /\ evidence' = evidence /\ running' = running /\ rows' = rows /\ arms' = Tail(arms)
      /\ starts' = starts /\ usage' = usage /\ arms # <<>>
  BY DEF ArmReturns, committed
<1>2. UsageAttributed' /\ SuccessIsEarned'
  BY <1>1, SameEvidence DEF Billing
<1>3. ASSUME running \in {"null", "causal"} PROVE Billed'
  <2>1. Billed
    BY <1>3 DEF Billing
  <2>2. arms' \in Seq(Arms)
    BY <1>1, <2>1 DEF Billed
  <2>3. running = "null" => arms' \in {<<"full">>, <<>>}
    BY <1>1, <2>1 DEF Billed
  <2>4. QED
    BY <1>1, <2>1, <2>2, <2>3 DEF Billed, CallsMade
<1>4. QED
  BY <1>1, <1>2, <1>3 DEF Billing


\* The next world begins where the last one's records end.
LEMMA NextWorldBills ==
  ASSUME Billing, running \in {"null", "causal"}, NEW row, NextWorld(row),
         \A arm \in Arms : /\ row.calls[arm] = Len(Since(arm))
                           /\ row.total[arm] = UsageTotal(Since(arm))
  PROVE  Billing'
<1>1. /\ rows' = Append(rows, row)
      /\ starts' = [arm \in Arms |-> Len(usage[arm])]
      /\ arms' = ArmOrder(running, Len(rows) + 1)
      /\ usage' = usage /\ running' = running /\ evidence' = evidence
  BY DEF NextWorld, committed
<1>2. UsageAttributed' /\ SuccessIsEarned'
  BY <1>1, SameEvidence DEF Billing
<1>3. Billed
  BY DEF Billing
<1>4. rows \in Seq(Range(rows)) /\ usage \in [Arms -> Records]
  BY <1>3 DEF Billed
<1>5. rows' \in Seq(Range(rows'))
  <2>1. rows' \in Seq(Range(rows) \cup {row})
    BY <1>1, <1>4
  <2>2. QED
    BY <2>1, SequenceOfItsRange
<1>6. /\ arms' \in Seq(Arms)
      /\ running = "null" => arms' = <<"full">>
  <2>1. Len(rows) + 1 \in Nat
    BY <1>4
  <2>2. QED
    BY <1>1, <2>1, ArmOrderType
<1>7. ASSUME NEW arm \in Arms
      PROVE  /\ Attributed(rows', usage[arm], Len(usage[arm]), arm)
             /\ Len(usage[arm]) \in Nat /\ starts'[arm] = Len(usage[arm])
  <2>1. usage[arm] \in Records /\ Attributed(rows, usage[arm], starts[arm], arm)
    BY <1>3 DEF Billed
  <2>2. Attributed(rows', usage[arm], Len(usage[arm]), arm)
    BY <1>1, <1>4, <2>1, WorldAdds DEF Since
  <2>3. QED
    BY <1>1, <2>1, <2>2 DEF Records
<1>8. starts' \in [Arms -> Nat]
  BY <1>1, <1>7
<1>9. \A arm \in Arms : Len(usage[arm]) - starts'[arm] <= ModelCalls
  BY <1>7, StudyConstants
<1>10. running = "null" => usage["flat"] = <<>>
  BY <1>3 DEF Billed
<1>11. Billed'
  BY <1>1, <1>4, <1>5, <1>6, <1>7, <1>8, <1>9, <1>10 DEF Billed, CallsMade
<1>12. QED
  BY <1>2, <1>11 DEF Billing

\* What the Null phase writes: all of its records are the Full arm's.
LEMMA NullWritesBills ==
  ASSUME NEW class, NEW worlds, NEW positives, NEW records \in Records, NEW n,
         NullWrites(class, worlds, positives, records),
         Attributed(worlds, records, n, "full"), Attributed(worlds, <<>>, 0, "flat"),
         class = Aborted => Len(records) - n <= ModelCalls,
         class # Aborted => n = Len(records)
  PROVE  Billing'
<1> DEFINE e == [phase |-> "null", class |-> class, worlds |-> worlds, positives |-> positives,
                 usage |-> [NoRecords EXCEPT !["full"] = records], total |-> UsageTotal(records)]
<1>1. evidence' = e /\ running' = None
  BY DEF NullWrites, Exits
<1>2. /\ e.phase = "null" /\ e.class = class /\ e.worlds = worlds
      /\ e.usage["full"] = records /\ e.usage["flat"] = <<>>
  BY DEF NoRecords, Arms
<1> HIDE DEF e
<1>3. Covered(e, "full")
  BY <1>2, EvidenceIsCovered
<1>4. Covered(e, "flat")
  <2>1. <<>> \in Records /\ Len(<<>>) = 0 /\ Len(<<>>) - 0 <= ModelCalls
    BY StudyConstants DEF Records
  <2>2. QED
    BY <1>2, <2>1, EvidenceIsCovered
<1>5. UsageAttributed'
  <2>1. \A arm \in Arms : Covered(evidence', arm)
    BY <1>1, <1>3, <1>4 DEF Arms
  <2>2. QED
    BY <2>1, EvidenceProperties DEF UsageAttributed, Covered, RowCalls, RowTokens
<1>6. SuccessIsEarned'
  BY <1>1, <1>2 DEF SuccessIsEarned, Wrote
<1>7. QED
  BY <1>1, <1>5, <1>6, StudyConstants DEF Billing


LEMMA NullFailureBills ==
  ASSUME Billing, NullProviderFails
  PROVE  Billing'
<1>1. Billed /\ running = "null"
  BY DEF Billing, NullProviderFails
<1>2. PICK response \in Responses :
        Raises(response) /\ NullWrites(Aborted, rows, tally, Invoke(usage["full"], response))
  BY DEF NullProviderFails
<1>3. NullWrites(Aborted, rows, tally, usage["full"])
  BY <1>2 DEF Invoke
<1>4. /\ usage["full"] \in Records /\ usage["flat"] = <<>>
      /\ Attributed(rows, usage["full"], starts["full"], "full")
      /\ Attributed(rows, <<>>, starts["flat"], "flat")
      /\ Len(usage["full"]) - starts["full"] <= ModelCalls
  BY <1>1 DEF Billed, CallsMade, Arms
<1>5. starts["flat"] = 0
  BY <1>4 DEF Attributed
<1>6. QED
  BY <1>3, <1>4, <1>5, NullWritesBills

LEMMA NullWorldBills ==
  ASSUME Billing, NullWorldEnds
  PROVE  Billing'
<1> DEFINE positives == tally + results["full"]
           longer == Append(rows, NullRow)
<1>1. Billed /\ running = "null"
  BY DEF Billing, NullWorldEnds
<1>2. /\ usage \in [Arms -> Records] /\ usage["flat"] = <<>> /\ rows \in Seq(Range(rows))
      /\ \A arm \in Arms : Attributed(rows, usage[arm], starts[arm], arm)
  BY <1>1 DEF Billed
<1>3. starts["flat"] = 0
  BY <1>2 DEF Attributed, Arms
<1>4. \A arm \in Arms : /\ NullRow.calls[arm] = Len(Since(arm))
                        /\ NullRow.total[arm] = UsageTotal(Since(arm))
  <2>1. Since("flat") = <<>> /\ Len(<<>>) = 0 /\ UsageTotal(<<>>) = None
    BY <1>2, <1>3 DEF Since, UsageTotal
  <2>2. QED
    BY <2>1 DEF NullRow, Arms
<1>5. \A arm \in Arms : Attributed(longer, usage[arm], Len(usage[arm]), arm)
  <2> SUFFICES ASSUME NEW arm \in Arms
               PROVE  Attributed(longer, usage[arm], Len(usage[arm]), arm)
    OBVIOUS
  <2>1. usage[arm] \in Records /\ Attributed(rows, usage[arm], starts[arm], arm)
    BY <1>2
  <2>2. QED
    BY <1>2, <1>4, <2>1, WorldAdds DEF Since
<1>6. /\ usage["full"] \in Records
      /\ Attributed(longer, usage["full"], Len(usage["full"]), "full")
      /\ Attributed(longer, <<>>, 0, "flat")
  <2>1. Len(<<>>) = 0 /\ "full" \in Arms /\ "flat" \in Arms
    BY DEF Arms
  <2>2. QED
    BY <1>2, <1>5, <2>1
<1> HIDE DEF longer, positives
<1>7. CASE NullWrites("HALLUCINATION_KILL", longer, positives, usage["full"])
  BY <1>6, <1>7, NullWritesBills DEF Aborted
<1>8. CASE NullWrites("NULL_PASS", longer, positives, usage["full"])
  BY <1>6, <1>8, NullWritesBills DEF Aborted
<1>9. CASE NextWorld(NullRow)
  BY <1>1, <1>4, <1>9, NextWorldBills
<1>10. QED
  <2>1. \/ NullWrites("HALLUCINATION_KILL", longer, positives, usage["full"])
        \/ NullWrites("NULL_PASS", longer, positives, usage["full"])
        \/ NextWorld(NullRow)
    BY DEF NullWorldEnds, longer, positives
  <2>2. QED
    BY <1>7, <1>8, <1>9, <2>1

LEMMA CausalFailureBills ==
  ASSUME Billing, CausalProviderFails
  PROVE  Billing'
<1>1. Billed /\ running = "causal"
  BY DEF Billing, CausalProviderFails
<1>2. PICK response \in Responses :
        /\ Raises(response)
        /\ evidence' = [phase |-> "causal", class |-> Aborted, worlds |-> rows,
                        usage |-> [usage EXCEPT ![Head(arms)] = Invoke(@, response)],
                        success |-> FALSE]
  BY DEF CausalProviderFails
<1>3. usage \in [Arms -> Records] /\ [usage EXCEPT ![Head(arms)] = Invoke(@, response)] = usage
  BY <1>1, <1>2 DEF Invoke, Billed
<1> DEFINE e == [phase |-> "causal", class |-> Aborted, worlds |-> rows, usage |-> usage,
                 success |-> FALSE]
<1>4. evidence' = e /\ running' = None
  BY <1>2, <1>3 DEF CausalProviderFails, Exits
<1>5. e.class = Aborted /\ e.worlds = rows /\ e.usage = usage /\ ~ e.success
  OBVIOUS
<1> HIDE DEF e
<1>6. \A arm \in Arms : Covered(e, arm)
  <2> SUFFICES ASSUME NEW arm \in Arms PROVE Covered(e, arm)
    OBVIOUS
  <2>1. /\ usage[arm] \in Records /\ Attributed(rows, usage[arm], starts[arm], arm)
        /\ Len(usage[arm]) - starts[arm] <= ModelCalls
    BY <1>1 DEF Billed, CallsMade
  <2>2. QED
    BY <1>5, <2>1, EvidenceIsCovered
<1>7. UsageAttributed'
  BY <1>4, <1>6 DEF UsageAttributed, Covered, RowCalls, RowTokens
<1>8. SuccessIsEarned'
  BY <1>4, <1>5 DEF SuccessIsEarned
<1>9. QED
  BY <1>4, <1>7, <1>8, StudyConstants DEF Billing

LEMMA PairBills ==
  ASSUME Billing, PairEnds
  PROVE  Billing'
<1> DEFINE pairs == Append(rows, PairRow)
<1>1. Billed /\ running = "causal"
  BY DEF Billing, PairEnds
<1>2. /\ usage \in [Arms -> Records] /\ rows \in Seq(Range(rows))
      /\ \A arm \in Arms : Attributed(rows, usage[arm], starts[arm], arm)
  BY <1>1 DEF Billed
<1>3. \A arm \in Arms : /\ PairRow.calls[arm] = Len(Since(arm))
                        /\ PairRow.total[arm] = UsageTotal(Since(arm))
  BY DEF PairRow
<1>4. ASSUME Len(rows) + 1 = CausalWorlds, CausalCompletes(pairs), Exits
      PROVE  Billing'
  <2>1. \A arm \in Arms : usage[arm] \in Records
                          /\ Attributed(pairs, usage[arm], Len(usage[arm]), arm)
    <3> SUFFICES ASSUME NEW arm \in Arms
                 PROVE  usage[arm] \in Records
                        /\ Attributed(pairs, usage[arm], Len(usage[arm]), arm)
      OBVIOUS
    <3>1. usage[arm] \in Records /\ Attributed(rows, usage[arm], starts[arm], arm)
      BY <1>2
    <3>2. QED
      BY <1>2, <1>3, <3>1, WorldAdds DEF Since
  <2>2. pairs \in Seq(Range(rows) \cup {PairRow}) /\ Len(pairs) = CausalWorlds
    BY <1>2, <1>4
  <2> HIDE DEF pairs
  <2>3. evidence'.success => Earned(evidence')
    BY <1>4, <2>1, <2>2, CompletionIsEarned
  <2>4. /\ evidence'.class = "COMPLETED" /\ evidence'.worlds = pairs
        /\ evidence'.usage = usage /\ running' = None
    BY <1>4 DEF CausalCompletes, Exits
  <2> DEFINE e == evidence'
  <2>5. e.class # Aborted /\ e.worlds = pairs /\ e.usage = usage
    BY <2>4 DEF Aborted
  <2> HIDE DEF e
  <2>6. \A arm \in Arms : Covered(e, arm)
    BY <2>1, <2>5, EvidenceIsCovered
  <2>7. UsageAttributed'
    BY <2>6 DEF UsageAttributed, Covered, RowCalls, RowTokens, e
  <2>8. SuccessIsEarned'
    BY <2>3 DEF SuccessIsEarned, Earned, PaidTokens, Advantage
  <2>9. QED
    BY <2>4, <2>7, <2>8, StudyConstants DEF Billing
<1>5. CASE NextWorld(PairRow)
  BY <1>1, <1>3, <1>5, NextWorldBills
<1>6. QED
  BY <1>4, <1>5 DEF PairEnds

LEMMA BillingInvariant == Spec => []Billing
<1>1. Init => Billing
  <2> SUFFICES ASSUME Init PROVE Billing
    OBVIOUS
  <2>1. evidence = None /\ running = None
    BY DEF Init
  <2>2. UsageAttributed /\ SuccessIsEarned
    BY <2>1, OtherEvidence DEF Wrote
  <2>3. QED
    BY <2>1, <2>2, StudyConstants DEF Billing
<1>2. Billing /\ [Next]_vars => Billing'
  <2> SUFFICES ASSUME Billing, [Next]_vars PROVE Billing'
    OBVIOUS
  <2>1. ASSUME NEW r, SafeguardStarts(r) PROVE Billing'
    <3>1. CASE Starts("safeguard")
      BY <3>1, StartBills
    <3>2. CASE evidence' = SafeguardEvidence(Aborted, PendingCycles(Cycles), None, <<>>)
               /\ UNCHANGED process
      <4>1. evidence'.phase = "safeguard" /\ running' = None
        BY <2>1, <3>2 DEF SafeguardEvidence, SafeguardStarts, process
      <4>2. UsageAttributed' /\ SuccessIsEarned'
        BY <4>1 DEF UsageAttributed, SuccessIsEarned, Wrote
      <4>3. QED
        BY <4>1, <4>2, StudyConstants DEF Billing
    <3>3. QED
      BY <2>1, <3>1, <3>2 DEF SafeguardStarts
  <2>2. CASE StartLive \/ StartReplacement \/ StartV11
    BY <2>1, <2>2 DEF StartLive, StartReplacement, StartV11
  <2>3. CASE StartNull \/ StartCausal
    BY <2>3, StartBills DEF StartNull, StartCausal
  <2>4. ASSUME NEW class, NEW cycles, NEW misses, NEW records,
               SafeguardWrites(class, cycles, misses, records)
        PROVE  Billing'
    <3>1. evidence'.phase = "safeguard" /\ running' = None
      BY <2>4 DEF SafeguardEvidence, SafeguardWrites, Exits
    <3>2. UsageAttributed' /\ SuccessIsEarned'
      BY <3>1 DEF UsageAttributed, SuccessIsEarned, Wrote
    <3>3. QED
      BY <3>1, <3>2, StudyConstants DEF Billing
  <2>5. ASSUME NEW hit, NEW records, InCycle, CycleEnds(hit, records) PROVE Billing'
    <3>1. evidence' = evidence /\ running' = "safeguard"
      BY <2>5 DEF CycleEnds, InCycle
    <3>2. QED
      BY <3>1, SameEvidence DEF Billing
  <2>6. ASSUME NEW records, InCycle, CycleInvalid(records) PROVE Billing'
    BY <2>4, <2>5, <2>6 DEF CycleInvalid, CycleAborts
  <2>7. CASE CycleAnswered \/ CycleProviderFails \/ CycleFailsLocally \/ SafeguardCompletes
    BY <2>4, <2>5, <2>6, <2>7
       DEF CycleAnswered, CycleProviderFails, CycleFailsLocally, SafeguardCompletes, CycleAborts
  <2>8. CASE Authorize \/ Ratify \/ UNCHANGED vars
    <3>1. UNCHANGED <<evidence, process>>
      BY <2>8 DEF Authorize, Ratify, vars
    <3>2. UsageAttributed' /\ SuccessIsEarned'
      BY <3>1, SameEvidence DEF Billing
    <3>3. running \in {"null", "causal"} => Billed'
      BY <3>1 DEF Billing, Billed, process, CallsMade
    <3>4. QED
      BY <3>1, <3>2, <3>3 DEF Billing, process
  <2>9. CASE Killed
    <3>1. evidence' = None /\ running' = None
      BY <2>9 DEF Killed, Exits
    <3>2. UsageAttributed' /\ SuccessIsEarned'
      BY <3>1 DEF UsageAttributed, SuccessIsEarned, Wrote
    <3>3. QED
      BY <3>1, <3>2, StudyConstants DEF Billing
  <2>10. QED
    BY <2>2, <2>3, <2>7, <2>8, <2>9, CallBills, ArmBills, NullFailureBills, NullWorldBills,
       CausalFailureBills, PairBills DEF Next
<1>3. QED
  BY <1>1, <1>2, PTL DEF Spec

\* No usage record of a benchmark phase is counted twice, lost or charged to another
\* world, however many worlds and calls there are and wherever the provider fails.
THEOREM RecordsAreAttributed == Spec => []UsageAttributed
<1>1. Billing => UsageAttributed
  BY DEF Billing
<1>2. QED
  BY <1>1, BillingInvariant, PTL

\* Success is claimed of complete pairs, of complete counts within the ratio, and of the
\* registered advantage.
THEOREM ClaimedSuccessIsEarned == Spec => []SuccessIsEarned
<1>1. Billing => SuccessIsEarned
  BY DEF Billing
<1>2. QED
  BY <1>1, BillingInvariant, PTL
================================================================================
