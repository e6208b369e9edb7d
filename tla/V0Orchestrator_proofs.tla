------------------------ MODULE V0Orchestrator_proofs ------------------------
(***************************************************************************)
(* Theorems about V0Orchestrator, for every value of its constants: run()  *)
(* drives the broker, is never refused by it for a phase, a budget or a    *)
(* cap, and hands back what the broker closed with.                        *)
(***************************************************************************)
EXTENDS V0Orchestrator, V0Broker_proofs

-------------------------------------------------------------------------------
(* The schedule of one paradigm.                                           *)

SizesOf(p) == IF p = "A" THEN ABatchSizes ELSE BBatchSizes
TotalOf(p) == IF p = "A" THEN ADiscoveryBudget ELSE BCalibrationBudget
CyclesBefore(p) == IF p = "A" THEN 0 ELSE Len(ABatchSizes)

\* What the first k rounds have paid.
PaidBy(p) ==
  CHOOSE upto \in [0 .. Len(SizesOf(p)) -> 0 .. TotalOf(p)] :
    AddUp(SizesOf(p), TotalOf(p), upto)

LEMMA ScheduleNumbers ==
  ASSUME NEW p \in {"A", "B"}
  PROVE  /\ SizesOf(p) \in Seq(Nat \ {0}) /\ Len(SizesOf(p)) \in Nat \ {0}
         /\ TotalOf(p) \in Nat
         /\ \A k \in 0 .. Len(SizesOf(p)) : PaidBy(p)[k] \in 0 .. TotalOf(p)
         /\ PaidBy(p)[0] = 0 /\ PaidBy(p)[Len(SizesOf(p))] = TotalOf(p)
         /\ \A k \in 0 .. Len(SizesOf(p)) - 1 :
              SizesOf(p)[k + 1] \in Nat \ {0} /\ PaidBy(p)[k + 1] = PaidBy(p)[k] + SizesOf(p)[k + 1]
         /\ CyclesBefore(p) + Len(SizesOf(p)) <= MaxEpistemicCycles /\ CyclesBefore(p) \in Nat
<1> DEFINE s == SizesOf(p)
           t == TotalOf(p)
           f == PaidBy(p)
<1>1. s \in Seq(Nat \ {0}) /\ t \in Nat \ {0}
  BY OrchestratorConstants, BrokerConstants DEF SizesOf, TotalOf
<1>2. Len(s) \in Nat
  BY <1>1
<1>3. \E upto \in [0 .. Len(s) -> 0 .. t] : AddUp(s, t, upto)
  BY OrchestratorConstants DEF SizesOf, TotalOf
<1>4. f \in [0 .. Len(s) -> 0 .. t] /\ AddUp(s, t, f)
  BY <1>3 DEF PaidBy
<1>5. CyclesBefore(p) + Len(s) <= MaxEpistemicCycles /\ CyclesBefore(p) \in Nat
  <2>1. /\ Len(ABatchSizes) \in Nat /\ Len(BBatchSizes) \in Nat /\ MaxEpistemicCycles \in Nat
        /\ Len(ABatchSizes) + Len(BBatchSizes) <= MaxEpistemicCycles
    BY OrchestratorConstants, BrokerConstants
  <2> QED
    BY <2>1 DEF CyclesBefore, SizesOf
<1> HIDE DEF s, t, f
<1>6. f[0] = 0 /\ f[Len(s)] = t /\ \A k \in 1 .. Len(s) : f[k] = f[k - 1] + s[k]
  BY <1>4 DEF AddUp
<1>7. Len(s) # 0
  BY <1>1, <1>6
<1>8. ASSUME NEW k \in 0 .. Len(s) - 1
      PROVE  s[k + 1] \in Nat \ {0} /\ f[k + 1] = f[k] + s[k + 1]
  <2>1. k + 1 \in 1 .. Len(s) /\ (k + 1) - 1 = k
    BY <1>2
  <2>2. s[k + 1] \in Nat \ {0}
    BY <1>1, <2>1
  <2>3. f[k + 1] = f[(k + 1) - 1] + s[k + 1]
    BY <1>6, <2>1
  <2> QED
    BY <2>1, <2>2, <2>3
<1>9. \A k \in 0 .. Len(s) : f[k] \in 0 .. t
  BY <1>4
<1> QED
  BY <1>1, <1>2, <1>5, <1>6, <1>7, <1>8, <1>9 DEF s, t, f

LEMMA ParadigmTypes ==
  /\ Paradigm \in {"A", "B"} /\ Sizes = SizesOf(Paradigm)
  /\ phase = "A_DISCOVERY" => Paradigm = "A"
  /\ phase # "A_DISCOVERY" => Paradigm = "B"
BY DEF Paradigm, Sizes, SizesOf

-------------------------------------------------------------------------------
(* Where run() is.                                                         *)

RoundTurns == {"propose", "select", "execute", "decide"}

ScheduleInv ==
  /\ turn \in RoundTurns \cup {"open_b", "transfer", "returned", "raised"}
  /\ turn \in RoundTurns =>
       /\ phase \in {"A_DISCOVERY", "B_CALIBRATION"}
       /\ round \in 0 .. Len(Sizes)
       /\ turn = "decide" <=> round = Len(Sizes)
  /\ turn = "open_b" => phase = "A_FROZEN" /\ todo = <<>>
  /\ turn = "transfer" => phase = "B_TRANSFER"
  /\ turn = "execute" =>
       /\ todo \in Seq(Experiments) /\ todo # <<>>
       /\ \A i \in DOMAIN todo : todo[i].paradigm = Paradigm /\ todo[i].entity \in Allowed
  /\ turn \in RoundTurns \ {"execute"} => todo = <<>>

LEMMA ScheduleInit ==
  OInit => ScheduleInv
<1> SUFFICES ASSUME OInit
             PROVE  ScheduleInv
  OBVIOUS
<1>1. turn = "propose" /\ round = 0 /\ todo = <<>> /\ phase = "A_DISCOVERY"
  BY DEF OInit, Init
<1>2. Len(Sizes) \in Nat \ {0}
  BY ParadigmTypes, ScheduleNumbers
<1> QED
  BY <1>1, <1>2 DEF ScheduleInv, RoundTurns

\* The steps of a round leave the phase, hence the schedule, alone.
LEMMA SamePhase ==
  ASSUME phase' = phase
  PROVE  Paradigm' = Paradigm /\ Sizes' = Sizes /\ Allowed' = Allowed
BY DEF Paradigm, Sizes, Allowed

LEMMA SelectSchedules ==
  ASSUME ScheduleInv, NEW batch \in Batches, Select(batch)
  PROVE  ScheduleInv' /\ Len(todo') = SizesOf(Paradigm)[round + 1]
<1>1. /\ turn = "select" /\ turn' = "execute" /\ todo' = batch /\ round' = round
      /\ phase' = phase /\ ValidBatch(batch)
  BY DEF Select, vars
<1>2. round \in 0 .. Len(Sizes) /\ round # Len(Sizes) /\ phase \in {"A_DISCOVERY", "B_CALIBRATION"}
  BY <1>1 DEF ScheduleInv, RoundTurns
<1>3. Len(Sizes) \in Nat /\ Paradigm \in {"A", "B"} /\ Sizes = SizesOf(Paradigm)
  BY ParadigmTypes, ScheduleNumbers
<1>4. round \in 0 .. Len(Sizes) - 1
  BY <1>2, <1>3
<1>5. Sizes[round + 1] \in Nat \ {0}
  BY <1>3, <1>4, ScheduleNumbers
<1>6. Len(batch) = Sizes[round + 1]
      /\ \A i \in DOMAIN batch : batch[i].paradigm = Paradigm /\ batch[i].entity \in Allowed
  BY <1>1 DEF ValidBatch
<1>7. batch \in Seq(Experiments)
  BY OrchestratorConstants
<1>8. batch # <<>>
  BY <1>5, <1>6
<1> QED
  BY <1>1, <1>2, <1>3, <1>6, <1>7, <1>8, SamePhase DEF ScheduleInv, RoundTurns

LEMMA ExecuteSchedules ==
  ASSUME ScheduleInv, Execute
  PROVE  /\ ScheduleInv' /\ Head(todo) \in Experiments /\ Head(todo).paradigm = Paradigm
         /\ Head(todo).entity \in Allowed /\ Len(todo') = Len(todo) - 1 /\ Len(todo) \in Nat \ {0}
         /\ phase' = phase /\ round \in 0 .. Len(Sizes) - 1
<1>1. /\ turn = "execute" /\ RunVisibleExperiment(Head(todo)) /\ todo' = Tail(todo)
      /\ round' = (IF todo' = <<>> THEN round + 1 ELSE round)
      /\ turn' = (IF todo' # <<>> THEN "execute"
                  ELSE IF round' < Len(Sizes) THEN "propose" ELSE "decide")
  BY DEF Execute
<1>2. phase' = phase
  BY <1>1 DEF RunVisibleExperiment
<1>3. /\ todo \in Seq(Experiments) /\ todo # <<>>
      /\ \A i \in DOMAIN todo : todo[i].paradigm = Paradigm /\ todo[i].entity \in Allowed
      /\ round \in 0 .. Len(Sizes) /\ round # Len(Sizes)
      /\ phase \in {"A_DISCOVERY", "B_CALIBRATION"}
  BY <1>1 DEF ScheduleInv, RoundTurns
<1>4. Len(Sizes) \in Nat
  BY ParadigmTypes, ScheduleNumbers
<1>5. /\ Len(todo) \in Nat \ {0} /\ todo' \in Seq(Experiments) /\ Len(todo') = Len(todo) - 1
      /\ \A i \in DOMAIN todo' : i + 1 \in DOMAIN todo /\ todo'[i] = todo[i + 1]
      /\ Head(todo) = todo[1] /\ 1 \in DOMAIN todo /\ Head(todo) \in Experiments
  BY <1>1, <1>3
<1>6. \A i \in DOMAIN todo' : todo'[i].paradigm = Paradigm /\ todo'[i].entity \in Allowed
  BY <1>3, <1>5
<1>7. round \in 0 .. Len(Sizes) - 1
  BY <1>3, <1>4
<1>8. /\ round' \in 0 .. Len(Sizes)
      /\ turn' = "decide" <=> round' = Len(Sizes)
  BY <1>1, <1>4, <1>7
<1>9. Paradigm' = Paradigm /\ Sizes' = Sizes /\ Allowed' = Allowed
  BY <1>2, SamePhase
<1>10. ScheduleInv'
  BY <1>1, <1>2, <1>3, <1>5, <1>6, <1>8, <1>9 DEF ScheduleInv, RoundTurns
<1> QED
  BY <1>2, <1>3, <1>5, <1>7, <1>10


LEMMA DecisionSchedules ==
  ASSUME ScheduleInv, DecideA \/ OpenB \/ DecideB \/ Transfer
  PROVE  ScheduleInv'
<1>1. CASE DecideA
  <2>1. turn = "decide" /\ todo = <<>> /\ todo' = todo
    BY <1>1 DEF DecideA, ScheduleInv, RoundTurns
  <2>2. \/ turn' \in {"returned", "raised"}
        \/ turn' = "open_b" /\ phase' = "A_FROZEN"
    BY <1>1 DEF DecideA, FreezeATheory
  <2> QED
    BY <2>1, <2>2 DEF ScheduleInv, RoundTurns
<1>2. CASE OpenB
  <2>1. /\ turn' = "propose" /\ round' = 0 /\ todo' = todo /\ todo = <<>>
        /\ phase' = "B_CALIBRATION"
    BY <1>2 DEF OpenB, OpenBCalibration, ScheduleInv
  <2>2. Sizes' = BBatchSizes /\ Len(BBatchSizes) \in Nat \ {0}
    <3>1. SizesOf("B") = BBatchSizes
      BY DEF SizesOf
    <3>2. Sizes' = BBatchSizes
      BY <2>1 DEF Sizes, Paradigm
    <3> QED
      BY <3>1, <3>2, ScheduleNumbers
  <2> QED
    BY <2>1, <2>2 DEF ScheduleInv, RoundTurns
<1>3. CASE DecideB
  <2>1. \/ turn' \in {"returned", "raised"}
        \/ turn' = "transfer" /\ phase' = "B_TRANSFER"
    BY <1>3 DEF DecideB, SubmitBTheory
  <2> QED
    BY <2>1 DEF ScheduleInv, RoundTurns
<1>4. CASE Transfer
  <2>1. \/ turn' \in {"returned", "raised"}
        \/ turn' = "transfer" /\ phase' = phase /\ turn = "transfer"
    BY <1>4 DEF Transfer, CommitPredictions, ObserveTransfer
  <2> QED
    BY <2>1 DEF ScheduleInv, RoundTurns
<1> QED
  BY <1>1, <1>2, <1>3, <1>4

LEMMA ScheduleStep ==
  ASSUME ScheduleInv, [ONext]_allVars
  PROVE  ScheduleInv'
<1>1. CASE Propose
  <2>1. /\ turn = "propose" /\ turn' = "select" /\ round' = round /\ todo' = todo
        /\ phase' = phase
    BY <1>1 DEF Propose, StartEpistemicCycle
  <2> QED
    BY <2>1, SamePhase DEF ScheduleInv, RoundTurns
<1>2. ASSUME NEW batch \in Batches, Select(batch)
      PROVE  ScheduleInv'
  BY <1>2, SelectSchedules
<1>3. CASE Execute
  BY <1>3, ExecuteSchedules
<1>4. CASE DecideA \/ OpenB \/ DecideB \/ Transfer
  BY <1>4, DecisionSchedules
<1>5. CASE \/ AgentRaises \/ BrokerRefuses \/ RuntimeRaises
           \/ \E batch \in Batches : RejectBatch(batch)
  <2>1. turn' = "raised"
    BY <1>5 DEF AgentRaises, BrokerRefuses, RuntimeRaises, RejectBatch
  <2> QED
    BY <2>1 DEF ScheduleInv, RoundTurns
<1>6. CASE Over \/ UNCHANGED allVars
  <2>1. turn' = turn /\ round' = round /\ todo' = todo /\ phase' = phase
    BY <1>6 DEF Over, allVars, runVars, vars
  <2> QED
    BY <2>1, SamePhase DEF ScheduleInv
<1> QED
  BY <1>1, <1>2, <1>3, <1>4, <1>5, <1>6 DEF ONext

LEMMA ScheduleHolds == OSpec => []ScheduleInv
BY ScheduleInit, ScheduleStep, PTL DEF OSpec

LEMMA RunStepIsBrokerStep ==
  ASSUME ScheduleInv, [ONext]_allVars
  PROVE  [Next]_vars
<1>1. CASE Propose
  BY <1>1 DEF Propose, Next
<1>2. CASE Execute
  <2>1. Head(todo) \in Experiments /\ RunVisibleExperiment(Head(todo))
    BY <1>2, ExecuteSchedules DEF Execute
  <2> QED
    BY <2>1 DEF Next
<1>3. CASE DecideA
  BY <1>3 DEF DecideA, Next
<1>4. CASE OpenB
  BY <1>4 DEF OpenB, Next
<1>5. CASE DecideB
  BY <1>5 DEF DecideB, Next
<1>6. CASE Transfer
  BY <1>6 DEF Transfer, Next
<1>7. CASE RuntimeRaises
  <2>1. CASE turn = "execute" /\ VisibleExperimentRaises(Head(todo))
    <3>1. Head(todo) \in Experiments
      <4>1. todo \in Seq(Experiments) /\ todo # <<>>
        BY <2>1 DEF ScheduleInv
      <4> QED
        BY <4>1
    <3> QED
      BY <2>1, <3>1 DEF Next
  <2>2. CASE ObserveTransferRaises
    BY <2>2 DEF Next
  <2> QED
    BY <1>7, <2>1, <2>2 DEF RuntimeRaises
<1>8. CASE \/ AgentRaises \/ BrokerRefuses \/ Over \/ UNCHANGED allVars
           \/ \E batch \in Batches : Select(batch) \/ RejectBatch(batch)
  BY <1>8 DEF AgentRaises, BrokerRefuses, Over, allVars, Select, RejectBatch
<1> QED
  BY <1>1, <1>2, <1>3, <1>4, <1>5, <1>6, <1>7, <1>8 DEF ONext

\* Every step of run() is a step of the broker or leaves it alone, so everything
\* proved of the broker holds of a run.
THEOREM RunDrivesBroker == OSpec => Spec
<1>1. OInit => Init
  BY DEF OInit
<1> QED
  BY <1>1, ScheduleHolds, RunStepIsBrokerStep, PTL DEF OSpec, Spec

LEMMA BrokerHolds == OSpec => [](ScheduleInv /\ TypeInv /\ Books)
BY ScheduleHolds, RunDrivesBroker, Typed, BooksHold, PTL


-------------------------------------------------------------------------------
(* What run() has paid.                                                    *)

\* The broker's counters are where the schedule is: the cycles opened, the rounds
\* paid, with what is left of the batch in progress, and no gate attempted yet.
AccountInv ==
  /\ turn \in RoundTurns =>
       /\ attempts[Paradigm] = 0
       /\ cycles = CyclesBefore(Paradigm) + round
                     + (IF turn \in {"select", "execute"} THEN 1 ELSE 0)
       /\ IF turn = "execute"
          THEN spent[Purpose(Paradigm)] + Len(todo) = PaidBy(Paradigm)[round + 1]
          ELSE spent[Purpose(Paradigm)] = PaidBy(Paradigm)[round]
  /\ turn = "open_b" => cycles = Len(ABatchSizes)
  /\ turn = "transfer" => evaluating \/ spent["B_transfer_eval"] = 0

LEMMA AccountInit ==
  ASSUME OInit
  PROVE  AccountInv
<1>1. /\ turn = "propose" /\ round = 0 /\ phase = "A_DISCOVERY" /\ cycles = 0
      /\ attempts["A"] = 0 /\ spent["A_discovery"] = 0
  BY PurposeNames DEF OInit, Init
<1>2. Paradigm = "A" /\ Purpose("A") = "A_discovery" /\ CyclesBefore("A") = 0
  BY <1>1 DEF Paradigm, Purpose, CyclesBefore
<1>3. PaidBy("A")[0] = 0
  BY ScheduleNumbers
<1> QED
  BY <1>1, <1>2, <1>3 DEF AccountInv

LEMMA PurposeType ==
  ASSUME TypeInv
  PROVE  Purpose(Paradigm) \in Purposes /\ spent[Purpose(Paradigm)] \in Nat
BY PurposeNames DEF TypeInv, Purpose

LEMMA ExecuteAccounts ==
  ASSUME ScheduleInv, TypeInv, AccountInv, Execute
  PROVE  AccountInv'
<1> DEFINE p == Paradigm
           s == spent[Purpose(Paradigm)]
           n == Len(todo)
           paid == PaidBy(Paradigm)[round + 1]
<1>1. /\ Head(todo) \in Experiments /\ Head(todo).paradigm = p /\ Len(todo') = n - 1
      /\ n \in Nat \ {0} /\ phase' = phase /\ round \in Nat
  BY ExecuteSchedules
<1>2. /\ turn = "execute" /\ RunVisibleExperiment(Head(todo))
      /\ round' = (IF todo' = <<>> THEN round + 1 ELSE round)
      /\ turn' = (IF todo' # <<>> THEN "execute"
                  ELSE IF round' < Len(Sizes) THEN "propose" ELSE "decide")
      /\ todo' = Tail(todo) /\ todo \in Seq(Experiments) /\ todo # <<>>
  BY DEF Execute, ScheduleInv
<1>3. attempts' = attempts /\ cycles' = cycles
  BY <1>2 DEF RunVisibleExperiment
<1>4. Paradigm' = p
  BY <1>1, SamePhase
<1>5. spent'[Purpose(p)] = s + 1 /\ s \in Nat
  BY <1>1, <1>2, VisibleEffect, PurposeType
<1>6. /\ attempts[p] = 0 /\ cycles = CyclesBefore(p) + round + 1 /\ s + n = paid
  BY <1>2 DEF AccountInv, RoundTurns
<1>7. CyclesBefore(p) \in Nat
  BY ParadigmTypes, ScheduleNumbers
<1>8. Purpose(Paradigm)' = Purpose(p)
  BY <1>4 DEF Purpose
<1> HIDE DEF p, s, n, paid
<1>9. CASE todo' = <<>>
  <2>1. n = 1 /\ round' = round + 1 /\ turn' \in {"propose", "decide"}
    <3>1. Len(todo') = 0
      BY <1>9, EmptySeq
    <3>2. n = 1
      BY <1>1, <3>1
    <3>3. round' = round + 1 /\ turn' \in {"propose", "decide"}
      BY <1>2, <1>9
    <3> QED
      BY <3>2, <3>3
  <2>2. spent'[Purpose(p)] = paid /\ cycles' = CyclesBefore(p) + round' + 0
    BY <1>1, <1>3, <1>5, <1>6, <1>7, <2>1
  <2>3. PaidBy(p)[round'] = paid
    BY <2>1 DEF p, paid
  <2> QED
    BY <1>3, <1>4, <1>6, <1>8, <2>1, <2>2, <2>3 DEF AccountInv, RoundTurns
<1>10. CASE todo' # <<>>
  <2>1. round' = round /\ turn' = "execute"
    BY <1>2, <1>10
  <2>2. spent'[Purpose(p)] + Len(todo') = paid
    BY <1>1, <1>5, <1>6
  <2>3. PaidBy(p)[round' + 1] = paid
    BY <2>1 DEF p, paid
  <2> QED
    BY <1>3, <1>4, <1>6, <1>8, <2>1, <2>2, <2>3 DEF AccountInv, RoundTurns
<1> QED
  BY <1>9, <1>10

LEMMA SelectAccounts ==
  ASSUME ScheduleInv, TypeInv, AccountInv, NEW batch \in Batches, Select(batch)
  PROVE  AccountInv'
<1>1. /\ turn = "select" /\ turn' = "execute" /\ round' = round
      /\ UNCHANGED <<phase, attempts, cycles, spent>>
  BY DEF Select, vars, accounts
<1>2. Len(todo') = SizesOf(Paradigm)[round + 1]
  BY SelectSchedules
<1>3. /\ attempts[Paradigm] = 0 /\ cycles = CyclesBefore(Paradigm) + round + 1
      /\ spent[Purpose(Paradigm)] = PaidBy(Paradigm)[round]
      /\ round \in 0 .. Len(Sizes) /\ round # Len(Sizes)
  BY <1>1 DEF AccountInv, RoundTurns, ScheduleInv
<1>4. PaidBy(Paradigm)[round + 1] = PaidBy(Paradigm)[round] + SizesOf(Paradigm)[round + 1]
  <2>1. round \in 0 .. Len(SizesOf(Paradigm)) - 1 /\ Paradigm \in {"A", "B"}
    BY <1>3, ParadigmTypes, ScheduleNumbers
  <2> QED
    BY <2>1, ScheduleNumbers
<1>5. Paradigm' = Paradigm /\ Purpose(Paradigm)' = Purpose(Paradigm)
  BY <1>1, SamePhase DEF Purpose
<1> QED
  BY <1>1, <1>2, <1>3, <1>4, <1>5 DEF AccountInv

LEMMA DecisionAccounts ==
  ASSUME ScheduleInv, TypeInv, Staged, AccountInv, DecideA \/ OpenB \/ DecideB \/ Transfer
  PROVE  AccountInv'
<1>1. CASE DecideA
  <2>1. turn = "decide" /\ (turn' \in {"returned", "raised"} \/ turn' = "open_b")
    BY <1>1 DEF DecideA
  <2>2. ASSUME turn' = "open_b"
        PROVE  cycles' = Len(ABatchSizes)
    <3>1. phase = "A_DISCOVERY" /\ cycles' = cycles
      BY <1>1, <2>2 DEF DecideA, FreezeATheory, AGateOpen
    <3>2. Paradigm = "A" /\ Sizes = ABatchSizes /\ CyclesBefore("A") = 0
      BY <3>1 DEF Paradigm, Sizes, CyclesBefore
    <3>3. round = Len(ABatchSizes) /\ Len(ABatchSizes) \in Nat
      BY <2>1, <3>2, OrchestratorConstants DEF ScheduleInv, RoundTurns
    <3>4. cycles = CyclesBefore("A") + round + 0
      BY <2>1, <3>2 DEF AccountInv, RoundTurns
    <3> QED
      BY <3>1, <3>2, <3>3, <3>4
  <2> QED
    BY <2>1, <2>2 DEF AccountInv, RoundTurns
<1>2. CASE OpenB
  <2>1. /\ turn = "open_b" /\ turn' = "propose" /\ round' = 0 /\ phase = "A_FROZEN"
        /\ phase' = "B_CALIBRATION" /\ UNCHANGED <<attempts, cycles, spent>>
    BY <1>2 DEF OpenB, OpenBCalibration, accounts
  <2>2. attempts["B"] = 0 /\ spent["B_calibration"] = 0 /\ cycles = Len(ABatchSizes)
    BY <2>1 DEF Staged, AccountInv
  <2>3. Paradigm' = "B" /\ Purpose(Paradigm)' = "B_calibration"
    BY <2>1 DEF Paradigm, Purpose
  <2>4. CyclesBefore("B") + 0 + 0 = Len(ABatchSizes) /\ PaidBy("B")[0] = 0
    <3>1. CyclesBefore("B") = Len(ABatchSizes) /\ Len(ABatchSizes) \in Nat
      BY OrchestratorConstants DEF CyclesBefore
    <3> QED
      BY <3>1, ScheduleNumbers
  <2> QED
    BY <2>1, <2>2, <2>3, <2>4 DEF AccountInv
<1>3. CASE DecideB
  <2>1. turn' \in {"returned", "raised", "transfer"}
    BY <1>3 DEF DecideB
  <2>2. ASSUME turn' = "transfer"
        PROVE  spent'["B_transfer_eval"] = 0
    <3>1. phase = "B_CALIBRATION" /\ attempts["B"] = 0 /\ Charge("B")
      BY <1>3, <2>2 DEF DecideB, SubmitBTheory, BGateOpen
    <3>2. spent["B_transfer_eval"] = 0
      BY <3>1 DEF Staged
    <3> QED
      BY <3>1, <3>2, ChargeEffect
  <2> QED
    BY <2>1, <2>2 DEF AccountInv, RoundTurns
<1>4. CASE Transfer
  <2>1. turn' \in {"returned", "raised"} \/ (turn' = "transfer" /\ evaluating')
    BY <1>4 DEF Transfer, CommitPredictions, ObserveTransfer
  <2> QED
    BY <2>1 DEF AccountInv, RoundTurns
<1> QED
  BY <1>1, <1>2, <1>3, <1>4

LEMMA AccountStep ==
  ASSUME ScheduleInv, TypeInv, Staged, AccountInv, [ONext]_allVars
  PROVE  AccountInv'
<1>1. CASE Propose
  <2>1. /\ turn = "propose" /\ turn' = "select" /\ round' = round /\ phase' = phase
        /\ cycles' = cycles + 1 /\ UNCHANGED <<attempts, spent>>
    BY <1>1 DEF Propose, StartEpistemicCycle
  <2>2. Paradigm' = Paradigm /\ Purpose(Paradigm)' = Purpose(Paradigm)
    BY <2>1, SamePhase DEF Purpose
  <2>3. /\ attempts[Paradigm] = 0 /\ cycles = CyclesBefore(Paradigm) + round + 0
        /\ spent[Purpose(Paradigm)] = PaidBy(Paradigm)[round] /\ round \in Int
    BY <2>1, ParadigmTypes, ScheduleNumbers DEF AccountInv, RoundTurns, ScheduleInv
  <2>4. CyclesBefore(Paradigm) \in Nat
    BY ParadigmTypes, ScheduleNumbers
  <2>5. cycles' = CyclesBefore(Paradigm) + round + 1
    BY <2>1, <2>3, <2>4
  <2> QED
    BY <2>1, <2>2, <2>3, <2>5 DEF AccountInv
<1>2. ASSUME NEW batch \in Batches, Select(batch)
      PROVE  AccountInv'
  BY <1>2, SelectAccounts
<1>3. CASE Execute
  BY <1>3, ExecuteAccounts
<1>4. CASE DecideA \/ OpenB \/ DecideB \/ Transfer
  BY <1>4, DecisionAccounts
<1>5. CASE \/ AgentRaises \/ BrokerRefuses \/ RuntimeRaises
           \/ \E batch \in Batches : RejectBatch(batch)
  <2>1. turn' = "raised"
    BY <1>5 DEF AgentRaises, BrokerRefuses, RuntimeRaises, RejectBatch
  <2> QED
    BY <2>1 DEF AccountInv, RoundTurns
<1>6. CASE Over \/ UNCHANGED allVars
  <2>1. UNCHANGED <<turn, round, todo, phase, attempts, cycles, spent, evaluating>>
    BY <1>6 DEF Over, allVars, runVars, vars, accounts, transfer
  <2>2. Paradigm' = Paradigm /\ Purpose(Paradigm)' = Purpose(Paradigm)
    BY <2>1, SamePhase DEF Purpose
  <2> QED
    BY <2>1, <2>2 DEF AccountInv
<1> QED
  BY <1>1, <1>2, <1>3, <1>4, <1>5, <1>6 DEF ONext

LEMMA AccountsKept == OSpec => [](ScheduleInv /\ TypeInv /\ Staged /\ AccountInv)
<1>1. Books => Staged
  BY DEF Books
<1>2. OInit => AccountInv
  BY AccountInit
<1>3. ScheduleInv /\ TypeInv /\ Staged /\ AccountInv /\ [ONext]_allVars => AccountInv'
  BY AccountStep
<1> QED
  BY <1>1, <1>2, <1>3, BrokerHolds, PTL DEF OSpec

\* The schedule's sizes and the broker's budgets agree: whatever the agents answer,
\* no cycle, experiment, gate or transfer evaluation that run() asks for is refused
\* because of a phase, a budget or a cap.
THEOREM RunIsNeverRefused == OSpec => []NeverRefused
<1>1. ASSUME ScheduleInv, TypeInv, Staged, AccountInv
      PROVE  NeverRefused
  <2> DEFINE p == Paradigm
             s == spent[Purpose(Paradigm)]
  <2>1. /\ p \in {"A", "B"} /\ Sizes = SizesOf(p) /\ s \in Nat
        /\ p = "A" <=> phase = "A_DISCOVERY"
    BY <1>1, ParadigmTypes, PurposeType DEF Paradigm
  <2>2. /\ Len(Sizes) \in Nat \ {0} /\ CyclesBefore(p) \in Nat /\ MaxEpistemicCycles \in Int
        /\ CyclesBefore(p) + Len(Sizes) <= MaxEpistemicCycles
    BY <2>1, ScheduleNumbers, BrokerConstants
  <2>3. turn = "propose" => phase # "CLOSED" /\ cycles < MaxEpistemicCycles
    <3> SUFFICES ASSUME turn = "propose"
                 PROVE  phase # "CLOSED" /\ cycles < MaxEpistemicCycles
      OBVIOUS
    <3>1. /\ cycles = CyclesBefore(p) + round + 0 /\ phase \in {"A_DISCOVERY", "B_CALIBRATION"}
          /\ round \in 0 .. Len(Sizes) /\ round # Len(Sizes)
      BY <1>1 DEF AccountInv, ScheduleInv, RoundTurns
    <3> HIDE DEF p
    <3> QED
      BY <2>2, <3>1
  <2>4. turn = "execute" => Permitted(Head(todo))
    <3> SUFFICES ASSUME turn = "execute"
                 PROVE  Permitted(Head(todo))
      OBVIOUS
    <3>1. /\ Head(todo).paradigm = p /\ Head(todo).entity \in Allowed /\ Len(todo) \in Nat \ {0}
      <4>1. /\ todo \in Seq(Experiments) /\ todo # <<>>
            /\ \A i \in DOMAIN todo : todo[i].paradigm = Paradigm /\ todo[i].entity \in Allowed
        BY <1>1 DEF ScheduleInv
      <4>2. Head(todo) = todo[1] /\ 1 \in DOMAIN todo /\ Len(todo) \in Nat \ {0}
        BY <4>1
      <4> QED
        BY <4>1, <4>2
    <3>2. /\ s + Len(todo) = PaidBy(p)[round + 1] /\ round \in 0 .. Len(Sizes)
          /\ round # Len(Sizes) /\ phase \in {"A_DISCOVERY", "B_CALIBRATION"}
      BY <1>1 DEF AccountInv, ScheduleInv, RoundTurns
    <3>3. PaidBy(p)[round + 1] \in 0 .. TotalOf(p) /\ TotalOf(p) \in Nat
      <4>1. round + 1 \in 0 .. Len(SizesOf(p))
        BY <2>1, <2>2, <3>2
      <4> QED
        BY <2>1, <4>1, ScheduleNumbers
    <3>4. s < TotalOf(p)
      <4> HIDE DEF s, p
      <4> QED
        BY <2>1, <3>1, <3>2, <3>3
    <3>5. CASE p = "A"
      BY <2>1, <3>1, <3>4, <3>5 DEF Permitted, Purpose, TotalOf
    <3>6. CASE p = "B"
      <4>1. Allowed = CalibrationEntities /\ phase = "B_CALIBRATION"
        BY <2>1, <3>2, <3>6 DEF Allowed
      <4> QED
        BY <3>1, <3>4, <3>6, <4>1 DEF Permitted, Purpose, TotalOf
    <3> QED
      BY <2>1, <3>5, <3>6
  <2>5. turn = "decide" => AGateOpen \/ BGateOpen
    <3> SUFFICES ASSUME turn = "decide"
                 PROVE  AGateOpen \/ BGateOpen
      OBVIOUS
    <3>1. /\ attempts[p] = 0 /\ s = PaidBy(p)[round] /\ round = Len(Sizes)
          /\ phase \in {"A_DISCOVERY", "B_CALIBRATION"}
      BY <1>1 DEF AccountInv, ScheduleInv, RoundTurns
    <3>2. s = TotalOf(p)
      BY <2>1, <3>1, ScheduleNumbers
    <3>3. Idle
      BY <1>1, <3>1 DEF Staged, Idle
    <3>4. CASE p = "A"
      BY <2>1, <3>1, <3>2, <3>3, <3>4 DEF AGateOpen, Purpose, TotalOf
    <3>5. CASE p = "B"
      <4>1. phase = "B_CALIBRATION" /\ frozen # None
        BY <1>1, <2>1, <3>1, <3>5 DEF Staged, Opened
      <4> QED
        BY <3>1, <3>2, <3>3, <3>5, <4>1 DEF BGateOpen, Purpose, TotalOf
    <3> QED
      BY <2>1, <3>4, <3>5
  <2>6. turn = "transfer" => TransferOpen \/ evaluating
    <3> SUFFICES ASSUME turn = "transfer", ~evaluating
                 PROVE  TransferOpen
      OBVIOUS
    <3>1. phase = "B_TRANSFER" /\ spent["B_transfer_eval"] = 0
      BY <1>1 DEF ScheduleInv, AccountInv
    <3>2. bTheory # None
      BY <1>1, <3>1 DEF Staged
    <3> QED
      BY <3>1, <3>2 DEF TransferOpen, Idle
  <2> QED
    BY <2>3, <2>4, <2>5, <2>6 DEF NeverRefused
<1> QED
  BY <1>1, AccountsKept, PTL


-------------------------------------------------------------------------------
(* How run() ends.                                                         *)

\* A closed broker has a result.
LEMMA CloseIsResult ==
  ASSUME TypeInv, NEW outcome \in {"theory_gate_failure", "no_concept", "d4"},
         NEW gate \in {"A", "B", None}, NEW units \in [Purposes -> Nat],
         NEW correct \in Nat, NEW qualifies \in BOOLEAN, NEW event,
         Close(outcome, gate, units, correct, qualifies, event)
  PROVE  result' # None /\ result'.outcome = outcome
<1>1. Total(Budget) \in Int /\ Total(units) \in Int
  <2>1. \A p \in Purposes : Budget[p] \in Nat /\ units[p] \in Nat
    BY Allocations, PurposeNames
  <2> QED
    BY <2>1, PurposeNames DEF Total
<1>2. Total(Budget) - Total(units) \in Int
  BY <1>1
<1>3. result' \in Results
  BY <1>2 DEF Close, Results
<1> QED
  BY <1>3, NoneIsNoResult DEF Close

LEMMA FailIsResult ==
  ASSUME TypeInv, NEW gate \in {"A", "B"}, FailGate(gate)
  PROVE  result' # None /\ result'.outcome = "theory_gate_failure"
<1>1. Charged(gate) \in [Purposes -> Nat]
  BY PurposeNames, BrokerConstants DEF TypeInv, Charged
<1>2. Close("theory_gate_failure", gate, Charged(gate), 0, FALSE, "run_closed_gate_failure")
  BY DEF FailGate
<1> HIDE DEF Charged
<1> QED
  BY <1>1, <1>2, CloseIsResult

\* The result is the broker's, and only a gate failure is raised with one.
OutcomeInv ==
  /\ turn = "returned" => result # None /\ result.outcome # "theory_gate_failure"
  /\ turn = "raised" /\ result # None => result.outcome = "theory_gate_failure"
  /\ turn \notin {"returned", "raised"} => result = None

LEMMA DecisionOutcome ==
  ASSUME OutcomeInv, TypeInv, DecideA \/ DecideB \/ Transfer
  PROVE  OutcomeInv'
<1>1. result = None
  BY DEF OutcomeInv, DecideA, DecideB, Transfer
<1>2. CASE DecideA
  <2>1. CASE DeclareNoConcept /\ turn' = "returned"
    <3>1. Close("no_concept", None, spent, 0, FALSE, "run_closed_no_concept")
      BY <2>1 DEF DeclareNoConcept
    <3>2. spent \in [Purposes -> Nat]
      BY DEF TypeInv
    <3> QED
      BY <2>1, <3>1, <3>2, CloseIsResult DEF OutcomeInv
  <2>2. ASSUME NEW theory \in TheoryChoices, FreezeATheory(theory), turn' = "open_b"
        PROVE  OutcomeInv'
    BY <1>1, <2>2 DEF FreezeATheory, OutcomeInv
  <2>3. ASSUME NEW theory \in TheoryChoices, FailAGate(theory), turn' = "raised"
        PROVE  OutcomeInv'
    BY <2>3, FailIsResult DEF FailAGate, OutcomeInv
  <2> QED
    BY <1>2, <2>1, <2>2, <2>3 DEF DecideA
<1>3. CASE DecideB
  <2>1. ASSUME NEW theory \in TheoryChoices, SubmitBTheory(theory), turn' = "transfer"
        PROVE  OutcomeInv'
    BY <1>1, <2>1 DEF SubmitBTheory, OutcomeInv
  <2>2. ASSUME NEW theory \in TheoryChoices, FailBGate(theory), turn' = "raised"
        PROVE  OutcomeInv'
    BY <2>2, FailIsResult DEF FailBGate, OutcomeInv
  <2>3. ASSUME NEW theory \in TheoryChoices, BGateUndecided(theory), turn' = "raised"
        PROVE  OutcomeInv'
    BY <1>1, <2>3 DEF BGateUndecided, OutcomeInv
  <2> QED
    BY <1>3, <2>1, <2>2, <2>3 DEF DecideB
<1>4. CASE Transfer
  <2>1. CASE (CommitPredictions \/ ObserveTransfer) /\ turn' = "transfer"
    BY <1>1, <2>1 DEF CommitPredictions, ObserveTransfer, OutcomeInv
  <2>2. CASE TransferIdTaken /\ turn' = "raised"
    BY <1>1, <2>2 DEF TransferIdTaken, OutcomeInv
  <2>3. CASE CloseRun /\ turn' = "returned"
    <3>1. Close("d4", None, spent, Hits, Qualifies, "run_closed")
      BY <2>3 DEF CloseRun
    <3>2. spent \in [Purposes -> Nat] /\ outcomes \in Seq(Outcomes)
      BY DEF TypeInv
    <3>3. Hits \in Nat
      <4> DEFINE H == {i \in DOMAIN outcomes : outcomes[i].predicted = outcomes[i].y}
      <4>1. H \subseteq 1 .. Len(outcomes) /\ Len(outcomes) \in Nat
        BY <3>2
      <4>2. IsFiniteSet(1 .. Len(outcomes))
        BY <4>1, FS_Interval
      <4> HIDE DEF H
      <4>3. Cardinality(H) \in Nat
        BY <4>1, <4>2, FS_Subset, FS_CardinalityType
      <4> QED
        BY <4>3 DEF H, Hits
    <3>4. Qualifies \in BOOLEAN
      BY DEF Qualifies, AtLeast
    <3> HIDE DEF Hits, Qualifies
    <3> QED
      BY <2>3, <3>1, <3>2, <3>3, <3>4, CloseIsResult DEF OutcomeInv
  <2> QED
    BY <1>4, <2>1, <2>2, <2>3 DEF Transfer
<1> QED
  BY <1>2, <1>3, <1>4

LEMMA OutcomeStep ==
  ASSUME OutcomeInv, TypeInv, [ONext]_allVars
  PROVE  OutcomeInv'
<1>1. CASE DecideA \/ DecideB \/ Transfer
  BY <1>1, DecisionOutcome
<1>2. CASE Propose \/ Execute \/ OpenB
  <2>1. /\ turn \notin {"returned", "raised"} /\ turn' \notin {"returned", "raised"}
        /\ result' = result
    BY <1>2 DEF Propose, StartEpistemicCycle, Execute, RunVisibleExperiment, OpenB,
       OpenBCalibration
  <2> QED
    BY <2>1 DEF OutcomeInv
<1>3. CASE \/ AgentRaises \/ BrokerRefuses \/ RuntimeRaises
           \/ \E batch \in Batches : RejectBatch(batch)
  <2>1. turn \notin {"returned", "raised"} /\ turn' = "raised" /\ result' = result
    BY <1>3 DEF AgentRaises, BrokerRefuses, RuntimeRaises, RejectBatch,
       VisibleExperimentRaises, ObserveTransferRaises, vars
  <2> QED
    BY <2>1 DEF OutcomeInv
<1>4. CASE \E batch \in Batches : Select(batch)
  BY <1>4 DEF Select, vars, OutcomeInv
<1>5. CASE Over \/ UNCHANGED allVars
  BY <1>5 DEF Over, allVars, runVars, vars, OutcomeInv
<1> QED
  BY <1>1, <1>2, <1>3, <1>4, <1>5 DEF ONext

\* run() returns exactly with an abstention or a D4 result; a gate failure closes the
\* broker and is raised, and every other exception leaves the broker open.
THEOREM RunReturnsResult == OSpec => []RunOutcome
<1>1. OInit => OutcomeInv
  BY DEF OInit, Init, OutcomeInv
<1>2. OutcomeInv /\ TypeInv /\ [ONext]_allVars => OutcomeInv'
  BY OutcomeStep
<1>3. OutcomeInv /\ ScheduleInv => RunOutcome
  BY DEF OutcomeInv, ScheduleInv, RunOutcome
<1> QED
  BY <1>1, <1>2, <1>3, BrokerHolds, PTL DEF OSpec
===============================================================================
