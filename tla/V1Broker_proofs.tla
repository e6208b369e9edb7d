---------------------------- MODULE V1Broker_proofs ----------------------------
(***************************************************************************)
(* Theorems about V1Broker, for every value of its constants and, unless a *)
(* theorem says otherwise, any number of observe calls that raise: first   *)
(* its types and the held-out gate, then what a run freezes, pays and      *)
(* scores.                                                                 *)
(*                                                                         *)
(* The broker keeps its progress in several variables that its operations  *)
(* update together (the phase, the frozen schedules, the gate charge, the  *)
(* call in progress); StageInv is what they say about each other, and      *)
(* everything else here rests on it.                                       *)
(*                                                                         *)
(* The outcomes of a call live in a local variable that the call drops when*)
(* it ends, so afterwards nothing in the broker's state says which plan the*)
(* rows of a list came from.  EvidenceInv keeps that: the rows a frozen    *)
(* object was built from are still the last of their list.                 *)
(***************************************************************************)
EXTENDS V1Broker, V1Protocol_proofs, SequenceTheorems

-------------------------------------------------------------------------------
(* Type correctness.  TypeOK says what each variable holds, but not that a *)
(* call past the commit has a partition to work with, nor that calibration *)
(* outcomes line up with the frozen schedule; FreezeTransfer needs both to *)
(* build a lookup.                                                         *)

CallInv ==
  /\ DOMAIN call = {"stage", "plan", "ys"}
  /\ call.stage \in {"a_gate", "b_calibration", "b_transfer"} => partition \in Partitions
  /\ call.stage = "b_calibration" => call.plan = calibration

TypeInv == TypeOK /\ CallInv

\* What TypeInv says of the call in progress, as one predicate of a call.
CallTypeOK ==
  /\ call.stage \in Stages \cup {"none"}
  /\ call.plan \in Plans(call.stage)
  /\ call.ys \in Seq(Actions) /\ Len(call.ys) <= Len(call.plan)
  /\ CallInv

LEMMA ConstantTypes ==
  /\ ADiscoveryBudget \in Nat /\ AGateBudget \in Nat /\ ABatchSize \in Nat
  /\ BCalibrationBudget \in Nat /\ BTransferBudget \in Nat
BY ProtocolConstants, BrokerConstants

\* Spent counts observations.
LEMMA SpentType ==
  ASSUME TypeOK, NEW charged \in {0, AGateBudget}
  PROVE  Spent(obs, charged) \in Nat
<1> DEFINE discovered == Len(obs["a_discovery"])
           calibrated == Len(obs["b_calibration"])
           transferred == Len(obs["b_transfer"])
<1>1. discovered \in Nat /\ calibrated \in Nat /\ transferred \in Nat /\ charged \in Nat
  BY ConstantTypes DEF TypeOK, Stages
<1> HIDE DEF discovered, calibrated, transferred
<1>2. discovered + charged + calibrated + transferred \in Nat
  BY <1>1
<1> QED
  BY <1>2 DEF Spent, discovered, calibrated, transferred

\* _close leaves a result of the right type and no call in progress.
LEMMA CloseType ==
  ASSUME TypeOK, NEW outcome \in Outcomes, NEW charged \in {0, AGateBudget}, NEW events,
         NEW correct \in Nat, NEW total \in Nat, NEW inconsistent \in Nat,
         Close(outcome, charged, events, correct, total, inconsistent)
  PROVE  result' \in Results /\ phase' = "CLOSED" /\ CallTypeOK'
<1>1. Spent(obs, charged) \in Nat
  BY SpentType
<1>2. result' \in Results
  BY <1>1 DEF Close, Results
<1>3. CallTypeOK'
  BY DEF Close, Idle, CallTypeOK, CallInv, Plans
<1> QED
  BY <1>2, <1>3 DEF Close

LEMMA CloseUnscoredType ==
  ASSUME TypeOK, NEW outcome \in Outcomes, NEW charged \in {0, AGateBudget}, NEW events,
         CloseUnscored(outcome, charged, events)
  PROVE  result' \in Results /\ phase' = "CLOSED" /\ CallTypeOK'
BY CloseType DEF CloseUnscored

\* The intervention a running call is about to perform, its counter and the
\* counter after it are of the right types.
LEMMA RunningTypes ==
  ASSUME TypeOK, NEW stage \in Stages, Running(stage)
  PROVE  /\ Current.entity \in Entities /\ Current.action \in Actions
         /\ RepKey(stage) \in {"A", "B"} \X Entities \X Actions
         /\ reps[RepKey(stage)] \in Nat
         /\ NextRepetition(stage) \in [{"A", "B"} \X Entities \X Actions -> Nat]
<1>1. Len(call.ys) + 1 \in 1 .. Len(call.plan) /\ call.stage = stage
  <2>1. Len(call.ys) \in Nat /\ Len(call.plan) \in Nat
    BY DEF TypeOK, Plans, Stages, Running
  <2> QED
    BY <2>1 DEF Running
<1>2. Current.entity \in Entities /\ Current.action \in Actions
  <2>1. CASE stage = "a_discovery"
    <3>1. call.plan \in Seq(Interventions)
      BY <1>1, <2>1 DEF TypeOK, Plans
    <3>2. Current \in Interventions
      BY <1>1, <3>1, ElementOfSeq DEF Current
    <3> QED
      BY <3>2 DEF Interventions
  <2>2. CASE stage = "a_gate"
    <3>1. call.plan \in Seq(Challenges)
      BY <1>1, <2>2 DEF TypeOK, Plans
    <3>2. Current \in Challenges
      BY <1>1, <3>1, ElementOfSeq DEF Current
    <3> QED
      BY <3>2 DEF Challenges
  <2>3. CASE stage = "b_calibration"
    <3>1. call.plan \in Seq(Slots)
      BY <1>1, <2>3 DEF TypeOK, Plans
    <3>2. Current \in Slots
      BY <1>1, <3>1, ElementOfSeq DEF Current
    <3> QED
      BY <3>2 DEF Slots
  <2>4. CASE stage = "b_transfer"
    <3>1. call.plan \in Seq(Predictions)
      BY <1>1, <2>4 DEF TypeOK, Plans
    <3>2. Current \in Predictions
      BY <1>1, <3>1, ElementOfSeq DEF Current
    <3> QED
      BY <3>2 DEF Predictions
  <2> QED
    BY <2>1, <2>2, <2>3, <2>4 DEF Stages
<1>3. RepKey(stage) \in {"A", "B"} \X Entities \X Actions
  BY <1>2 DEF RepKey, Paradigm
<1>4. reps \in [{"A", "B"} \X Entities \X Actions -> Nat]
  BY DEF TypeOK
<1>5. reps[RepKey(stage)] \in Nat
  BY <1>3, <1>4
<1> QED
  BY <1>2, <1>3, <1>4, <1>5 DEF NextRepetition

\* The id a running batch is about to claim is one an agent may use.
LEMMA RunningBatchId ==
  ASSUME TypeOK, Running("a_discovery")
  PROVE  Current.id \in ExperimentIds
<1>1. call.plan \in Seq(Interventions)
  BY DEF Running, TypeOK, Plans
<1>2. Len(call.ys) + 1 \in 1 .. Len(call.plan)
  BY <1>1 DEF Running, TypeOK
<1>3. Current \in Interventions
  BY <1>1, <1>2, ElementOfSeq DEF Current
<1> QED
  BY <1>3 DEF Interventions

\* One iteration of a plan appends one observation and one outcome.
LEMMA ObserveType ==
  ASSUME TypeInv, NEW stage \in Stages, NEW event, Observe(stage, event)
  PROVE  /\ reps' \in [{"A", "B"} \X Entities \X Actions -> Nat]
         /\ obs' \in [Stages -> Seq(Observations)]
         /\ CallTypeOK'
<1>1. PICK y \in Actions :
        /\ obs' = [obs EXCEPT ![stage] =
                     Append(@, [entity |-> Current.entity, action |-> Current.action,
                                rep |-> reps[RepKey(stage)], y |-> y])]
        /\ call' = [call EXCEPT !.ys = Append(@, y)]
  BY DEF Observe
<1>2. TypeOK /\ Running(stage)
  BY DEF TypeInv, Observe
<1>3. [entity |-> Current.entity, action |-> Current.action,
       rep |-> reps[RepKey(stage)], y |-> y] \in Observations
  BY <1>2, RunningTypes DEF Observations
<1>4. obs' \in [Stages -> Seq(Observations)]
  BY <1>1, <1>2, <1>3 DEF TypeOK
<1>5. reps' \in [{"A", "B"} \X Entities \X Actions -> Nat]
  BY <1>2, RunningTypes DEF Observe
<1>6. call'.stage = call.stage /\ call'.plan = call.plan /\ call'.ys = Append(call.ys, y)
      /\ DOMAIN call' = DOMAIN call
  BY <1>1 DEF TypeInv, CallInv
<1>7. Append(call.ys, y) \in Seq(Actions) /\ Len(Append(call.ys, y)) <= Len(call.plan)
  <2>1. call.ys \in Seq(Actions) /\ Len(call.ys) \in Nat /\ Len(call.plan) \in Nat
    BY <1>2 DEF TypeOK, Plans, Stages, Running
  <2>2. Len(Append(call.ys, y)) = Len(call.ys) + 1
    BY <2>1
  <2>3. Len(call.ys) < Len(call.plan)
    BY <1>2 DEF Running
  <2> QED
    BY <2>1, <2>2, <2>3
<1>8. UNCHANGED <<partition, calibration>>
  BY DEF Observe, frozen
<1>9. CallTypeOK'
  BY <1>2, <1>6, <1>7, <1>8 DEF CallTypeOK, CallInv, TypeInv, TypeOK
<1> QED
  BY <1>4, <1>5, <1>9

\* A call that starts, starts with no outcomes.
LEMMA StartType ==
  ASSUME NEW stage \in Stages, NEW plan \in Plans(stage), Start(stage, plan),
         stage \in {"a_gate", "b_calibration", "b_transfer"} => partition' \in Partitions,
         stage = "b_calibration" => plan = calibration'
  PROVE  CallTypeOK'
<1>1. /\ call'.stage = stage /\ call'.plan = plan /\ call'.ys = <<>>
      /\ DOMAIN call' = {"stage", "plan", "ys"}
  BY DEF Start
<1>2. Len(plan) \in Nat
  BY DEF Plans, Stages
<1>3. <<>> \in Seq(Actions) /\ Len(<<>>) <= Len(plan)
  BY <1>2, EmptySeq
<1> QED
  BY <1>1, <1>3 DEF CallTypeOK, CallInv

LEMMA IdleType ==
  ASSUME call' = Idle
  PROVE  CallTypeOK'
<1>1. /\ call'.stage = "none" /\ call'.plan = <<>> /\ call'.ys = <<>>
      /\ DOMAIN call' = {"stage", "plan", "ys"}
  BY DEF Idle
<1>2. <<>> \in Seq(Actions) /\ Len(<<>>) = 0
  BY EmptySeq
<1> QED
  BY <1>1, <1>2 DEF CallTypeOK, CallInv, Plans

\* Closing unscored changes the result, the phase and the call only.
LEMMA ClosingKeepsTypes ==
  ASSUME TypeInv, NEW outcome \in Outcomes, NEW events,
         CloseUnscored(outcome, gateCharged, events),
         UNCHANGED <<measured, gateCharged, frozen, lookup, faults>>
  PROVE  TypeInv'
<1>1. TypeOK /\ gateCharged \in {0, AGateBudget}
  BY DEF TypeInv, TypeOK
<1>2. result' \in Results /\ phase' = "CLOSED" /\ CallTypeOK'
  BY <1>1, CloseUnscoredType
<1> QED
  BY <1>1, <1>2 DEF TypeInv, TypeOK, CallTypeOK, measured, frozen

LEMMA TypeInit ==
  Init => TypeInv
<1> SUFFICES ASSUME Init
             PROVE  TypeInv
  OBVIOUS
<1>1. reps \in [{"A", "B"} \X Entities \X Actions -> Nat]
  BY DEF Init
<1>2. obs \in [Stages -> Seq(Observations)]
  BY EmptySeq DEF Init
<1>3. /\ challenges \in Seq(Challenges) /\ calibration \in Seq(Slots)
      /\ predictions \in Seq(Predictions)
  BY EmptySeq DEF Init
<1>4. DOMAIN lookup = {}
  BY DEF Init
<1>5. call.ys \in Seq(Actions) /\ Len(call.ys) <= Len(call.plan) /\ call.stage = "none"
      /\ call.plan = <<>> /\ DOMAIN call = {"stage", "plan", "ys"}
  BY EmptySeq DEF Init, Idle
<1>6. faults \in 0 .. MaxFaults
  BY BrokerConstants DEF Init
<1> QED
  BY <1>1, <1>2, <1>3, <1>4, <1>5, <1>6 DEF Init, TypeInv, TypeOK, CallInv, Plans

LEMMA TypeStep ==
  TypeInv /\ [Next]_vars => TypeInv'
<1> SUFFICES ASSUME TypeInv, [Next]_vars
             PROVE  TypeInv'
  OBVIOUS
<1> USE DEF measured, frozen
<1>1. TypeOK /\ gateCharged \in {0, AGateBudget}
  BY DEF TypeInv, TypeOK
<1>2. CASE RejectBatchSchema
  <2>1. "schema_failure" \in Outcomes
    BY DEF Outcomes
  <2> QED
    BY <1>2, <2>1, ClosingKeepsTypes DEF RejectBatchSchema
<1>3. CASE RejectBatchBudget
  <2>1. "schedule_failure" \in Outcomes
    BY DEF Outcomes
  <2> QED
    BY <1>3, <2>1, ClosingKeepsTypes DEF RejectBatchBudget
<1>4. CASE SubmitMalformed
  <2>1. "invalid_commit" \in Outcomes
    BY DEF Outcomes
  <2> QED
    BY <1>4, <2>1, ClosingKeepsTypes DEF SubmitMalformed
<1>5. CASE SubmitAbstain
  <2>1. "abstain" \in Outcomes
    BY DEF Outcomes
  <2> QED
    BY <1>5, <2>1, ClosingKeepsTypes DEF SubmitAbstain
<1>6. CASE CloseExternalFailure
  <2>1. "semantic_output_failure" \in Outcomes
    BY DEF Outcomes
  <2> QED
    BY <1>6, <2>1, ClosingKeepsTypes DEF CloseExternalFailure
<1>7. CASE ABatchReusedId
  <2>1. "schedule_failure" \in Outcomes
    BY DEF Outcomes
  <2> QED
    BY <1>7, <2>1, ClosingKeepsTypes DEF ABatchReusedId
<1>8. CASE FailGate
  <2>1. "a_gate_failure" \in Outcomes
    BY DEF Outcomes
  <2> QED
    BY <1>8, <2>1, ClosingKeepsTypes DEF FailGate
<1>9. CASE ExecuteABatch
  <2>1. PICK batch \in Batches : Start("a_discovery", batch)
    BY <1>9 DEF ExecuteABatch
  <2>2. batch \in Seq(Interventions)
    BY BrokerConstants
  <2>3. batch \in Plans("a_discovery") /\ "a_discovery" \in Stages
    BY <2>2 DEF Plans, Stages
  <2>4. CallTypeOK'
    BY <2>1, <2>3, StartType
  <2> QED
    BY <1>9, <1>1, <2>4 DEF ExecuteABatch, TypeInv, TypeOK, CallTypeOK
<1>10. CASE SubmitIllegalCommit
  <2>1. result' \in Results /\ phase' = "CLOSED" /\ CallTypeOK'
    BY <1>10, <1>1, CloseUnscoredType DEF SubmitIllegalCommit, Outcomes
  <2> QED
    BY <1>10, <1>1, <2>1 DEF SubmitIllegalCommit, TypeInv, TypeOK, CallTypeOK
<1>11. CASE SubmitUncovered
  <2>1. result' \in Results /\ phase' = "CLOSED" /\ CallTypeOK'
    BY <1>11, <1>1, CloseUnscoredType DEF SubmitUncovered, Outcomes
  <2>2. partition' \in Partitions
    BY <1>11, BrokerConstants, CanonicalIsPartition DEF SubmitUncovered
  <2> QED
    BY <1>11, <1>1, <2>1, <2>2 DEF SubmitUncovered, TypeInv, TypeOK, CallTypeOK
<1>12. CASE SubmitCommit
  <2>1. partition' \in Partitions /\ challenges' = GateChallenges(partition', obs["a_discovery"])
    BY <1>12, BrokerConstants, CanonicalIsPartition DEF SubmitCommit
  <2>2. challenges' \in Seq(Challenges)
    BY <2>1, GateChallengesAreHeldOut
  <2>3. challenges' \in Plans("a_gate") /\ "a_gate" \in Stages
    BY <2>2 DEF Plans, Stages
  <2>4. Start("a_gate", challenges')
    BY <1>12 DEF SubmitCommit
  <2>5. CallTypeOK'
    BY <2>1, <2>3, <2>4, StartType
  <2> QED
    BY <1>12, <1>1, <2>1, <2>2, <2>5 DEF SubmitCommit, TypeInv, TypeOK, CallTypeOK
<1>13. CASE RunB
  <2>1. partition' \in Partitions /\ calibration' \in Seq(Slots)
    BY <1>13, <1>1 DEF RunB, TypeOK
  <2>2. calibration \in Plans("b_calibration") /\ "b_calibration" \in Stages
    BY <1>1 DEF TypeOK, Plans, Stages
  <2>3. Start("b_calibration", calibration) /\ calibration' = calibration
    BY <1>13 DEF RunB
  <2>4. CallTypeOK'
    BY <2>1, <2>2, <2>3, StartType
  <2> QED
    BY <1>13, <1>1, <2>1, <2>4 DEF RunB, TypeInv, TypeOK, CallTypeOK
<1>14. CASE ABatchObserve
  <2>1. /\ reps' \in [{"A", "B"} \X Entities \X Actions -> Nat]
        /\ obs' \in [Stages -> Seq(Observations)] /\ CallTypeOK'
    BY <1>14, ObserveType DEF ABatchObserve, Stages
  <2>2. seenIds' \subseteq ExperimentIds
    <3>1. Running("a_discovery") /\ seenIds' = seenIds \cup {Current.id}
      BY <1>14 DEF ABatchObserve
    <3> QED
      BY <1>1, <3>1, RunningBatchId DEF TypeOK
  <2> QED
    BY <1>14, <1>1, <2>1, <2>2 DEF ABatchObserve, Observe, TypeInv, TypeOK, CallTypeOK
<1>15. CASE GateObserve
  <2>1. /\ reps' \in [{"A", "B"} \X Entities \X Actions -> Nat]
        /\ obs' \in [Stages -> Seq(Observations)] /\ CallTypeOK'
    BY <1>15, ObserveType DEF GateObserve, Stages
  <2> QED
    BY <1>15, <1>1, <2>1 DEF GateObserve, Observe, TypeInv, TypeOK, CallTypeOK
<1>16. CASE CalibrationObserve
  <2>1. /\ reps' \in [{"A", "B"} \X Entities \X Actions -> Nat]
        /\ obs' \in [Stages -> Seq(Observations)] /\ CallTypeOK'
    BY <1>16, ObserveType DEF CalibrationObserve, Stages
  <2> QED
    BY <1>16, <1>1, <2>1 DEF CalibrationObserve, Observe, TypeInv, TypeOK, CallTypeOK
<1>17. CASE TransferObserve
  <2>1. /\ reps' \in [{"A", "B"} \X Entities \X Actions -> Nat]
        /\ obs' \in [Stages -> Seq(Observations)] /\ CallTypeOK'
    BY <1>17, ObserveType DEF TransferObserve, Stages
  <2> QED
    BY <1>17, <1>1, <2>1 DEF TransferObserve, Observe, TypeInv, TypeOK, CallTypeOK
<1>18. CASE ABatchReturn
  <2>1. CallTypeOK'
    BY <1>18, IdleType DEF ABatchReturn
  <2> QED
    BY <1>18, <1>1, <2>1 DEF ABatchReturn, TypeInv, TypeOK, CallTypeOK
<1>19. CASE PassGate
  <2>1. CallTypeOK'
    BY <1>19, IdleType DEF PassGate
  <2>2. partition \in Partitions
    BY <1>19 DEF PassGate, Finished, TypeInv, CallInv
  <2>3. calibration' \in Seq(Slots)
    BY <1>19, <2>2, CalibrationScheduleType DEF PassGate
  <2> QED
    BY <1>19, <1>1, <2>1, <2>3 DEF PassGate, TypeInv, TypeOK, CallTypeOK
<1>20. CASE FreezeTransfer
  <2>1. /\ partition \in Partitions /\ call.plan = calibration /\ calibration \in Seq(Slots)
        /\ call.ys \in Seq(Actions) /\ Len(call.ys) = Len(calibration)
    BY <1>20, <1>1 DEF FreezeTransfer, Finished, TypeInv, TypeOK, CallInv
  <2>2. lookup' = BLookup(calibration, call.ys, partition)
    BY <1>20 DEF FreezeTransfer
  <2>3. DOMAIN lookup' = CellsOf(partition) /\ \A c \in CellsOf(partition) : lookup'[c] \in LookupCells
    BY <2>1, <2>2, BLookupType
  <2>4. PICK transfer \in {TransferSchedule(partition, calibration)} :
          /\ ValidSchedule(transfer, partition, BTransferBudget)
          /\ predictions' = TransferPredictions(transfer, lookup')
    BY <1>20 DEF FreezeTransfer
  <2>5. /\ transfer \in Seq(Slots)
        /\ \A i \in 1 .. Len(transfer) :
             CellOf(transfer[i].group, transfer[i].action) \in CellsOf(partition)
    BY <2>1, <2>4, TransferScheduleType
  <2>6. predictions' \in Seq(Predictions)
    BY <2>3, <2>4, <2>5, TransferPredictionsType
  <2>7. predictions' \in Plans("b_transfer") /\ "b_transfer" \in Stages
    BY <2>6 DEF Plans, Stages
  <2>8. Start("b_transfer", predictions') /\ partition' = partition
    BY <1>20 DEF FreezeTransfer
  <2>9. CallTypeOK'
    BY <2>1, <2>7, <2>8, StartType
  <2>10. DOMAIN lookup' \subseteq 0 .. MaxGroups * NumActions - 1
    BY <2>1, <2>3, CellBounds
  <2> QED
    BY <1>20, <1>1, <2>3, <2>6, <2>9, <2>10 DEF FreezeTransfer, TypeInv, TypeOK, CallTypeOK
<1>21. CASE ScoreTransfer
  <2>1. /\ Score(predictions, call.ys) \in Nat
        /\ Len(predictions) \in Nat
        /\ Cardinality(InconsistentCells(lookup)) \in Nat
    BY <1>1, ScoreType, InconsistentCellsType DEF TypeOK
  <2>2. "completed" \in Outcomes
    BY DEF Outcomes
  <2>3. result' \in Results /\ phase' = "CLOSED" /\ CallTypeOK'
    BY <1>21, <1>1, <2>1, <2>2, CloseType DEF ScoreTransfer
  <2> QED
    BY <1>21, <1>1, <2>3 DEF ScoreTransfer, TypeInv, TypeOK, CallTypeOK
<1>22. CASE ObserveRaises
  <2>1. PICK stage \in Stages :
          /\ Running(stage)
          /\ reps' = NextRepetition(stage)
          /\ IF stage = "a_discovery"
             THEN /\ Current.id \notin seenIds
                  /\ seenIds' = seenIds \cup {Current.id}
             ELSE UNCHANGED seenIds
    BY <1>22 DEF ObserveRaises
  <2>2. reps' \in [{"A", "B"} \X Entities \X Actions -> Nat]
    BY <1>1, <2>1, RunningTypes
  <2>3. seenIds' \subseteq ExperimentIds
    <3>1. CASE stage # "a_discovery"
      BY <1>1, <2>1, <3>1 DEF TypeOK
    <3>2. CASE stage = "a_discovery"
      <4>1. Current.id \in ExperimentIds
        BY <1>1, <2>1, <3>2, RunningBatchId
      <4> QED
        BY <1>1, <2>1, <3>2, <4>1 DEF TypeOK
    <3> QED
      BY <3>1, <3>2
  <2>4. CallTypeOK'
    BY <1>22, IdleType DEF ObserveRaises
  <2>5. faults' \in 0 .. MaxFaults
    BY <1>22, <1>1, BrokerConstants DEF ObserveRaises, TypeOK
  <2> QED
    BY <1>22, <1>1, <2>2, <2>3, <2>4, <2>5 DEF ObserveRaises, TypeInv, TypeOK, CallTypeOK
<1>23. CASE UNCHANGED vars
  BY <1>23, <1>1 DEF vars, TypeInv, TypeOK, CallInv
<1> QED
  BY <1>2, <1>3, <1>4, <1>5, <1>6, <1>7, <1>8, <1>9, <1>10, <1>11, <1>12, <1>13, <1>14, <1>15, <1>16, <1>17, <1>18, <1>19, <1>20, <1>21, <1>22, <1>23
     DEF Next, Operation, Progress, CallClosed

\* Every variable of a run keeps its type, whatever the caller submits and in
\* whatever order, whatever the runtime answers and whenever it raises.
THEOREM TypeCorrect == Spec => []TypeOK
<1>1. TypeInv => TypeOK
  BY DEF TypeInv
<1> QED
  BY <1>1, TypeInit, TypeStep, PTL DEF Spec

-------------------------------------------------------------------------------
(* Every measurement is made once.  The counters are kept apart from the   *)
(* observations they number, so the invariant ties them together: a        *)
(* counter is above every number it has handed out.                        *)

KeyOf(stage, o) == <<Paradigm(stage), o.entity, o.action>>

CountersAhead ==
  \A stage \in Stages : \A i \in DOMAIN obs[stage] :
    obs[stage][i].rep < reps[KeyOf(stage, obs[stage][i])]

\* Only a loop iteration, or observe raising inside one, touches a counter.
LEMMA CounterSteps ==
  ASSUME [Next]_vars
  PROVE  \/ \E stage \in Stages : \E event : Observe(stage, event)
         \/ ObserveRaises
         \/ UNCHANGED <<reps, obs>>
<1> USE DEF measured
<1>1. CASE ABatchObserve \/ GateObserve \/ CalibrationObserve \/ TransferObserve
  <2>1. \/ Observe("a_discovery", "a_observation")
        \/ Observe("a_gate", "a_gate_outcome")
        \/ Observe("b_calibration", "b_calibration_outcome")
        \/ Observe("b_transfer", "b_transfer_outcome")
    BY <1>1 DEF ABatchObserve, GateObserve, CalibrationObserve, TransferObserve
  <2>2. {"a_discovery", "a_gate", "b_calibration", "b_transfer"} \subseteq Stages
    BY DEF Stages
  <2> QED
    BY <2>1, <2>2, Zenon
<1>2. CASE Operation
  BY <1>2 DEF Operation, RejectBatchSchema, RejectBatchBudget, ExecuteABatch,
       SubmitMalformed, SubmitAbstain, SubmitIllegalCommit, SubmitUncovered,
       SubmitCommit, RunB, CloseExternalFailure
<1>3. CASE ABatchReusedId \/ ABatchReturn \/ PassGate \/ FailGate \/ FreezeTransfer \/ ScoreTransfer
  BY <1>3 DEF ABatchReusedId, ABatchReturn, PassGate, FailGate, FreezeTransfer, ScoreTransfer
<1>4. CASE UNCHANGED vars
  BY <1>4 DEF vars
<1> QED
  BY <1>1, <1>2, <1>3, <1>4 DEF Next, Progress, CallClosed

LEMMA MeasuredStep ==
  TypeInv /\ MeasuredOnce /\ CountersAhead /\ [Next]_vars => (MeasuredOnce /\ CountersAhead)'
<1> SUFFICES ASSUME TypeInv, MeasuredOnce, CountersAhead, [Next]_vars
             PROVE  (MeasuredOnce /\ CountersAhead)'
  OBVIOUS
<1> DEFINE Keys == {"A", "B"} \X Entities \X Actions
<1>1. /\ TypeOK /\ obs \in [Stages -> Seq(Observations)]
      /\ reps \in [Keys -> Nat]
  BY DEF TypeInv, TypeOK
<1>2. ASSUME NEW stage \in Stages, NEW i \in DOMAIN obs[stage]
      PROVE  /\ KeyOf(stage, obs[stage][i]) \in Keys
             /\ obs[stage][i].rep \in Nat
  <2>1. obs[stage] \in Seq(Observations) /\ i \in 1 .. Len(obs[stage])
    BY <1>1
  <2>2. obs[stage][i] \in Observations
    BY <2>1, ElementOfSeq
  <2> QED
    BY <2>2 DEF Observations, KeyOf, Paradigm
<1>3. CASE UNCHANGED <<reps, obs>>
  BY <1>3 DEF MeasuredOnce, CountersAhead
<1>4. CASE ObserveRaises
  <2>1. PICK stage \in Stages : Running(stage) /\ reps' = NextRepetition(stage)
    BY <1>4 DEF ObserveRaises
  <2>2. obs' = obs
    BY <1>4 DEF ObserveRaises
  <2>3. RepKey(stage) \in Keys /\ \A key \in Keys : reps[key] <= reps'[key]
    BY <1>1, <2>1, RunningTypes DEF NextRepetition
  <2>4. ASSUME NEW s \in Stages, NEW i \in DOMAIN obs[s]
        PROVE  obs[s][i].rep < reps'[KeyOf(s, obs[s][i])]
    <3>1. obs[s][i].rep < reps[KeyOf(s, obs[s][i])]
      BY DEF CountersAhead
    <3>2. reps' \in [Keys -> Nat]
      BY <1>1, <2>1, RunningTypes
    <3> QED
      BY <1>1, <1>2, <2>3, <3>1, <3>2
  <2> QED
    BY <2>2, <2>4 DEF MeasuredOnce, CountersAhead
<1>5. ASSUME NEW stage \in Stages, NEW event, Observe(stage, event)
      PROVE  (MeasuredOnce /\ CountersAhead)'
  <2> DEFINE new(y) == [entity |-> Current.entity, action |-> Current.action,
                        rep |-> reps[RepKey(stage)], y |-> y]
             n == Len(obs[stage])
  <2>1. PICK y \in Actions : obs' = [obs EXCEPT ![stage] = Append(@, new(y))]
    BY <1>5 DEF Observe
  <2> DEFINE o == new(y)
  <2>2. Running(stage) /\ reps' = NextRepetition(stage)
    BY <1>5 DEF Observe
  <2>3. RepKey(stage) \in Keys /\ reps[RepKey(stage)] \in Nat /\ reps' \in [Keys -> Nat]
    BY <1>1, <2>2, RunningTypes
  <2>4. KeyOf(stage, o) = RepKey(stage) /\ o.rep = reps[RepKey(stage)]
    BY DEF KeyOf, RepKey
  <2>5. reps' = [reps EXCEPT ![RepKey(stage)] = @ + 1]
    BY <2>2 DEF NextRepetition
  <2>6. \A key \in Keys : reps[key] <= reps'[key]
    BY <1>1, <2>3, <2>5
  <2>7. reps'[RepKey(stage)] = reps[RepKey(stage)] + 1
    BY <1>1, <2>3, <2>5
  <2>8. /\ n \in Nat /\ obs[stage] \in Seq(Observations)
        /\ DOMAIN obs[stage] = 1 .. n
        /\ DOMAIN obs'[stage] = 1 .. n + 1
        /\ obs'[stage][n + 1] = o
        /\ \A i \in 1 .. n : obs'[stage][i] = obs[stage][i]
        /\ \A s \in Stages \ {stage} : obs'[s] = obs[s]
    <3>1. obs[stage] \in Seq(Observations) /\ n \in Nat /\ obs'[stage] = Append(obs[stage], o)
      BY <1>1, <2>1
    <3> HIDE DEF o, new
    <3> QED
      BY <1>1, <2>1, <3>1
  <2> HIDE DEF o, new, n
  <2>9. ASSUME NEW s \in Stages, NEW i \in DOMAIN obs'[s]
        PROVE  \/ s = stage /\ i = n + 1 /\ obs'[s][i] = o
               \/ i \in DOMAIN obs[s] /\ obs'[s][i] = obs[s][i] /\ ~(s = stage /\ i = n + 1)
    BY <2>8
  <2>10. ASSUME NEW s \in Stages, NEW i \in DOMAIN obs[s]
         PROVE  /\ obs[s][i].rep < reps'[KeyOf(s, obs[s][i])]
                /\ KeyOf(s, obs[s][i]) = RepKey(stage) => obs[s][i].rep < reps[RepKey(stage)]
    <3>1. obs[s][i].rep < reps[KeyOf(s, obs[s][i])]
      BY DEF CountersAhead
    <3> QED
      BY <1>1, <1>2, <2>3, <2>6, <3>1
  <2>11. CountersAhead'
    <3> SUFFICES ASSUME NEW s \in Stages, NEW i \in DOMAIN obs'[s]
                 PROVE  obs'[s][i].rep < reps'[KeyOf(s, obs'[s][i])]
      BY DEF CountersAhead
    <3>1. CASE s = stage /\ i = n + 1 /\ obs'[s][i] = o
      BY <2>3, <2>4, <2>7, <3>1
    <3>2. CASE i \in DOMAIN obs[s] /\ obs'[s][i] = obs[s][i]
      BY <2>10, <3>2
    <3> QED
      BY <2>9, <3>1, <3>2
  <2>12. ASSUME NEW s \in Stages, NEW i \in DOMAIN obs[s],
                Paradigm(s) = Paradigm(stage),
                obs[s][i].entity = o.entity, obs[s][i].action = o.action,
                obs[s][i].rep = o.rep
         PROVE  FALSE
    <3>1. KeyOf(s, obs[s][i]) = RepKey(stage)
      BY <2>4, <2>12 DEF KeyOf
    <3>2. obs[s][i].rep < reps[RepKey(stage)]
      BY <2>10, <3>1
    <3> QED
      BY <2>3, <2>4, <2>12, <3>2
  <2>13. MeasuredOnce'
    <3> SUFFICES ASSUME NEW s \in Stages, NEW t \in Stages,
                        NEW i \in DOMAIN obs'[s], NEW j \in DOMAIN obs'[t],
                        ~(s = t /\ i = j), Paradigm(s) = Paradigm(t),
                        obs'[s][i].entity = obs'[t][j].entity,
                        obs'[s][i].action = obs'[t][j].action,
                        obs'[s][i].rep = obs'[t][j].rep
                 PROVE  FALSE
      BY DEF MeasuredOnce
    <3>1. CASE /\ i \in DOMAIN obs[s] /\ obs'[s][i] = obs[s][i]
               /\ j \in DOMAIN obs[t] /\ obs'[t][j] = obs[t][j]
      BY <3>1 DEF MeasuredOnce
    <3>2. CASE /\ s = stage /\ i = n + 1 /\ obs'[s][i] = o
               /\ j \in DOMAIN obs[t] /\ obs'[t][j] = obs[t][j]
      BY <2>12, <3>2
    <3>3. CASE /\ t = stage /\ j = n + 1 /\ obs'[t][j] = o
               /\ i \in DOMAIN obs[s] /\ obs'[s][i] = obs[s][i]
      BY <2>12, <3>3
    <3> QED
      BY <2>9, <3>1, <3>2, <3>3
  <2> QED
    BY <2>11, <2>13
<1> QED
  BY <1>3, <1>4, <1>5, CounterSteps

\* No two observations of a run are the same measurement, for every budget and
\* any number of raised observe calls: the noise the runtime derives from
\* paradigm, entity, action and repetition is never drawn twice.
THEOREM EveryMeasurementOnce == Spec => []MeasuredOnce
<1>1. Init => MeasuredOnce /\ CountersAhead
  BY DEF Init, MeasuredOnce, CountersAhead
<1> QED
  BY <1>1, TypeInit, TypeStep, MeasuredStep, PTL DEF Spec

-------------------------------------------------------------------------------
(* The gate is held out.  That the challenges avoid what discovery measured*)
(* is a fact about the moment they are built; it survives because discovery*)
(* is full by then, and a batch that was let in always fits.               *)

Discovered == obs["a_discovery"]

GateInv ==
  /\ call.stage = "a_gate" => PairsOf(call.plan) \cap PairsOf(Discovered) = {}
  /\ call.stage = "a_gate" \/ obs["a_gate"] # <<>> => Len(Discovered) = ADiscoveryBudget
  /\ call.stage = "a_discovery" =>
       Len(Discovered) + (Len(call.plan) - Len(call.ys)) <= ADiscoveryBudget

\* A step that leaves the two A lists alone, and the call too or ends it.
LEMMA GateQuiet ==
  ASSUME GateIsHeldOut, GateInv,
         UNCHANGED <<obs["a_discovery"], obs["a_gate"]>>,
         \/ UNCHANGED call
         \/ call'.stage \in {"none", "b_calibration", "b_transfer"}
  PROVE  (GateIsHeldOut /\ GateInv)'
BY DEF GateIsHeldOut, GateInv, Discovered

\* Appending an observation adds its pair and no other.
LEMMA PairsOfAppend ==
  ASSUME NEW slots \in Seq(Observations), NEW o \in Observations
  PROVE  PairsOf(Append(slots, o)) = PairsOf(slots) \cup {<<o.entity, o.action>>}
<1> DEFINE longer == Append(slots, o)
<1>1. /\ Len(slots) \in Nat /\ DOMAIN slots = 1 .. Len(slots)
      /\ DOMAIN longer = 1 .. Len(slots) + 1 /\ longer[Len(slots) + 1] = o
      /\ \A i \in 1 .. Len(slots) : longer[i] = slots[i]
  OBVIOUS
<1> HIDE DEF longer
<1>2. \A i \in DOMAIN longer : i \in DOMAIN slots \/ i = Len(slots) + 1
  BY <1>1
<1>3. DOMAIN slots \subseteq DOMAIN longer /\ Len(slots) + 1 \in DOMAIN longer
  BY <1>1
<1> QED
  BY <1>1, <1>2, <1>3 DEF PairsOf, longer

\* An iteration of a running call observes the pair its plan prescribes.
LEMMA ObservedPair ==
  ASSUME TypeInv, NEW stage \in Stages, NEW event, Observe(stage, event)
  PROVE  /\ PairsOf(obs'[stage]) = PairsOf(obs[stage]) \cup {<<Current.entity, Current.action>>}
         /\ <<Current.entity, Current.action>> \in PairsOf(call.plan)
         /\ Len(obs'[stage]) = Len(obs[stage]) + 1
         /\ \A s \in Stages \ {stage} : obs'[s] = obs[s]
         /\ call'.stage = stage /\ call.stage = stage /\ call'.plan = call.plan
         /\ Len(call'.ys) = Len(call.ys) + 1
         /\ Len(call.ys) < Len(call.plan) /\ Len(call.ys) \in Nat /\ Len(call.plan) \in Nat
<1>1. PICK y \in Actions :
        /\ obs' = [obs EXCEPT ![stage] =
                     Append(@, [entity |-> Current.entity, action |-> Current.action,
                                rep |-> reps[RepKey(stage)], y |-> y])]
        /\ call' = [call EXCEPT !.ys = Append(@, y)]
  BY DEF Observe
<1> DEFINE o == [entity |-> Current.entity, action |-> Current.action,
                 rep |-> reps[RepKey(stage)], y |-> y]
<1>2. TypeOK /\ Running(stage)
  BY DEF TypeInv, Observe
<1>3. o \in Observations /\ o.entity = Current.entity /\ o.action = Current.action
  BY <1>2, RunningTypes DEF Observations
<1>4. obs \in [Stages -> Seq(Observations)] /\ obs[stage] \in Seq(Observations)
  BY <1>2 DEF TypeOK
<1> HIDE DEF o
<1>5. obs' = [obs EXCEPT ![stage] = Append(@, o)]
  BY <1>1 DEF o
<1>6. obs'[stage] = Append(obs[stage], o) /\ \A s \in Stages \ {stage} : obs'[s] = obs[s]
  BY <1>4, <1>5
<1>7. /\ PairsOf(obs'[stage]) = PairsOf(obs[stage]) \cup {<<Current.entity, Current.action>>}
      /\ Len(obs'[stage]) = Len(obs[stage]) + 1
  BY <1>3, <1>4, <1>6, PairsOfAppend
<1>8. /\ call'.stage = call.stage /\ call'.plan = call.plan /\ call'.ys = Append(call.ys, y)
  BY <1>1 DEF TypeInv, CallInv
<1>9. call.ys \in Seq(Actions) /\ Len(call.ys) \in Nat /\ Len(call.plan) \in Nat
      /\ DOMAIN call.plan = 1 .. Len(call.plan)
  BY <1>2 DEF TypeOK, Plans, Stages, Running
<1>10. call.stage = stage /\ Len(call.ys) < Len(call.plan)
  BY <1>2 DEF Running
<1>11. Len(call.ys) + 1 \in DOMAIN call.plan
  BY <1>9, <1>10
<1>12. <<Current.entity, Current.action>> \in PairsOf(call.plan)
  BY <1>11 DEF PairsOf, Current
<1>13. Len(call'.ys) = Len(call.ys) + 1
  BY <1>8, <1>9
<1> QED
  BY <1>6, <1>7, <1>8, <1>9, <1>10, <1>12, <1>13

LEMMA HeldOutStep ==
  TypeInv /\ GateIsHeldOut /\ GateInv /\ [Next]_vars => (GateIsHeldOut /\ GateInv)'
<1> SUFFICES ASSUME TypeInv, GateIsHeldOut, GateInv, [Next]_vars
             PROVE  (GateIsHeldOut /\ GateInv)'
  OBVIOUS
<1> USE DEF measured
<1>1. /\ TypeOK /\ obs \in [Stages -> Seq(Observations)]
      /\ obs["a_discovery"] \in Seq(Observations) /\ obs["a_gate"] \in Seq(Observations)
  BY DEF TypeInv, TypeOK, Stages
<1>2. CASE \/ RejectBatchSchema \/ RejectBatchBudget \/ SubmitMalformed \/ SubmitAbstain
           \/ SubmitIllegalCommit \/ SubmitUncovered \/ CloseExternalFailure
           \/ ABatchReusedId \/ FailGate \/ ScoreTransfer
  <2>1. UNCHANGED obs /\ call' = Idle
    BY <1>2 DEF RejectBatchSchema, RejectBatchBudget, SubmitMalformed, SubmitAbstain,
         SubmitIllegalCommit, SubmitUncovered, CloseExternalFailure, ABatchReusedId,
         FailGate, ScoreTransfer, CloseUnscored, Close
  <2> QED
    BY <2>1, GateQuiet DEF Idle
<1>3. CASE ABatchReturn \/ PassGate \/ ObserveRaises
  <2>1. UNCHANGED obs /\ call' = Idle
    BY <1>3 DEF ABatchReturn, PassGate, ObserveRaises
  <2> QED
    BY <2>1, GateQuiet DEF Idle
<1>4. CASE RunB \/ FreezeTransfer
  <2>1. UNCHANGED obs /\ call'.stage \in {"b_calibration", "b_transfer"}
    BY <1>4 DEF RunB, FreezeTransfer, Start
  <2> QED
    BY <2>1, GateQuiet
<1>5. CASE CalibrationObserve \/ TransferObserve
  <2>1. PICK stage \in {"b_calibration", "b_transfer"} : \E event : Observe(stage, event)
    BY <1>5 DEF CalibrationObserve, TransferObserve
  <2>2. PICK event : Observe(stage, event)
    BY <2>1
  <2>3. stage \in Stages /\ "a_discovery" \in Stages \ {stage} /\ "a_gate" \in Stages \ {stage}
    BY DEF Stages
  <2>4. obs'["a_discovery"] = obs["a_discovery"] /\ obs'["a_gate"] = obs["a_gate"]
        /\ call'.stage = stage
    BY <2>2, <2>3, ObservedPair
  <2> QED
    BY <2>4, GateQuiet
<1>6. CASE ExecuteABatch
  <2>1. PICK batch \in Batches : call' = [stage |-> "a_discovery", plan |-> batch, ys |-> <<>>]
    BY <1>6 DEF ExecuteABatch, Start
  <2>2. batch \in [1 .. ABatchSize -> Interventions] /\ ABatchSize \in Nat
    BY BrokerConstants
  <2>3. Len(batch) = ABatchSize
    BY <2>2
  <2>4. UNCHANGED obs /\ Len(Discovered) < ADiscoveryBudget
        /\ Len(Discovered) + ABatchSize <= ADiscoveryBudget
    BY <1>6 DEF ExecuteABatch, DiscoveryOpen, BatchFits, Discovered
  <2>5. Len(Discovered) \in Nat /\ ADiscoveryBudget \in Nat
    BY <1>1, ConstantTypes DEF Discovered
  <2>6. obs["a_gate"] = <<>>
    BY <2>4, <2>5 DEF GateInv
  <2>7. call'.stage = "a_discovery" /\ Len(call'.plan) = ABatchSize /\ Len(call'.ys) = 0
    BY <2>1, <2>3
  <2> QED
    BY <2>2, <2>4, <2>5, <2>6, <2>7 DEF GateInv, GateIsHeldOut, Discovered
<1>7. CASE ABatchObserve
  <2>1. "a_discovery" \in Stages /\ "a_gate" \in Stages \ {"a_discovery"}
    BY DEF Stages
  <2>2. Observe("a_discovery", "a_observation")
    BY <1>7 DEF ABatchObserve
  <2>3. /\ obs'["a_gate"] = obs["a_gate"] /\ call'.stage = "a_discovery"
        /\ call.stage = "a_discovery" /\ call'.plan = call.plan
        /\ Len(call'.ys) = Len(call.ys) + 1
        /\ Len(Discovered') = Len(Discovered) + 1
        /\ Len(call.ys) < Len(call.plan) /\ Len(call.ys) \in Nat /\ Len(call.plan) \in Nat
    BY <2>1, <2>2, ObservedPair DEF Discovered
  <2>4. Len(Discovered) \in Nat /\ ADiscoveryBudget \in Nat
    BY <1>1, ConstantTypes DEF Discovered
  <2>5. Len(Discovered) + (Len(call.plan) - Len(call.ys)) <= ADiscoveryBudget
    BY <2>3 DEF GateInv
  <2>6. Len(Discovered) # ADiscoveryBudget
    BY <2>3, <2>4, <2>5
  <2>7. obs'["a_gate"] = <<>>
    BY <2>3, <2>6 DEF GateInv
  <2>8. PairsOf(obs'["a_gate"]) = {}
    BY <2>7 DEF PairsOf
  <2>9. Len(Discovered') + (Len(call'.plan) - Len(call'.ys)) <= ADiscoveryBudget
    <3>1. \A d, l, y \in Nat : (d + 1) + (l - (y + 1)) = d + (l - y)
      OBVIOUS
    <3>2. (Len(Discovered) + 1) + (Len(call.plan) - (Len(call.ys) + 1)) <= ADiscoveryBudget
      BY <2>3, <2>4, <2>5, <3>1, Zenon
    <3> QED
      BY <2>3, <3>2, Zenon
  <2> QED
    BY <2>3, <2>7, <2>8, <2>9 DEF GateInv, GateIsHeldOut
<1>8. CASE SubmitCommit
  <2>1. /\ Len(Discovered) = ADiscoveryBudget /\ UNCHANGED obs
        /\ challenges' = GateChallenges(partition', Discovered)
        /\ call'.stage = "a_gate" /\ call'.plan = challenges'
    BY <1>8 DEF SubmitCommit, CommitOpen, Start, Discovered
  <2>2. partition' \in Partitions
    BY <1>8, BrokerConstants, CanonicalIsPartition DEF SubmitCommit
  <2>3. PairsOf(challenges') \cap PairsOf(Discovered) = {}
    BY <2>1, <2>2, GateChallengesAreHeldOut
  <2> QED
    BY <2>1, <2>3 DEF GateInv, GateIsHeldOut, Discovered
<1>9. CASE GateObserve
  <2>1. "a_gate" \in Stages /\ "a_discovery" \in Stages \ {"a_gate"}
    BY DEF Stages
  <2>2. Observe("a_gate", "a_gate_outcome")
    BY <1>9 DEF GateObserve
  <2>3. /\ obs'["a_discovery"] = obs["a_discovery"]
        /\ call.stage = "a_gate" /\ call'.stage = "a_gate" /\ call'.plan = call.plan
        /\ PairsOf(obs'["a_gate"])
             = PairsOf(obs["a_gate"]) \cup {<<Current.entity, Current.action>>}
        /\ <<Current.entity, Current.action>> \in PairsOf(call.plan)
    BY <2>1, <2>2, ObservedPair
  <2>4. PairsOf(call.plan) \cap PairsOf(obs["a_discovery"]) = {}
    BY <2>3 DEF GateInv, Discovered
  <2>5. GateIsHeldOut'
    BY <2>3, <2>4 DEF GateIsHeldOut
  <2> QED
    BY <2>3, <2>4, <2>5 DEF GateInv, Discovered
<1>10. CASE UNCHANGED vars
  BY <1>10, GateQuiet DEF vars
<1> QED
  BY <1>2, <1>3, <1>4, <1>5, <1>6, <1>7, <1>8, <1>9, <1>10
     DEF Next, Operation, Progress, CallClosed

\* The gate never measures a pair that discovery had measured, for every budget
\* and batch size and however often observe raises: a perfect gate is evidence
\* about pairs the A phase had not seen.
THEOREM GateStaysHeldOut == Spec => []GateIsHeldOut
<1>1. Init => GateIsHeldOut /\ GateInv
  BY DEF Init, Idle, GateIsHeldOut, GateInv, PairsOf, Stages
<1> QED
  BY <1>1, TypeInit, TypeStep, HeldOutStep, PTL DEF Spec

-------------------------------------------------------------------------------
(* The stages of a run.                                                    *)

PhaseOfCall ==
  /\ call.stage \in {"a_discovery", "a_gate"} => phase = "A_DISCOVERY"
  /\ call.stage = "b_calibration" => phase = "B_CALIBRATION"
  /\ call.stage = "b_transfer" => phase = "B_TRANSFER"

PlanOfCall ==
  /\ call.stage = "a_gate" =>
       /\ call.plan = challenges /\ Len(challenges) = AGateBudget
       /\ gateCharged = AGateBudget
  /\ call.stage = "b_transfer" => call.plan = predictions

\* Without a fault the commit, the gate and the opening of B are one call.
FrozenByPhase ==
  /\ phase = "A_DISCOVERY" => calibration = <<>>
  /\ phase \in {"A_DISCOVERY", "B_CALIBRATION"} => predictions = <<>>
  /\ phase \in {"B_CALIBRATION", "B_TRANSFER"} =>
       gateCharged = AGateBudget /\ calibration # <<>>
  /\ phase = "B_TRANSFER" => predictions # <<>>
  /\ calibration # <<>> => partition \in Partitions /\ Len(calibration) = BCalibrationBudget
  /\ predictions # <<>> => calibration # <<>> /\ Len(predictions) = BTransferBudget
  /\ faults = 0 /\ phase = "A_DISCOVERY" /\ call.stage # "a_gate" =>
       partition = None /\ gateCharged = 0

StageInv ==
  /\ result # None <=> phase = "CLOSED"
  /\ PhaseOfCall
  /\ PlanOfCall
  /\ FrozenByPhase

\* The operations that close a run without a score.
Closing ==
  \/ RejectBatchSchema \/ RejectBatchBudget \/ SubmitMalformed \/ SubmitAbstain
  \/ SubmitIllegalCommit \/ SubmitUncovered \/ CloseExternalFailure
  \/ ABatchReusedId \/ FailGate

\* The steps of the loops.
Observing ==
  \/ Observe("a_discovery", "a_observation")
  \/ Observe("a_gate", "a_gate_outcome")
  \/ Observe("b_calibration", "b_calibration_outcome")
  \/ Observe("b_transfer", "b_transfer_outcome")

LEMMA StepKinds ==
  ASSUME [Next]_vars
  PROVE  \/ Closing \/ Observing
         \/ ExecuteABatch \/ ABatchReturn \/ SubmitCommit \/ PassGate \/ RunB
         \/ FreezeTransfer \/ ScoreTransfer \/ ObserveRaises \/ UNCHANGED vars
BY DEF Next, Operation, Progress, CallClosed, Closing, Observing,
       ABatchObserve, GateObserve, CalibrationObserve, TransferObserve

\* What every unscored closing does.  Only an illegal or uncovered commit also
\* charges the gate, and only the uncovered one freezes its partition.
LEMMA ClosingFacts ==
  ASSUME TypeInv, Closing
  PROVE  /\ phase' = "CLOSED" /\ call' = Idle
         /\ result' \in Results /\ result' # None /\ result'.outcome # "completed"
         /\ result'.spent = Spent(obs, gateCharged')
         /\ UNCHANGED <<measured, challenges, calibration, predictions, lookup, faults>>
         /\ \/ UNCHANGED <<partition, gateCharged>>
            \/ /\ CommitOpen
               /\ gateCharged' = AGateBudget
<1>1. /\ \E outcome \in Outcomes \ {"completed"} : \E events :
           CloseUnscored(outcome, gateCharged', events)
      /\ UNCHANGED <<measured, challenges, calibration, predictions, lookup, faults>>
      /\ \/ UNCHANGED <<partition, gateCharged>>
         \/ CommitOpen /\ gateCharged' = AGateBudget
  <2>1. CASE \/ RejectBatchSchema \/ RejectBatchBudget \/ SubmitMalformed \/ SubmitAbstain
             \/ CloseExternalFailure \/ ABatchReusedId \/ FailGate
    <3>1. /\ UNCHANGED <<measured, gateCharged, frozen, lookup, faults>>
          /\ \E outcome \in Outcomes \ {"completed"} : \E events :
               CloseUnscored(outcome, gateCharged, events)
      BY <2>1 DEF Outcomes, RejectBatchSchema, RejectBatchBudget, SubmitMalformed,
         SubmitAbstain, CloseExternalFailure, ABatchReusedId, FailGate
    <3>2. gateCharged' = gateCharged
      BY <3>1
    <3> QED
      BY <3>1, <3>2 DEF frozen
  <2>2. CASE SubmitIllegalCommit \/ SubmitUncovered
    <3>1. /\ CommitOpen /\ gateCharged' = AGateBudget
          /\ UNCHANGED <<measured, challenges, calibration, predictions, lookup, faults>>
          /\ \E outcome \in Outcomes \ {"completed"} : \E events :
               CloseUnscored(outcome, AGateBudget, events)
      BY <2>2 DEF Outcomes, SubmitIllegalCommit, SubmitUncovered, frozen
    <3> QED
      BY <3>1
  <2> QED
    BY <2>1, <2>2 DEF Closing
<1>2. PICK outcome \in Outcomes \ {"completed"} : \E events :
        CloseUnscored(outcome, gateCharged', events)
  BY <1>1
<1>3. PICK events : CloseUnscored(outcome, gateCharged', events)
  BY <1>2
<1>4. TypeOK /\ gateCharged' \in {0, AGateBudget}
  BY <1>1 DEF TypeInv, TypeOK
<1>5. result' \in Results /\ phase' = "CLOSED"
  BY <1>3, <1>4, CloseUnscoredType
<1>6. /\ call' = Idle /\ result'.outcome = outcome
      /\ result'.spent = Spent(obs, gateCharged')
  BY <1>3 DEF CloseUnscored, Close
<1> QED
  BY <1>1, <1>5, <1>6, NoneIsNoResult

\* A loop step changes the counters, one observation list, the call and the ledger.
LEMMA ObservingFacts ==
  ASSUME Observing
  PROVE  /\ UNCHANGED <<phase, gateCharged, frozen, lookup, result, faults>>
         /\ \E stage \in Stages : \E event : Observe(stage, event)
<1>1. {"a_discovery", "a_gate", "b_calibration", "b_transfer"} \subseteq Stages
  BY DEF Stages
<1>2. \E stage \in Stages : \E event : Observe(stage, event)
  BY <1>1, Zenon DEF Observing
<1> QED
  BY <1>2 DEF Observe

LEMMA StageInit ==
  Init => StageInv
BY NoneIsNoResult DEF Init, Idle, StageInv, PhaseOfCall, PlanOfCall, FrozenByPhase

LEMMA StageStep ==
  TypeInv /\ StageInv /\ [Next]_vars => StageInv'
<1> SUFFICES ASSUME TypeInv, StageInv, [Next]_vars
             PROVE  StageInv'
  OBVIOUS
<1> USE DEF StageInv, PhaseOfCall, PlanOfCall, FrozenByPhase
<1>1. TypeOK /\ BCalibrationBudget \in Nat \ {0} /\ BTransferBudget \in Nat \ {0}
  BY ProtocolConstants DEF TypeInv
<1>2. CASE Closing
  <2>1. /\ phase' = "CLOSED" /\ call'.stage = "none" /\ result' # None
        /\ UNCHANGED <<challenges, calibration, predictions, faults>>
        /\ partition' = partition \/ CommitOpen
    BY <1>2, ClosingFacts DEF Idle
  <2>2. phase = "A_DISCOVERY" => calibration' = <<>> /\ predictions' = <<>>
    BY <2>1
  <2> QED
    BY <2>1, <2>2 DEF CommitOpen
<1>3. CASE Observing
  <2>1. UNCHANGED <<phase, gateCharged, frozen, lookup, result, faults>>
    BY <1>3, ObservingFacts
  <2>2. PICK stage \in Stages : \E event : Observe(stage, event)
    BY <1>3, ObservingFacts
  <2>3. call'.stage = call.stage /\ call'.plan = call.plan
    BY <2>2, ObservedPair
  <2> QED
    BY <2>1, <2>3 DEF frozen
<1>4. CASE ExecuteABatch
  <2>1. /\ UNCHANGED <<phase, gateCharged, frozen, result, faults>>
        /\ phase = "A_DISCOVERY" /\ call = Idle /\ call'.stage = "a_discovery"
    BY <1>4 DEF ExecuteABatch, DiscoveryOpen, Start
  <2> QED
    BY <2>1 DEF frozen, Idle
<1>5. CASE ABatchReturn
  <2>1. /\ UNCHANGED <<phase, gateCharged, frozen, result, faults>>
        /\ call.stage = "a_discovery" /\ call'.stage = "none"
    BY <1>5 DEF ABatchReturn, Finished, Idle
  <2> QED
    BY <2>1 DEF frozen
<1>6. CASE SubmitCommit
  <2>1. /\ UNCHANGED <<phase, calibration, predictions, result, faults>>
        /\ phase = "A_DISCOVERY" /\ gateCharged' = AGateBudget
        /\ call'.stage = "a_gate" /\ call'.plan = challenges' /\ Len(challenges') = AGateBudget
    BY <1>6 DEF SubmitCommit, CommitOpen, Start
  <2> QED
    BY <2>1
<1>7. CASE PassGate
  <2>1. /\ UNCHANGED <<gateCharged, partition, predictions, result, faults>>
        /\ phase' = "B_CALIBRATION" /\ call.stage = "a_gate" /\ call'.stage = "none"
        /\ Len(calibration') = BCalibrationBudget
    BY <1>7 DEF PassGate, Finished, Idle, ValidSchedule
  <2>2. partition \in Partitions /\ calibration' # <<>>
    BY <1>1, <2>1 DEF TypeInv, CallInv
  <2>3. phase = "A_DISCOVERY" /\ predictions' = <<>> /\ result' = None
    BY <2>1
  <2> QED
    BY <2>1, <2>2, <2>3
<1>8. CASE RunB
  <2>1. /\ UNCHANGED <<phase, gateCharged, frozen, result, faults>>
        /\ phase = "B_CALIBRATION" /\ call'.stage = "b_calibration"
    BY <1>8 DEF RunB, Start
  <2> QED
    BY <2>1 DEF frozen
<1>9. CASE FreezeTransfer
  <2>1. PICK transfer \in {TransferSchedule(partition, calibration)} :
          /\ ValidSchedule(transfer, partition, BTransferBudget)
          /\ predictions' = TransferPredictions(transfer, lookup')
    BY <1>9 DEF FreezeTransfer
  <2>2. /\ UNCHANGED <<gateCharged, partition, calibration, result, faults>>
        /\ phase' = "B_TRANSFER" /\ call.stage = "b_calibration"
        /\ call'.stage = "b_transfer" /\ call'.plan = predictions'
    BY <1>9 DEF FreezeTransfer, Finished, Start
  <2>3. Len(predictions') = BTransferBudget
    <3>1. partition \in Partitions
      BY <2>2 DEF TypeInv, CallInv
    <3>2. transfer \in Seq(Slots) /\ Len(transfer) = BTransferBudget
      BY <2>1, <3>1, TransferScheduleType DEF ValidSchedule
    <3>3. predictions' = [i \in 1 .. Len(transfer) |-> predictions'[i]]
      BY <2>1, <3>2 DEF TransferPredictions
    <3> QED
      BY <1>1, <3>2, <3>3
  <2>4. phase = "B_CALIBRATION" /\ Len(calibration) = BCalibrationBudget /\ calibration # <<>>
    BY <1>1, <2>2
  <2>5. predictions' # <<>>
    BY <1>1, <2>3, EmptySeq
  <2> QED
    BY <2>2, <2>3, <2>4, <2>5
<1>10. CASE ScoreTransfer
  <2>1. /\ phase' = "CLOSED" /\ call'.stage = "none" /\ result' \in Results
        /\ UNCHANGED <<gateCharged, frozen, faults>> /\ call.stage = "b_transfer"
    <3>1. /\ Score(predictions, call.ys) \in Nat /\ Len(predictions) \in Nat
          /\ Cardinality(InconsistentCells(lookup)) \in Nat
          /\ "completed" \in Outcomes /\ gateCharged \in {0, AGateBudget}
      BY <1>1, ScoreType, InconsistentCellsType DEF TypeOK, Outcomes
    <3>2. result' \in Results
      BY <1>1, <1>10, <3>1, CloseType DEF ScoreTransfer
    <3> QED
      BY <1>10, <3>2 DEF ScoreTransfer, Finished, Close, Idle
  <2> QED
    BY <2>1, NoneIsNoResult DEF frozen
<1>11. CASE ObserveRaises
  <2>1. /\ UNCHANGED <<phase, gateCharged, frozen, result>>
        /\ call'.stage = "none" /\ faults' = faults + 1 /\ faults \in Nat
    BY <1>1, <1>11, BrokerConstants DEF ObserveRaises, Idle, TypeOK
  <2> QED
    BY <2>1 DEF frozen
<1>12. CASE UNCHANGED vars
  BY <1>12 DEF vars, frozen
<1> QED
  BY <1>2, <1>3, <1>4, <1>5, <1>6, <1>7, <1>8, <1>9, <1>10, <1>11, <1>12, StepKinds

\* The two invariants everything below rests on.
LEMMA StagesHold ==
  Spec => [](TypeInv /\ StageInv)
BY StageInit, StageStep, TypeInit, TypeStep, PTL DEF Spec

-------------------------------------------------------------------------------
(* Freezes are final.                                                      *)

\* No step changes what was frozen before it.
LEMMA FreezeStep ==
  ASSUME TypeInv, StageInv, [Next]_vars
  PROVE  /\ faults = 0 /\ partition # None => UNCHANGED <<partition, challenges>>
         /\ calibration # <<>> => UNCHANGED <<partition, challenges, calibration>>
         /\ predictions # <<>> => UNCHANGED <<predictions, lookup>>
<1> USE DEF StageInv, PhaseOfCall, FrozenByPhase
<1>1. CASE Closing
  BY <1>1, ClosingFacts DEF CommitOpen, Idle
<1>2. CASE Observing
  BY <1>2, ObservingFacts DEF frozen
<1>3. CASE SubmitCommit
  <2>1. /\ call.stage = "none" /\ phase = "A_DISCOVERY"
        /\ UNCHANGED <<predictions, calibration, lookup>>
    BY <1>3 DEF SubmitCommit, CommitOpen, Idle
  <2> QED
    BY <2>1
<1>4. CASE PassGate
  <2>1. /\ call.stage = "a_gate" /\ UNCHANGED <<partition, challenges, predictions, lookup>>
    BY <1>4 DEF PassGate, Finished
  <2> QED
    BY <2>1
<1>5. CASE FreezeTransfer
  <2>1. call.stage = "b_calibration" /\ UNCHANGED <<partition, challenges, calibration>>
    BY <1>5 DEF FreezeTransfer, Finished
  <2> QED
    BY <2>1
<1>6. CASE \/ ExecuteABatch \/ ABatchReturn \/ RunB \/ ScoreTransfer \/ ObserveRaises
           \/ UNCHANGED vars
  <2>1. UNCHANGED <<frozen, lookup>>
    BY <1>6 DEF ExecuteABatch, ABatchReturn, RunB, ScoreTransfer, ObserveRaises, vars
  <2> QED
    BY <2>1 DEF frozen
<1> QED
  BY <1>1, <1>2, <1>3, <1>4, <1>5, <1>6, StepKinds

\* What a freeze recorded never changes, whatever the caller tries next and at
\* whatever iteration observe raises: B's basis and the predictions in every run,
\* the committed partition and its challenges in a run whose gate was not
\* abandoned.
THEOREM FreezesAreFinal == Spec => FrozenForever
<1>1. TypeInv /\ StageInv /\ [Next]_vars =>
        [/\ faults = 0 /\ partition # None => UNCHANGED <<partition, challenges>>
         /\ calibration # <<>> => UNCHANGED <<partition, challenges, calibration>>
         /\ predictions # <<>> => UNCHANGED <<predictions, lookup>>]_vars
  BY FreezeStep
<1> QED
  BY <1>1, StagesHold, PTL DEF Spec, FrozenForever

-------------------------------------------------------------------------------
(* The budget.  Without a fault the lists grow in step with the outcomes of*)
(* the call that fills them, so a phase says what has been paid.           *)

Units(stage) == Len(obs[stage])

Bill ==
  /\ phase = "A_DISCOVERY" =>
       /\ Units("a_discovery") <= ADiscoveryBudget
       /\ Units("b_calibration") = 0 /\ Units("b_transfer") = 0
       /\ Units("a_gate") = IF call.stage = "a_gate" THEN Len(call.ys) ELSE 0
  /\ phase = "B_CALIBRATION" =>
       /\ Units("a_discovery") = ADiscoveryBudget /\ Units("a_gate") = AGateBudget
       /\ Units("b_calibration") = IF call.stage = "b_calibration" THEN Len(call.ys) ELSE 0
       /\ Units("b_transfer") = 0
  /\ phase = "B_TRANSFER" =>
       /\ Units("a_discovery") = ADiscoveryBudget /\ Units("a_gate") = AGateBudget
       /\ Units("b_calibration") = BCalibrationBudget
       /\ call.stage = "b_transfer" /\ Units("b_transfer") = Len(call.ys)
  /\ phase = "CLOSED" =>
       /\ Spent(obs, gateCharged) <= TotalBudget /\ Units("a_gate") <= gateCharged
       /\ result.spent = Spent(obs, gateCharged)
       /\ result.outcome = "completed" <=> result.spent = TotalBudget

BillInv == faults = 0 => Bill

\* The broker's budgets and counts are numbers.
LEMMA UnitTypes ==
  ASSUME TypeInv
  PROVE  /\ \A stage \in Stages : Units(stage) \in Nat
         /\ \A stage \in Stages : obs[stage] \in Seq(Observations)
         /\ Len(call.ys) \in Nat /\ Len(call.plan) \in Nat
         /\ Len(call.ys) <= Len(call.plan)
         /\ gateCharged \in {0, AGateBudget}
         /\ faults \in Nat
<1>1. TypeOK
  BY DEF TypeInv
<1>2. call.plan \in Seq(Interventions) \cup Seq(Challenges) \cup Seq(Slots)
                      \cup Seq(Predictions) \cup {<<>>}
  BY <1>1 DEF TypeOK, Plans, Stages
<1>3. Len(call.plan) \in Nat
  <2>1. Len(<<>>) \in Nat
    BY EmptySeq
  <2> QED
    BY <1>2, <2>1
<1>4. ASSUME NEW stage \in Stages
      PROVE  obs[stage] \in Seq(Observations) /\ Units(stage) \in Nat
  BY <1>1 DEF TypeOK, Units
<1> QED
  BY <1>1, <1>3, <1>4, BrokerConstants DEF TypeOK

\* A loop step adds one unit to the list of its stage, whose plan was not finished.
LEMMA ObservedUnits ==
  ASSUME TypeInv, NEW stage \in Stages, NEW event, Observe(stage, event)
  PROVE  /\ call.stage = stage /\ call'.stage = stage
         /\ Units(stage)' = Units(stage) + 1
         /\ \A s \in Stages \ {stage} : Units(s)' = Units(s)
         /\ Len(call'.ys) = Len(call.ys) + 1 /\ call'.plan = call.plan
         /\ Len(call.ys) < Len(call.plan)
         /\ UNCHANGED <<phase, gateCharged, frozen, lookup, result, faults>>
<1>1. UNCHANGED <<phase, gateCharged, frozen, lookup, result, faults>>
  BY DEF Observe
<1> QED
  BY <1>1, ObservedPair DEF Units

\* A run closes in the A phase or between two calls, and only once.
LEMMA ClosingFrom ==
  ASSUME StageInv, Closing
  PROVE  \/ phase = "A_DISCOVERY"
         \/ phase # "CLOSED" /\ call = Idle
<1> USE DEF StageInv, PhaseOfCall
<1>1. CASE RejectBatchSchema \/ RejectBatchBudget
  BY <1>1 DEF RejectBatchSchema, RejectBatchBudget, DiscoveryOpen
<1>2. CASE SubmitMalformed \/ SubmitAbstain \/ SubmitIllegalCommit \/ SubmitUncovered
  BY <1>2 DEF SubmitMalformed, SubmitAbstain, SubmitIllegalCommit, SubmitUncovered, CommitOpen
<1>3. CASE ABatchReusedId \/ FailGate
  BY <1>3 DEF ABatchReusedId, FailGate, Running, Finished
<1>4. CASE CloseExternalFailure
  BY <1>4 DEF CloseExternalFailure, StillOpen
<1> QED
  BY <1>1, <1>2, <1>3, <1>4 DEF Closing

LEMMA BillInit ==
  Init => BillInv
<1> SUFFICES ASSUME Init
             PROVE  Bill
  BY DEF BillInv
<1>1. \A stage \in Stages : Units(stage) = 0
  BY DEF Init, Units
<1> QED
  BY <1>1, BrokerConstants DEF Init, Idle, Bill, Stages

LEMMA BillStep ==
  TypeInv /\ StageInv /\ GateInv /\ BillInv /\ [Next]_vars => BillInv'
<1> SUFFICES ASSUME TypeInv, StageInv, GateInv, BillInv, [Next]_vars, faults' = 0
             PROVE  Bill'
  BY DEF BillInv
<1> DEFINE D == Units("a_discovery")
           G == Units("a_gate")
           C == Units("b_calibration")
           T == Units("b_transfer")
<1>1. /\ D \in Nat /\ G \in Nat /\ C \in Nat /\ T \in Nat
      /\ Len(call.ys) \in Nat /\ Len(call.plan) \in Nat /\ Len(call.ys) <= Len(call.plan)
      /\ gateCharged \in {0, AGateBudget} /\ faults \in Nat
      /\ ADiscoveryBudget \in Nat /\ AGateBudget \in Nat \ {0}
      /\ BCalibrationBudget \in Nat \ {0} /\ BTransferBudget \in Nat \ {0}
  BY UnitTypes, BrokerConstants, ProtocolConstants DEF Stages
<1>2. faults = 0
  <2>1. faults' = faults \/ faults' = faults + 1
    BY StepKinds, ClosingFacts, ObservingFacts
       DEF ExecuteABatch, ABatchReturn, SubmitCommit, PassGate, RunB, FreezeTransfer,
           ScoreTransfer, ObserveRaises, vars
  <2> QED
    BY <1>1, <2>1
<1>3. Bill
  BY <1>2 DEF BillInv
<1> USE DEF StageInv, PhaseOfCall, PlanOfCall, FrozenByPhase
<1>4. CASE Closing
  <2>1. /\ phase' = "CLOSED" /\ result'.outcome # "completed" /\ obs' = obs
        /\ result'.spent = Spent(obs, gateCharged')
        /\ \/ gateCharged' = gateCharged
           \/ CommitOpen /\ gateCharged' = AGateBudget
    BY <1>4, ClosingFacts DEF measured
  <2>2. \/ phase = "A_DISCOVERY"
        \/ phase = "B_CALIBRATION" /\ call.stage = "none"
    <3>1. \/ phase = "A_DISCOVERY"
          \/ phase # "CLOSED" /\ call = Idle
      BY <1>4, ClosingFrom
    <3> QED
      BY <1>3, <3>1 DEF Bill, Idle, TypeInv, TypeOK
  <2>3. Units("a_gate")' = G /\ Spent(obs, gateCharged)' = D + gateCharged' + C + T
    BY <2>1 DEF Units, Spent
  <2>4. G <= gateCharged' /\ D + gateCharged' + C + T < TotalBudget
    <3>1. CASE phase = "A_DISCOVERY"
      <4>1. D <= ADiscoveryBudget /\ C = 0 /\ T = 0 /\ gateCharged' \in {0, AGateBudget}
        BY <1>1, <1>3, <2>1, <3>1 DEF Bill
      <4>2. \/ G = 0
            \/ G <= AGateBudget /\ gateCharged' = AGateBudget
        <5>1. CASE call.stage # "a_gate"
          BY <1>3, <3>1, <5>1 DEF Bill
        <5>2. CASE call.stage = "a_gate"
          <6>1. G = Len(call.ys) /\ Len(call.plan) = AGateBudget /\ gateCharged = AGateBudget
            BY <1>3, <3>1, <5>2 DEF Bill
          <6>2. gateCharged' = AGateBudget
            BY <2>1, <6>1
          <6> QED
            BY <1>1, <5>2, <6>1, <6>2
        <5> QED
          BY <5>1, <5>2
      <4> QED
        BY <1>1, <4>1, <4>2 DEF TotalBudget
    <3>2. CASE phase = "B_CALIBRATION" /\ call.stage = "none"
      <4>1. D = ADiscoveryBudget /\ G = AGateBudget /\ C = 0 /\ T = 0
            /\ gateCharged' = AGateBudget
        BY <1>3, <2>1, <3>2 DEF Bill, CommitOpen
      <4> QED
        BY <1>1, <4>1 DEF TotalBudget
    <3> QED
      BY <2>2, <3>1, <3>2
  <2>5. TotalBudget \in Nat /\ gateCharged' \in Nat
    BY <1>1, <2>1 DEF TotalBudget
  <2>6. D + gateCharged' + C + T # TotalBudget /\ D + gateCharged' + C + T <= TotalBudget
    BY <1>1, <2>4, <2>5
  <2>7. result'.spent = D + gateCharged' + C + T
    BY <2>1 DEF Units, Spent
  <2> HIDE DEF D, G, C, T
  <2> QED
    BY <2>1, <2>3, <2>4, <2>6, <2>7 DEF Bill
<1>5. CASE Observing
  <2>1. PICK stage \in Stages : \E event : Observe(stage, event)
    BY <1>5, ObservingFacts
  <2>2. /\ call.stage = stage /\ call'.stage = stage
        /\ Units(stage)' = Units(stage) + 1
        /\ \A s \in Stages \ {stage} : Units(s)' = Units(s)
        /\ Len(call'.ys) = Len(call.ys) + 1 /\ call'.plan = call.plan
        /\ Len(call.ys) < Len(call.plan)
        /\ UNCHANGED <<phase, gateCharged, frozen, lookup, result, faults>>
    BY <2>1, ObservedUnits
  <2>3. CASE stage = "a_discovery"
    <3>1. D' = D + 1 /\ G' = G /\ C' = C /\ T' = T /\ phase' = phase /\ phase = "A_DISCOVERY"
      BY <2>2, <2>3 DEF Stages
    <3>2. D + (Len(call.plan) - Len(call.ys)) <= ADiscoveryBudget
      BY <2>2, <2>3 DEF GateInv, Discovered, Units
    <3>3. D + 1 <= ADiscoveryBudget
      <4>1. \A d, l, y, b \in Nat : y < l /\ d + (l - y) <= b => d + 1 <= b
        OBVIOUS
      <4> QED
        BY <1>1, <2>2, <3>2, <4>1, Zenon
    <3> QED
      BY <1>3, <2>2, <2>3, <3>1, <3>3 DEF Bill
  <2>4. CASE stage = "a_gate"
    <3>1. D' = D /\ G' = G + 1 /\ C' = C /\ T' = T /\ phase' = phase /\ phase = "A_DISCOVERY"
      BY <2>2, <2>4 DEF Stages
    <3> QED
      BY <1>3, <2>2, <2>4, <3>1 DEF Bill
  <2>5. CASE stage = "b_calibration"
    <3>1. D' = D /\ G' = G /\ C' = C + 1 /\ T' = T /\ phase' = phase /\ phase = "B_CALIBRATION"
      BY <2>2, <2>5 DEF Stages
    <3> QED
      BY <1>3, <2>2, <2>5, <3>1 DEF Bill
  <2>6. CASE stage = "b_transfer"
    <3>1. D' = D /\ G' = G /\ C' = C /\ T' = T + 1 /\ phase' = phase /\ phase = "B_TRANSFER"
      BY <2>2, <2>6 DEF Stages
    <3> QED
      BY <1>3, <2>2, <2>6, <3>1 DEF Bill
  <2> QED
    BY <2>3, <2>4, <2>5, <2>6 DEF Stages
<1>6. ASSUME obs' = obs
      PROVE  \A stage : Units(stage)' = Units(stage)
  BY <1>6 DEF Units
<1>7. CASE ExecuteABatch
  <2>1. /\ obs' = obs /\ phase' = phase /\ phase = "A_DISCOVERY"
        /\ call = Idle /\ call'.stage = "a_discovery"
    BY <1>7 DEF ExecuteABatch, DiscoveryOpen, Start, measured
  <2> QED
    BY <1>3, <1>6, <2>1 DEF Bill, Idle
<1>8. CASE ABatchReturn
  <2>1. /\ obs' = obs /\ phase' = phase /\ call.stage = "a_discovery" /\ call'.stage = "none"
    BY <1>8 DEF ABatchReturn, Finished, Idle, measured
  <2> QED
    BY <1>3, <1>6, <2>1 DEF Bill
<1>9. CASE SubmitCommit
  <2>1. /\ obs' = obs /\ phase' = phase /\ phase = "A_DISCOVERY"
        /\ call = Idle /\ call'.stage = "a_gate" /\ Len(call'.ys) = 0
    BY <1>9, EmptySeq DEF SubmitCommit, CommitOpen, Start, measured
  <2> QED
    BY <1>3, <1>6, <2>1 DEF Bill, Idle
<1>10. CASE PassGate
  <2>1. /\ obs' = obs /\ phase' = "B_CALIBRATION" /\ call.stage = "a_gate"
        /\ call'.stage = "none" /\ Len(call.ys) = Len(call.plan)
    BY <1>10 DEF PassGate, Finished, Idle, measured
  <2>2. D = ADiscoveryBudget
    BY <2>1 DEF GateInv, Discovered, Units
  <2>3. phase = "A_DISCOVERY" /\ G = AGateBudget /\ C = 0 /\ T = 0
    BY <1>3, <2>1 DEF Bill
  <2> QED
    BY <1>6, <2>1, <2>2, <2>3 DEF Bill
<1>11. CASE RunB
  <2>1. /\ obs' = obs /\ phase' = phase /\ phase = "B_CALIBRATION" /\ call = Idle
        /\ call'.stage = "b_calibration" /\ Len(call'.ys) = 0
    BY <1>11, EmptySeq DEF RunB, Start, measured
  <2> QED
    BY <1>3, <1>6, <2>1 DEF Bill, Idle
<1>12. CASE FreezeTransfer
  <2>1. /\ obs' = obs /\ phase' = "B_TRANSFER" /\ call.stage = "b_calibration"
        /\ call'.stage = "b_transfer" /\ Len(call'.ys) = 0 /\ Len(call.ys) = Len(call.plan)
    BY <1>12, EmptySeq DEF FreezeTransfer, Finished, Start, measured
  <2>2. call.plan = calibration /\ phase = "B_CALIBRATION"
    BY <2>1 DEF TypeInv, CallInv
  <2>3. D = ADiscoveryBudget /\ G = AGateBudget /\ C = BCalibrationBudget /\ T = 0
    BY <1>3, <2>1, <2>2 DEF Bill
  <2> QED
    BY <1>6, <2>1, <2>3 DEF Bill
<1>13. CASE ScoreTransfer
  <2>1. /\ obs' = obs /\ phase' = "CLOSED" /\ call.stage = "b_transfer"
        /\ gateCharged' = gateCharged /\ result'.outcome = "completed"
        /\ result'.spent = Spent(obs, gateCharged)
        /\ Len(call.ys) = Len(call.plan)
    BY <1>13 DEF ScoreTransfer, Finished, Close, measured
  <2>2. /\ phase = "B_TRANSFER" /\ gateCharged = AGateBudget
        /\ call.plan = predictions /\ Len(predictions) = BTransferBudget
    <3>1. phase = "B_TRANSFER" /\ gateCharged = AGateBudget /\ call.plan = predictions
      BY <2>1
    <3> QED
      BY <3>1
  <2>3. D = ADiscoveryBudget /\ G = AGateBudget /\ C = BCalibrationBudget /\ T = BTransferBudget
    BY <1>3, <2>1, <2>2 DEF Bill
  <2>4. Spent(obs, gateCharged) = TotalBudget /\ TotalBudget \in Nat
    BY <1>1, <2>2, <2>3 DEF Spent, TotalBudget, Units
  <2>5. Spent(obs, gateCharged)' = Spent(obs, gateCharged)
    BY <2>1
  <2> QED
    BY <1>1, <1>6, <2>1, <2>2, <2>3, <2>4, <2>5 DEF Bill
<1>14. CASE ObserveRaises
  BY <1>1, <1>2, <1>14 DEF ObserveRaises
<1>15. CASE UNCHANGED vars
  BY <1>3, <1>15 DEF vars, measured, Bill, Units, Spent
<1> QED
  BY <1>4, <1>5, <1>7, <1>8, <1>9, <1>10, <1>11, <1>12, <1>13, <1>14, <1>15, StepKinds
\* All of the invariants above together, as what every reachable state satisfies.
RunInv == TypeInv /\ StageInv /\ GateInv /\ BillInv

LEMMA RunInvHolds ==
  Spec => []RunInv
<1>1. Init => GateIsHeldOut /\ GateInv
  BY DEF Init, Idle, GateIsHeldOut, GateInv, PairsOf, Stages
<1> QED
  BY <1>1, StageInit, StageStep, TypeInit, TypeStep, HeldOutStep, BillInit, BillStep, PTL
     DEF Spec, RunInv

\* While a run is open and observe has not raised, this is what it has spent.
LEMMA SpentByPhase ==
  ASSUME RunInv, faults = 0
  PROVE  LET spent == Spent(obs, gateCharged)
         IN  /\ spent \in Nat
             /\ phase = "A_DISCOVERY" =>
                  /\ gateCharged = 0 => spent = Units("a_discovery")
                  /\ gateCharged = AGateBudget =>
                       spent = ADiscoveryBudget + AGateBudget /\ call.stage = "a_gate"
             /\ phase = "B_CALIBRATION" =>
                  spent = ADiscoveryBudget + AGateBudget + Units("b_calibration")
             /\ phase = "B_TRANSFER" =>
                  spent = ADiscoveryBudget + AGateBudget + BCalibrationBudget
                            + Units("b_transfer")
             /\ phase = "CLOSED" => spent <= TotalBudget
<1> DEFINE D == Units("a_discovery")
           C == Units("b_calibration")
           T == Units("b_transfer")
<1>1. TypeInv /\ StageInv /\ GateInv /\ Bill
  BY DEF RunInv, BillInv
<1>2. /\ D \in Nat /\ C \in Nat /\ T \in Nat /\ gateCharged \in {0, AGateBudget}
      /\ ADiscoveryBudget \in Nat /\ AGateBudget \in Nat \ {0} /\ BCalibrationBudget \in Nat
  BY <1>1, UnitTypes, BrokerConstants, ProtocolConstants DEF Stages
<1>3. Spent(obs, gateCharged) = D + gateCharged + C + T
  BY DEF Spent, Units
<1>4. CASE phase = "A_DISCOVERY"
  <2>1. C = 0 /\ T = 0
    BY <1>1, <1>4 DEF Bill
  <2>2. gateCharged = AGateBudget => call.stage = "a_gate" /\ D = ADiscoveryBudget
    BY <1>1, <1>2, <1>4 DEF StageInv, FrozenByPhase, GateInv, Discovered, Units
  <2> QED
    BY <1>2, <1>3, <1>4, <2>1, <2>2
<1>5. CASE phase = "B_CALIBRATION"
  <2>1. T = 0 /\ D = ADiscoveryBudget /\ gateCharged = AGateBudget
    BY <1>1, <1>5 DEF Bill, StageInv, FrozenByPhase
  <2> QED
    BY <1>2, <1>3, <1>5, <2>1
<1>6. CASE phase = "B_TRANSFER"
  <2>1. C = BCalibrationBudget /\ D = ADiscoveryBudget /\ gateCharged = AGateBudget
    BY <1>1, <1>6 DEF Bill, StageInv, FrozenByPhase
  <2> QED
    BY <1>2, <1>3, <1>6, <2>1
<1>7. CASE phase = "CLOSED"
  BY <1>1, <1>2, <1>3, <1>7 DEF Bill
<1> QED
  BY <1>1, <1>4, <1>5, <1>6, <1>7 DEF TypeInv, TypeOK

\* A run whose observe never raised spends at most the 128 units, sees no gate
\* outcome it has not paid for, and spends exactly the 128 when, and only when, it
\* completes: neither an early verdict nor a malformed commit reaches the total.
THEOREM BudgetIsExact == Spec => []BudgetExact
<1>1. ASSUME RunInv, faults = 0
      PROVE  /\ Spent(obs, gateCharged) <= TotalBudget
             /\ Len(obs["a_gate"]) <= gateCharged
             /\ result # None => (result.outcome = "completed" <=> result.spent = TotalBudget)
  <2> USE DEF StageInv, PhaseOfCall, PlanOfCall, FrozenByPhase
  <2>1. TypeInv /\ StageInv /\ Bill
    BY <1>1 DEF RunInv, BillInv
  <2>2. /\ Units("a_discovery") \in Nat /\ Units("a_gate") \in Nat
        /\ Units("b_calibration") \in Nat /\ Units("b_transfer") \in Nat
        /\ Len(call.ys) \in Nat /\ Len(call.plan) \in Nat /\ Len(call.ys) <= Len(call.plan)
        /\ gateCharged \in {0, AGateBudget}
        /\ ADiscoveryBudget \in Nat /\ AGateBudget \in Nat \ {0}
        /\ BCalibrationBudget \in Nat /\ BTransferBudget \in Nat
    BY <2>1, UnitTypes, BrokerConstants, ProtocolConstants DEF Stages
  <2>3. CASE phase = "A_DISCOVERY"
    <3>1. /\ Units("a_discovery") <= ADiscoveryBudget
          /\ gateCharged = 0 => Spent(obs, gateCharged) = Units("a_discovery")
          /\ gateCharged = AGateBudget =>
               Spent(obs, gateCharged) = ADiscoveryBudget + AGateBudget
      BY <1>1, <2>1, <2>3, SpentByPhase DEF Bill
    <3>2. Spent(obs, gateCharged) <= TotalBudget
      BY <2>2, <3>1 DEF TotalBudget
    <3>3. Units("a_gate") <= gateCharged
      BY <2>1, <2>2, <2>3 DEF Bill
    <3> QED
      BY <2>1, <2>3, <3>2, <3>3 DEF Units
  <2>4. CASE phase = "B_CALIBRATION"
    <3>1. /\ Spent(obs, gateCharged) = ADiscoveryBudget + AGateBudget + Units("b_calibration")
          /\ Units("a_gate") = AGateBudget /\ gateCharged = AGateBudget
      BY <1>1, <2>1, <2>4, SpentByPhase DEF Bill
    <3>2. Units("b_calibration") <= BCalibrationBudget
      BY <2>1, <2>2, <2>4 DEF Bill, TypeInv, CallInv
    <3>3. Spent(obs, gateCharged) <= TotalBudget
      BY <2>2, <3>1, <3>2 DEF TotalBudget
    <3>4. result = None /\ Units("a_gate") <= gateCharged
      BY <2>1, <2>2, <2>4, <3>1
    <3> QED
      BY <3>3, <3>4 DEF Units
  <2>5. CASE phase = "B_TRANSFER"
    <3>1. /\ Spent(obs, gateCharged) = ADiscoveryBudget + AGateBudget + BCalibrationBudget
                                         + Units("b_transfer")
          /\ Units("a_gate") = AGateBudget /\ gateCharged = AGateBudget
      BY <1>1, <2>1, <2>5, SpentByPhase DEF Bill
    <3>2. Units("b_transfer") <= BTransferBudget
      BY <2>1, <2>2, <2>5 DEF Bill
    <3>3. Spent(obs, gateCharged) <= TotalBudget
      BY <2>2, <3>1, <3>2 DEF TotalBudget
    <3>4. result = None /\ Units("a_gate") <= gateCharged
      BY <2>1, <2>2, <2>5, <3>1
    <3> QED
      BY <3>3, <3>4 DEF Units
  <2>6. CASE phase = "CLOSED"
    BY <2>1, <2>6 DEF Bill, Units
  <2> QED
    BY <2>1, <2>3, <2>4, <2>5, <2>6 DEF TypeInv, TypeOK
<1>2. RunInv => BudgetExact
  BY <1>1 DEF BudgetExact
<1> QED
  BY <1>2, RunInvHolds, PTL

-------------------------------------------------------------------------------
(* The broker implements the budget contract.  A behaviour in which observe*)
(* raises is outside the contract (the gate may then be observed again     *)
(* without being paid for again), so the theorem is about the others.      *)

LEMMA SpentAsUnits ==
  /\ Spent(obs, gateCharged) = Units("a_discovery") + gateCharged
                                 + Units("b_calibration") + Units("b_transfer")
  /\ Spent(obs, gateCharged)' = Units("a_discovery")' + gateCharged'
                                  + Units("b_calibration")' + Units("b_transfer")'
BY DEF Spent, Units

\* A step of the broker before and after which nothing has raised.
LEMMA ContractStep ==
  ASSUME RunInv, RunInv', [Next]_vars, faults = 0, faults' = 0
  PROVE  [Contract!Next]_(Contract!vars)
<1> DEFINE S == Spent(obs, gateCharged)
<1> USE DEF StageInv, PhaseOfCall, PlanOfCall, FrozenByPhase
<1>1. /\ TypeInv /\ StageInv /\ GateInv /\ Bill /\ TypeInv' /\ StageInv' /\ Bill'
      /\ S \in Nat
  BY SpentByPhase DEF RunInv, BillInv
<1>2. /\ phase \in {"A_DISCOVERY", "B_CALIBRATION", "B_TRANSFER", "CLOSED"}
      /\ gateCharged \in {0, AGateBudget} /\ gateCharged' \in {0, AGateBudget}
      /\ ADiscoveryBudget \in Nat \ {0} /\ AGateBudget \in Nat \ {0}
      /\ BCalibrationBudget \in Nat /\ BTransferBudget \in Nat
      /\ Units("a_discovery") \in Nat /\ Units("a_gate") \in Nat
      /\ Units("b_calibration") \in Nat /\ Units("b_transfer") \in Nat
      /\ Len(call.ys) \in Nat /\ Len(call.plan) \in Nat
  BY <1>1, UnitTypes, BrokerConstants, ProtocolConstants DEF TypeInv, TypeOK, Stages
<1>3. SUFFICES ASSUME ~ UNCHANGED <<ContractStage, S, ContractVerdict>>
               PROVE  Contract!Next
  BY DEF Contract!vars
<1>4. CASE Closing
  <2>1. /\ phase' = "CLOSED" /\ result' # None /\ result'.outcome # "completed"
        /\ UNCHANGED obs
        /\ \/ UNCHANGED gateCharged
           \/ CommitOpen /\ gateCharged' = AGateBudget
    BY <1>1, <1>4, ClosingFacts DEF measured
  <2>2. ContractStage' = "closed" /\ ContractVerdict' = "zero"
    BY <2>1 DEF ContractStage, ContractVerdict
  <2>3. phase # "CLOSED"
    BY <1>1, <1>4, ClosingFrom
  <2>4. ContractStage # "closed"
    BY <1>2, <2>3 DEF ContractStage
  <2>5. CASE gateCharged' = gateCharged
    <3>1. S' = S
      BY <2>1, <2>5 DEF Spent
    <3> QED
      BY <2>2, <2>4, <3>1 DEF Contract!Next, Contract!GiveUp
  <2>6. CASE CommitOpen /\ gateCharged' = AGateBudget
    <3>1. /\ phase = "A_DISCOVERY" /\ gateCharged = 0 /\ Units("a_discovery") = ADiscoveryBudget
          /\ Units("b_calibration") = 0 /\ Units("b_transfer") = 0
      BY <1>1, <2>6 DEF CommitOpen, Idle, Bill, Units
    <3>2. S = ADiscoveryBudget /\ S' = ADiscoveryBudget + AGateBudget
      BY <1>2, <2>1, <2>6, <3>1 DEF Spent, Units
    <3>3. ContractStage = "discovery"
      BY <3>1 DEF ContractStage
    <3> QED
      BY <2>2, <3>2, <3>3 DEF Contract!Next, Contract!PayAndGiveUp, Contract!Quota
  <2> QED
    BY <2>1, <2>5, <2>6
<1>5. CASE Observing
  <2>1. PICK stage \in Stages : \E event : Observe(stage, event)
    BY <1>5, ObservingFacts
  <2>2. /\ call.stage = stage /\ Units(stage)' = Units(stage) + 1
        /\ \A s \in Stages \ {stage} : Units(s)' = Units(s)
        /\ Len(call.ys) < Len(call.plan)
        /\ UNCHANGED <<phase, gateCharged, frozen, lookup, result, faults>>
    BY <1>1, <2>1, ObservedUnits
  <2>3. UNCHANGED <<ContractStage, ContractVerdict>>
    BY <2>2 DEF ContractStage, ContractVerdict
  <2>4. CASE stage = "a_gate"
    <3>1. /\ Units("a_discovery")' = Units("a_discovery")
          /\ Units("b_calibration")' = Units("b_calibration")
          /\ Units("b_transfer")' = Units("b_transfer")
      BY <2>2, <2>4 DEF Stages
    <3>2. S' = S
      BY <2>2, <3>1 DEF Spent, Units
    <3> QED
      BY <1>3, <2>3, <3>2
  <2>5. CASE stage # "a_gate"
    <3>1. S' = S + 1
      <4>1. CASE stage = "a_discovery"
        <5>1. /\ Units("a_discovery")' = Units("a_discovery") + 1
              /\ Units("b_calibration")' = Units("b_calibration")
              /\ Units("b_transfer")' = Units("b_transfer")
          BY <2>2, <4>1 DEF Stages
        <5> QED
          BY <1>2, <2>2, <5>1, SpentAsUnits
      <4>2. CASE stage = "b_calibration"
        <5>1. /\ Units("b_calibration")' = Units("b_calibration") + 1
              /\ Units("a_discovery")' = Units("a_discovery")
              /\ Units("b_transfer")' = Units("b_transfer")
          BY <2>2, <4>2 DEF Stages
        <5> QED
          BY <1>2, <2>2, <5>1, SpentAsUnits
      <4>3. CASE stage = "b_transfer"
        <5>1. /\ Units("b_transfer")' = Units("b_transfer") + 1
              /\ Units("a_discovery")' = Units("a_discovery")
              /\ Units("b_calibration")' = Units("b_calibration")
          BY <2>2, <4>3 DEF Stages
        <5> QED
          BY <1>2, <2>2, <5>1, SpentAsUnits
      <4> QED
        BY <2>5, <4>1, <4>2, <4>3 DEF Stages
    <3>2. /\ ContractStage \in {"discovery", "calibration", "transfer"}
          /\ S < Contract!Quota(ContractStage)
      <4>1. CASE stage = "a_discovery"
        <5>1. phase = "A_DISCOVERY" /\ gateCharged = 0
          BY <1>1, <2>2, <4>1
        <5>2. S = Units("a_discovery")
          BY <1>1, <5>1, SpentByPhase
        <5>3. Units("a_discovery") + 1 <= ADiscoveryBudget
          <6>1. Units("a_discovery")' <= ADiscoveryBudget
            BY <1>1, <2>2, <5>1 DEF Bill
          <6> QED
            BY <2>2, <4>1, <6>1
        <5>4. ContractStage = "discovery"
          BY <5>1 DEF ContractStage
        <5>5. S < ADiscoveryBudget
          BY <1>2, <5>2, <5>3
        <5> QED
          BY <5>4, <5>5 DEF Contract!Quota
      <4>2. CASE stage = "b_calibration"
        <5>1. phase = "B_CALIBRATION" /\ Len(call.plan) = BCalibrationBudget
          BY <1>1, <2>2, <4>2 DEF TypeInv, CallInv
        <5>2. S = ADiscoveryBudget + AGateBudget + Len(call.ys)
          BY <1>1, <2>2, <4>2, <5>1, SpentByPhase DEF Bill
        <5>3. ContractStage = "calibration"
          BY <5>1 DEF ContractStage
        <5>4. S < ADiscoveryBudget + AGateBudget + BCalibrationBudget
          <6>1. Len(call.ys) < BCalibrationBudget
            BY <2>2, <5>1
          <6>2. ADiscoveryBudget + AGateBudget + Len(call.ys)
                  < ADiscoveryBudget + AGateBudget + BCalibrationBudget
            <7>1. /\ ADiscoveryBudget \in Nat /\ AGateBudget \in Nat
                  /\ BCalibrationBudget \in Nat /\ BTransferBudget \in Nat
                  /\ Len(call.ys) \in Nat
              BY <1>2
            <7>2. \A d, g, y, b \in Nat : y < b => d + g + y < d + g + b
              OBVIOUS
            <7> QED
              BY <6>1, <7>1, <7>2, Zenon
          <6> HIDE DEF S
          <6> QED
            BY <5>2, <6>2
        <5> QED
          BY <5>3, <5>4 DEF Contract!Quota
      <4>3. CASE stage = "b_transfer"
        <5>1. phase = "B_TRANSFER" /\ Len(call.plan) = BTransferBudget
          BY <1>1, <2>2, <4>3
        <5>2. S = ADiscoveryBudget + AGateBudget + BCalibrationBudget + Len(call.ys)
          BY <1>1, <5>1, SpentByPhase DEF Bill
        <5>3. ContractStage = "transfer"
          BY <5>1 DEF ContractStage
        <5>4. S < ADiscoveryBudget + AGateBudget + BCalibrationBudget + BTransferBudget
          <6>1. Len(call.ys) < BTransferBudget
            BY <2>2, <5>1
          <6>2. ADiscoveryBudget + AGateBudget + BCalibrationBudget + Len(call.ys)
                  < ADiscoveryBudget + AGateBudget + BCalibrationBudget + BTransferBudget
            <7>1. /\ ADiscoveryBudget \in Nat /\ AGateBudget \in Nat
                  /\ BCalibrationBudget \in Nat /\ BTransferBudget \in Nat
                  /\ Len(call.ys) \in Nat
              BY <1>2
            <7>2. \A d, g, c, y, b \in Nat : y < b => d + g + c + y < d + g + c + b
              OBVIOUS
            <7> QED
              BY <6>1, <7>1, <7>2, Zenon
          <6> HIDE DEF S
          <6> QED
            BY <5>2, <6>2
        <5> QED
          BY <5>3, <5>4 DEF Contract!Quota
      <4> QED
        BY <2>5, <4>1, <4>2, <4>3 DEF Stages
    <3> QED
      BY <2>3, <3>1, <3>2 DEF Contract!Next, Contract!SpendUnit
  <2> QED
    BY <2>4, <2>5
<1>6. CASE SubmitCommit
  <2>1. /\ phase = "A_DISCOVERY" /\ call.stage = "none"
        /\ Units("a_discovery") = ADiscoveryBudget
        /\ UNCHANGED <<phase, obs, result>> /\ gateCharged' = AGateBudget
    BY <1>6 DEF SubmitCommit, CommitOpen, Idle, Units, measured
  <2>2. gateCharged = 0 /\ Units("b_calibration") = 0 /\ Units("b_transfer") = 0
    BY <1>1, <2>1 DEF Bill
  <2>3. S = ADiscoveryBudget /\ S' = ADiscoveryBudget + AGateBudget
    BY <1>2, <2>1, <2>2 DEF Spent, Units
  <2>4. ContractStage = "discovery" /\ ContractStage' = "gate" /\ UNCHANGED ContractVerdict
    BY <1>2, <2>1, <2>2 DEF ContractStage, ContractVerdict
  <2> QED
    BY <2>3, <2>4 DEF Contract!Next, Contract!PayGate, Contract!Quota
<1>7. CASE PassGate
  <2>1. /\ call.stage = "a_gate" /\ phase' = "B_CALIBRATION"
        /\ UNCHANGED <<obs, gateCharged, result>>
    BY <1>7 DEF PassGate, Finished, measured
  <2>2. phase = "A_DISCOVERY" /\ gateCharged = AGateBudget
    BY <1>1, <2>1
  <2>3. /\ ContractStage = "gate" /\ ContractStage' = "calibration"
        /\ UNCHANGED <<S, ContractVerdict>>
    BY <1>2, <2>1, <2>2 DEF ContractStage, ContractVerdict
  <2> QED
    BY <2>3 DEF Contract!Next, Contract!OpenB
<1>8. CASE FreezeTransfer
  <2>1. /\ call.stage = "b_calibration" /\ Len(call.ys) = Len(call.plan)
        /\ phase' = "B_TRANSFER" /\ UNCHANGED <<obs, gateCharged, result>>
    BY <1>8 DEF FreezeTransfer, Finished, measured
  <2>2. phase = "B_CALIBRATION" /\ Len(call.plan) = BCalibrationBudget
    BY <1>1, <2>1 DEF TypeInv, CallInv
  <2>3. S = ADiscoveryBudget + AGateBudget + BCalibrationBudget
    BY <1>1, <2>1, <2>2, SpentByPhase DEF Bill
  <2>4. /\ ContractStage = "calibration" /\ ContractStage' = "transfer"
        /\ UNCHANGED <<S, ContractVerdict>>
    BY <2>1, <2>2 DEF ContractStage, ContractVerdict
  <2> QED
    BY <2>3, <2>4 DEF Contract!Next, Contract!FreezePredictions, Contract!Quota
<1>9. CASE ScoreTransfer
  <2>1. /\ call.stage = "b_transfer" /\ Len(call.ys) = Len(call.plan)
        /\ phase' = "CLOSED" /\ UNCHANGED <<obs, gateCharged>>
        /\ result'.outcome = "completed"
    BY <1>9 DEF ScoreTransfer, Finished, Close, measured
  <2>2. phase = "B_TRANSFER" /\ Len(call.plan) = BTransferBudget /\ result' # None
    BY <1>1, <2>1
  <2>3. S = ADiscoveryBudget + AGateBudget + BCalibrationBudget + BTransferBudget
    BY <1>1, <2>1, <2>2, SpentByPhase DEF Bill
  <2>4. /\ ContractStage = "transfer" /\ ContractStage' = "closed"
        /\ UNCHANGED S /\ ContractVerdict' = "scored"
    BY <2>1, <2>2 DEF ContractStage, ContractVerdict
  <2> QED
    BY <2>3, <2>4 DEF Contract!Next, Contract!Complete, Contract!Quota
<1>10. CASE ExecuteABatch \/ ABatchReturn \/ RunB \/ UNCHANGED vars
  <2>1. UNCHANGED <<phase, obs, gateCharged, result>>
    BY <1>10 DEF ExecuteABatch, ABatchReturn, RunB, vars, measured
  <2>2. UNCHANGED <<ContractStage, S, ContractVerdict>>
    BY <2>1 DEF ContractStage, ContractVerdict
  <2> QED
    BY <1>3, <2>2
<1>11. CASE ObserveRaises
  BY <1>11 DEF ObserveRaises
<1> QED
  BY <1>4, <1>5, <1>6, <1>7, <1>8, <1>9, <1>10, <1>11, StepKinds

\* A run whose runtime always answers pays for discovery, gate, calibration and
\* transfer in this order, each in full before the next and each once, and is
\* scored only when all are paid: the broker implements the budget contract.
THEOREM BrokerImplementsContract == Spec /\ [](faults = 0) => ImplementsContract
<1>1. Init => Contract!Init
  <2> SUFFICES ASSUME Init
               PROVE  Contract!Init
    OBVIOUS
  <2>1. Spent(obs, gateCharged) = 0
    BY DEF Init, Spent, Stages
  <2>2. ContractStage = "discovery" /\ ContractVerdict = "open"
    BY DEF Init, ContractStage, ContractVerdict
  <2> QED
    BY <2>1, <2>2 DEF Contract!Init
<1>2. RunInv /\ RunInv' /\ [Next]_vars /\ faults = 0 /\ (faults = 0)' =>
        [Contract!Next]_(Contract!vars)
  BY ContractStep
<1> QED
  BY <1>1, <1>2, RunInvHolds, PTL DEF Spec, ImplementsContract, Contract!Spec

-------------------------------------------------------------------------------
(* The ledger.                                                             *)

Events ==
  {"v1_run_opened", "a_observation", "a_gate_budget_charged", "a_partition_frozen",
   "a_gate_predictions_frozen", "a_gate_outcome", "a_gate_adjudicated",
   "b_calibration_schedule_frozen", "b_calibration_outcome", "b_lookup_frozen",
   "b_transfer_predictions_frozen", "b_transfer_outcome", "v1_run_closed"}

Positions(events, e) == {i \in DOMAIN events : events[i] = e}
Mentions(events, e) == \E i \in DOMAIN events : events[i] = e
Precedes(events, e, f) ==
  \A i \in DOMAIN events : events[i] = f => \E j \in 1 .. i - 1 : events[j] = e

\* Elements of a longer log.
LEMMA LogParts ==
  ASSUME NEW log \in Seq(Events), NEW more \in Seq(Events)
  PROVE  /\ log \o more \in Seq(Events)
         /\ Len(log) \in Nat /\ Len(more) \in Nat
         /\ DOMAIN log = 1 .. Len(log) /\ DOMAIN more = 1 .. Len(more)
         /\ DOMAIN (log \o more) = 1 .. Len(log) + Len(more)
         /\ \A i \in 1 .. Len(log) : (log \o more)[i] = log[i]
         /\ \A i \in 1 .. Len(more) : (log \o more)[Len(log) + i] = more[i]
         /\ \A i \in DOMAIN (log \o more) :
              i \in 1 .. Len(log) \/ \E j \in 1 .. Len(more) : i = Len(log) + j
<1> DEFINE both == log \o more
           m == Len(log)
           n == Len(more)
<1>1. m \in Nat /\ n \in Nat /\ DOMAIN log = 1 .. m /\ DOMAIN more = 1 .. n
  OBVIOUS
<1>2. both \in Seq(Events) /\ Len(both) = m + n /\ DOMAIN both = 1 .. Len(both)
  OBVIOUS
<1>3. \A i \in 1 .. m : both[i] = log[i]
  OBVIOUS
<1>4. \A i \in 1 .. n : both[m + i] = more[i]
  OBVIOUS
<1> HIDE DEF both, m, n
<1>5. ASSUME NEW i \in 1 .. m + n
      PROVE  i \in 1 .. m \/ \E j \in 1 .. n : i = m + j
  <2>1. CASE i <= m
    BY <1>1, <2>1
  <2>2. CASE i > m
    <3>1. i - m \in 1 .. n /\ i = m + (i - m)
      BY <1>1, <2>2
    <3> QED
      BY <3>1
  <2> QED
    BY <1>1, <2>1, <2>2
<1> QED
  BY <1>1, <1>2, <1>3, <1>4, <1>5 DEF both, m, n

\* What events that are not e or f leave true of a log.
LEMMA OtherEvents ==
  ASSUME NEW log \in Seq(Events), NEW more \in Seq(Events), NEW e, NEW f
  PROVE  /\ ~ Mentions(more, e) => Positions(log \o more, e) = Positions(log, e)
         /\ Mentions(log \o more, e) <=> Mentions(log, e) \/ Mentions(more, e)
         /\ Precedes(log, e, f) /\ ~ Mentions(more, f) => Precedes(log \o more, e, f)
<1> DEFINE both == log \o more
           m == Len(log)
           n == Len(more)
<1>1. /\ m \in Nat /\ n \in Nat /\ DOMAIN log = 1 .. m /\ DOMAIN more = 1 .. n
      /\ DOMAIN both = 1 .. m + n
      /\ \A i \in 1 .. m : both[i] = log[i]
      /\ \A i \in 1 .. n : both[m + i] = more[i]
      /\ \A i \in DOMAIN both : i \in 1 .. m \/ \E j \in 1 .. n : i = m + j
  BY LogParts
<1> HIDE DEF both, m, n
<1>2. (1 .. m) \subseteq (1 .. m + n) /\ \A j \in 1 .. n : m + j \in 1 .. m + n
  BY <1>1
<1>3. ~ Mentions(more, e) => Positions(both, e) = Positions(log, e)
  BY <1>1, <1>2 DEF Mentions, Positions
<1>4. Mentions(both, e) <=> Mentions(log, e) \/ Mentions(more, e)
  BY <1>1, <1>2 DEF Mentions
<1>5. Precedes(log, e, f) /\ ~ Mentions(more, f) => Precedes(both, e, f)
  <2> SUFFICES ASSUME Precedes(log, e, f), ~ Mentions(more, f),
                      NEW i \in DOMAIN both, both[i] = f
               PROVE  \E j \in 1 .. i - 1 : both[j] = e
    BY DEF Precedes
  <2>1. i \in 1 .. m /\ log[i] = f
    BY <1>1 DEF Mentions
  <2>2. PICK j \in 1 .. i - 1 : log[j] = e
    BY <1>1, <2>1 DEF Precedes
  <2>3. j \in 1 .. m
    BY <1>1, <2>1
  <2> QED
    BY <1>1, <2>2, <2>3
<1> QED
  BY <1>3, <1>4, <1>5 DEF both

\* One more event is counted once, and comes after everything logged before it.
LEMMA OneMoreEvent ==
  ASSUME NEW log \in Seq(Events), NEW x \in Events, NEW e, NEW f
  PROVE  /\ Append(log, x) \in Seq(Events)
         /\ Append(log, x) = log \o <<x>>
         /\ IsFiniteSet(Positions(log, e)) /\ Cardinality(Positions(log, e)) \in Nat
         /\ Cardinality(Positions(Append(log, x), e))
              = Cardinality(Positions(log, e)) + (IF x = e THEN 1 ELSE 0)
         /\ Precedes(log, e, f) /\ (x = f => Mentions(log, e)) =>
              Precedes(Append(log, x), e, f)
<1> DEFINE longer == Append(log, x)
           n == Len(log)
<1>1. /\ n \in Nat /\ DOMAIN log = 1 .. n /\ DOMAIN longer = 1 .. n + 1
      /\ longer[n + 1] = x /\ \A i \in 1 .. n : longer[i] = log[i]
      /\ longer \in Seq(Events)
  <2>1. /\ longer \in Seq(Events) /\ Len(longer) = n + 1
        /\ \A i \in 1 .. n : longer[i] = log[i]
        /\ longer[n + 1] = x
    BY AppendProperties
  <2>2. n \in Nat /\ DOMAIN log = 1 .. n
    OBVIOUS
  <2> HIDE DEF longer, n
  <2>3. DOMAIN longer = 1 .. n + 1
    BY <2>1
  <2> QED
    BY <2>1, <2>2, <2>3
<1>2. longer = log \o <<x>>
  BY AppendIsConcat
<1> HIDE DEF longer, n
<1>3. /\ \A i \in 1 .. n + 1 : i \in 1 .. n \/ i = n + 1
      /\ n + 1 \notin 1 .. n /\ n + 1 \in 1 .. n + 1 /\ (1 .. n) \subseteq (1 .. n + 1)
      /\ (1 .. n + 1 - 1) = 1 .. n
  BY <1>1
<1>4. IsFiniteSet(Positions(log, e)) /\ Cardinality(Positions(log, e)) \in Nat
  <2>1. Positions(log, e) \in SUBSET (1 .. n) /\ IsFiniteSet(1 .. n)
    BY <1>1, FS_Interval DEF Positions
  <2> QED
    BY <2>1, FS_Subset, FS_CardinalityType
<1>5. Cardinality(Positions(longer, e))
        = Cardinality(Positions(log, e)) + (IF x = e THEN 1 ELSE 0)
  <2>1. CASE x = e
    <3>1. Positions(longer, e) = Positions(log, e) \cup {n + 1}
      BY <1>1, <1>3, <2>1 DEF Positions
    <3>2. n + 1 \notin Positions(log, e)
      BY <1>1, <1>3 DEF Positions
    <3> QED
      BY <1>4, <2>1, <3>1, <3>2, FS_AddElement
  <2>2. CASE x # e
    <3>1. Positions(longer, e) = Positions(log, e)
      BY <1>1, <1>3, <2>2 DEF Positions
    <3> QED
      BY <1>4, <2>2, <3>1
  <2> QED
    BY <2>1, <2>2
<1>6. Precedes(log, e, f) /\ (x = f => Mentions(log, e)) => Precedes(longer, e, f)
  <2> SUFFICES ASSUME Precedes(log, e, f), x = f => Mentions(log, e),
                      NEW i \in DOMAIN longer, longer[i] = f
               PROVE  \E j \in 1 .. i - 1 : longer[j] = e
    BY DEF Precedes
  <2>1. CASE i \in 1 .. n
    <3>1. PICK j \in 1 .. i - 1 : log[j] = e
      BY <1>1, <2>1 DEF Precedes
    <3>2. j \in 1 .. n
      BY <1>1, <2>1
    <3> QED
      BY <1>1, <3>1, <3>2
  <2>2. CASE i = n + 1
    <3>1. PICK j \in 1 .. n : log[j] = e
      BY <1>1, <2>2 DEF Mentions
    <3>2. j \in 1 .. i - 1
      BY <1>1, <2>2
    <3> QED
      BY <1>1, <3>1, <3>2
  <2> QED
    BY <1>1, <1>3, <2>1, <2>2
<1> QED
  BY <1>1, <1>2, <1>4, <1>5, <1>6 DEF longer

\* Logging one event after another is logging them together.
LEMMA LogTogether ==
  ASSUME NEW log \in Seq(Events), NEW a \in Events, NEW b \in Events, NEW c \in Events
  PROVE  /\ log \o <<a>> \o <<b>> = log \o <<a, b>>
         /\ log \o <<a, b>> \o <<c>> = log \o <<a, b, c>>
<1>1. /\ log \o <<a, b>> = Append(Append(log, a), b)
      /\ log \o <<a, b, c>> = Append(Append(Append(log, a), b), c)
  OBVIOUS
<1>2. Append(log, a) \in Seq(Events) /\ Append(log, a) = log \o <<a>>
  BY AppendProperties, AppendIsConcat
<1>3. /\ Append(Append(log, a), b) \in Seq(Events)
      /\ Append(Append(log, a), b) = Append(log, a) \o <<b>>
  BY <1>2, AppendProperties, AppendIsConcat
<1>4. Append(Append(Append(log, a), b), c) = Append(Append(log, a), b) \o <<c>>
  BY <1>3, AppendIsConcat
<1> QED
  BY <1>1, <1>2, <1>3, <1>4

LEMMA PairOfEvents ==
  ASSUME NEW a \in Events, NEW b \in Events
  PROVE  <<a>> \o <<b>> = <<a, b>>
<1>1. /\ <<>> \in Seq(Events) /\ <<a>> \in Seq(Events) /\ <<a, b>> \in Seq(Events)
  OBVIOUS
<1>2. <<>> \o <<a>> \o <<b>> = <<>> \o <<a, b>>
  BY <1>1, LogTogether
<1>3. <<>> \o <<a>> = <<a>>
  BY <1>1, ConcatEmptySeq
<1>4. <<>> \o <<a, b>> = <<a, b>>
  BY <1>1, ConcatEmptySeq
<1> QED
  BY <1>2, <1>3, <1>4

\* What short tuples of events mention.
LEMMA ShortLogs ==
  ASSUME NEW a \in Events, NEW b \in Events, NEW c \in Events
  PROVE  /\ <<>> \in Seq(Events) /\ <<a>> \in Seq(Events) /\ <<a, b>> \in Seq(Events)
         /\ <<a, b, c>> \in Seq(Events)
         /\ \A e : ~ Mentions(<<>>, e)
         /\ \A e : Mentions(<<a>>, e) <=> a = e
         /\ \A e : Mentions(<<a, b>>, e) <=> a = e \/ b = e
         /\ \A e : Mentions(<<a, b, c>>, e) <=> a = e \/ b = e \/ c = e
<1>1. \A e : ~ Mentions(<<>>, e)
  BY DEF Mentions
<1>2. \A e : Mentions(<<a>>, e) <=> a = e
  BY DEF Mentions
<1>3. \A e : Mentions(<<a, b>>, e) <=> a = e \/ b = e
  <2> DEFINE t == <<a, b>>
  <2>1. DOMAIN t = 1 .. 2 /\ t[1] = a /\ t[2] = b
    OBVIOUS
  <2>2. 1 \in DOMAIN t /\ 2 \in DOMAIN t /\ \A i \in DOMAIN t : i = 1 \/ i = 2
    OBVIOUS
  <2> HIDE DEF t
  <2>3. \A e : Mentions(t, e) <=> a = e \/ b = e
    BY <2>1, <2>2 DEF Mentions
  <2> QED
    BY <2>3 DEF t
<1>4. \A e : Mentions(<<a, b, c>>, e) <=> a = e \/ b = e \/ c = e
  <2> DEFINE t == <<a, b, c>>
  <2>1. DOMAIN t = 1 .. 3 /\ t[1] = a /\ t[2] = b /\ t[3] = c
    OBVIOUS
  <2>2. /\ 1 \in DOMAIN t /\ 2 \in DOMAIN t /\ 3 \in DOMAIN t
        /\ \A i \in DOMAIN t : i = 1 \/ i = 2 \/ i = 3
    OBVIOUS
  <2> HIDE DEF t
  <2>3. \A e : Mentions(t, e) <=> a = e \/ b = e \/ c = e
    BY <2>1, <2>2 DEF Mentions
  <2> QED
    BY <2>3 DEF t
<1> QED
  BY <1>1, <1>2, <1>3, <1>4

\* A log with one event appended.
LEMMA LongerLog ==
  ASSUME NEW log \in Seq(Events), NEW x \in Events
  PROVE  /\ Append(log, x) \in Seq(Events)
         /\ Append(log, x) = log \o <<x>>
         /\ \A e : Cardinality(Positions(Append(log, x), e))
                     = Cardinality(Positions(log, e)) + (IF x = e THEN 1 ELSE 0)
         /\ \A e : x # e => Cardinality(Positions(Append(log, x), e))
                              = Cardinality(Positions(log, e))
         /\ \A e, f : Precedes(log, e, f) /\ (x = f => Mentions(log, e)) =>
              Precedes(Append(log, x), e, f)
         /\ \A e : Mentions(Append(log, x), e) <=> Mentions(log, e) \/ x = e
<1>1. Append(log, x) \in Seq(Events) /\ Append(log, x) = log \o <<x>>
  BY OneMoreEvent
<1>2. ASSUME NEW e
      PROVE  Cardinality(Positions(Append(log, x), e))
               = Cardinality(Positions(log, e)) + (IF x = e THEN 1 ELSE 0)
  BY OneMoreEvent
<1>3. ASSUME NEW e, x # e
      PROVE  Cardinality(Positions(Append(log, x), e)) = Cardinality(Positions(log, e))
  <2>1. Cardinality(Positions(log, e)) \in Nat
    BY OneMoreEvent
  <2> QED
    BY <1>2, <1>3, <2>1
<1>4. ASSUME NEW e, NEW f, Precedes(log, e, f), x = f => Mentions(log, e)
      PROVE  Precedes(Append(log, x), e, f)
  BY <1>4, OneMoreEvent
<1>5. ASSUME NEW e
      PROVE  Mentions(Append(log, x), e) <=> Mentions(log, e) \/ x = e
  <2>1. <<x>> \in Seq(Events) /\ (Mentions(<<x>>, e) <=> x = e)
    BY ShortLogs
  <2>2. Mentions(log \o <<x>>, e) <=> Mentions(log, e) \/ Mentions(<<x>>, e)
    BY <2>1, OtherEvents
  <2> QED
    BY <1>1, <2>1, <2>2
<1> QED
  BY <1>1, <1>2, <1>3, <1>4, <1>5

\* The events a freeze must precede, and those the budget counts.
Sealed == {"a_observation", "a_gate_outcome", "b_calibration_outcome",
           "b_transfer_outcome", "b_transfer_predictions_frozen"}

FreezesLogged ==
  /\ call.stage = "a_gate" => Mentions(ledger, "a_gate_predictions_frozen")
  /\ calibration # <<>> => Mentions(ledger, "b_calibration_schedule_frozen")
  /\ predictions # <<>> => Mentions(ledger, "b_transfer_predictions_frozen")

UnitsLogged ==
  /\ Logged("a_observation") = Units("a_discovery")
  /\ Logged("b_calibration_outcome") = Units("b_calibration")
  /\ Logged("b_transfer_outcome") = Units("b_transfer")
  /\ gateCharged = AGateBudget <=> Mentions(ledger, "a_gate_budget_charged")
  /\ result # None => result.spent = Spent(obs, gateCharged)

LedgerInv ==
  /\ ledger \in Seq(Events)
  /\ FreezePrecedesOutcomes
  /\ FreezesLogged
  /\ UnitsLogged

\* Logging unsealed events loses nothing that was logged.
LEMMA QuietLog ==
  ASSUME LedgerInv, NEW more \in Seq(Events), ledger' = ledger \o more,
         \A e \in Sealed : ~ Mentions(more, e)
  PROVE  /\ ledger' \in Seq(Events)
         /\ FreezePrecedesOutcomes'
         /\ \A e \in Sealed : Logged(e)' = Logged(e)
         /\ \A e : Mentions(ledger', e) <=> Mentions(ledger, e) \/ Mentions(more, e)
<1>1. ledger \in Seq(Events) /\ FreezePrecedesOutcomes
  BY DEF LedgerInv
<1>2. ledger' \in Seq(Events)
  BY <1>1, LogParts
<1>3. \A e \in Sealed : Positions(ledger', e) = Positions(ledger, e)
  BY <1>1, OtherEvents
<1>4. \A e : Mentions(ledger', e) <=> Mentions(ledger, e) \/ Mentions(more, e)
  BY <1>1, OtherEvents
<1>5. \A e : \A f \in Sealed : Precedes(ledger, e, f) => Precedes(ledger', e, f)
  BY <1>1, OtherEvents
<1>6. FreezePrecedesOutcomes'
  BY <1>1, <1>5 DEF FreezePrecedesOutcomes, Before, Precedes, Sealed
<1>7. \A e \in Sealed : Logged(e)' = Logged(e)
  BY <1>3 DEF Logged, Positions
<1> QED
  BY <1>2, <1>4, <1>6, <1>7

\* What closing a run logs.
LEMMA ClosingLog ==
  ASSUME ledger \in Seq(Events), Closing
  PROVE  \E more \in Seq(Events) :
           /\ ledger' = ledger \o more
           /\ \A e \in Sealed : ~ Mentions(more, e)
           /\ \/ UNCHANGED gateCharged /\ ~ Mentions(more, "a_gate_budget_charged")
              \/ gateCharged' = AGateBudget /\ Mentions(more, "a_gate_budget_charged")
<1> DEFINE closed == "v1_run_closed"
           charge == "a_gate_budget_charged"
<1>1. /\ closed \in Events /\ charge \in Events
      /\ "a_partition_frozen" \in Events /\ "a_gate_adjudicated" \in Events
  BY DEF Events
<1>2. CASE \/ RejectBatchSchema \/ RejectBatchBudget \/ SubmitMalformed \/ SubmitAbstain
           \/ CloseExternalFailure \/ ABatchReusedId
  <2>1. ledger' = ledger \o <<>> \o <<closed>> /\ UNCHANGED gateCharged
    BY <1>2 DEF RejectBatchSchema, RejectBatchBudget, SubmitMalformed, SubmitAbstain,
       CloseExternalFailure, ABatchReusedId, CloseUnscored, Close
  <2>2. ledger \o <<>> = ledger
    BY ConcatEmptySeq
  <2>3. <<closed>> \in Seq(Events) /\ \A e : Mentions(<<closed>>, e) <=> closed = e
    BY <1>1, ShortLogs
  <2> QED
    BY <2>1, <2>2, <2>3 DEF Sealed
<1>3. CASE FailGate
  <2> DEFINE more == <<"a_gate_adjudicated", closed>>
  <2>1. ledger' = ledger \o <<"a_gate_adjudicated">> \o <<closed>> /\ UNCHANGED gateCharged
    BY <1>3 DEF FailGate, CloseUnscored, Close
  <2>2. ledger' = ledger \o more
    BY <1>1, <2>1, LogTogether
  <2>3. more \in Seq(Events)
        /\ \A e : Mentions(more, e) <=> "a_gate_adjudicated" = e \/ closed = e
    BY <1>1, ShortLogs
  <2> HIDE DEF more
  <2> QED
    BY <2>1, <2>2, <2>3 DEF Sealed
<1>4. CASE SubmitIllegalCommit
  <2> DEFINE more == <<charge, closed>>
  <2>1. ledger' = ledger \o <<charge>> \o <<closed>> /\ gateCharged' = AGateBudget
    BY <1>4 DEF SubmitIllegalCommit, CloseUnscored, Close, Charged
  <2>2. ledger' = ledger \o more
    BY <1>1, <2>1, LogTogether
  <2>3. more \in Seq(Events) /\ \A e : Mentions(more, e) <=> charge = e \/ closed = e
    BY <1>1, ShortLogs
  <2> HIDE DEF more
  <2> QED
    BY <2>1, <2>2, <2>3 DEF Sealed
<1>5. CASE SubmitUncovered
  <2> DEFINE more == <<charge, "a_partition_frozen", closed>>
  <2>1. ledger' = ledger \o (<<charge>> \o <<"a_partition_frozen">>) \o <<closed>>
        /\ gateCharged' = AGateBudget
    BY <1>5 DEF SubmitUncovered, CloseUnscored, Close, Charged
  <2>2. <<charge>> \o <<"a_partition_frozen">> = <<charge, "a_partition_frozen">>
    BY <1>1, PairOfEvents
  <2>3. ledger' = ledger \o more
    BY <1>1, <2>1, <2>2, LogTogether
  <2>4. more \in Seq(Events)
        /\ \A e : Mentions(more, e) <=> charge = e \/ "a_partition_frozen" = e \/ closed = e
    <3>1. ASSUME NEW a \in Events, NEW b \in Events, NEW c \in Events
          PROVE  /\ <<a, b, c>> \in Seq(Events)
                 /\ \A e : Mentions(<<a, b, c>>, e) <=> a = e \/ b = e \/ c = e
      BY ShortLogs
    <3> QED
      BY <1>1, <3>1
  <2> HIDE DEF more
  <2>5. \A e \in Sealed : ~ Mentions(more, e)
    BY <2>4 DEF Sealed
  <2>6. Mentions(more, charge)
    BY <2>4
  <2> QED
    BY <2>1, <2>3, <2>4, <2>5, <2>6
<1> QED
  BY <1>2, <1>3, <1>4, <1>5 DEF Closing

\* Logging one unit of a stage.
LEMMA UnitLogged ==
  ASSUME LedgerInv, NEW stage \in Stages, NEW event \in Events,
         ledger' = Append(ledger, event),
         <<stage, event>> \in {<<"a_discovery", "a_observation">>, <<"a_gate", "a_gate_outcome">>,
                               <<"b_calibration", "b_calibration_outcome">>,
                               <<"b_transfer", "b_transfer_outcome">>},
         stage = "a_gate" => Mentions(ledger, "a_gate_predictions_frozen"),
         stage = "b_calibration" => Mentions(ledger, "b_calibration_schedule_frozen"),
         stage = "b_transfer" => Mentions(ledger, "b_transfer_predictions_frozen")
  PROVE  /\ ledger' \in Seq(Events)
         /\ FreezePrecedesOutcomes'
         /\ \A e : Logged(e)' = Logged(e) + (IF event = e THEN 1 ELSE 0)
         /\ \A e : Mentions(ledger', e) <=> Mentions(ledger, e) \/ event = e
<1>1. ledger \in Seq(Events) /\ FreezePrecedesOutcomes
  BY DEF LedgerInv
<1> DEFINE log == ledger
<1>2. /\ Append(log, event) \in Seq(Events)
      /\ \A e : Cardinality(Positions(Append(log, event), e))
                  = Cardinality(Positions(log, e)) + (IF event = e THEN 1 ELSE 0)
      /\ \A e, f : Precedes(log, e, f) /\ (event = f => Mentions(log, e)) =>
           Precedes(Append(log, event), e, f)
      /\ \A e : Mentions(Append(log, event), e) <=> Mentions(log, e) \/ event = e
  BY <1>1, LongerLog
<1>3. \A e : Logged(e)' = Logged(e) + (IF event = e THEN 1 ELSE 0)
  BY <1>2 DEF Logged, Positions
<1>4. /\ event = "a_gate_outcome" => Mentions(ledger, "a_gate_predictions_frozen")
      /\ event = "b_calibration_outcome" => Mentions(ledger, "b_calibration_schedule_frozen")
      /\ event = "b_transfer_outcome" => Mentions(ledger, "b_transfer_predictions_frozen")
      /\ event # "b_transfer_predictions_frozen"
  OBVIOUS
<1>5. /\ Precedes(ledger, "a_gate_predictions_frozen", "a_gate_outcome")
      /\ Precedes(ledger, "b_calibration_schedule_frozen", "b_calibration_outcome")
      /\ Precedes(ledger, "b_lookup_frozen", "b_transfer_predictions_frozen")
      /\ Precedes(ledger, "b_transfer_predictions_frozen", "b_transfer_outcome")
  BY <1>1 DEF FreezePrecedesOutcomes, Before, Precedes
<1>6. /\ Precedes(ledger', "a_gate_predictions_frozen", "a_gate_outcome")
      /\ Precedes(ledger', "b_calibration_schedule_frozen", "b_calibration_outcome")
      /\ Precedes(ledger', "b_lookup_frozen", "b_transfer_predictions_frozen")
      /\ Precedes(ledger', "b_transfer_predictions_frozen", "b_transfer_outcome")
  BY <1>2, <1>4, <1>5
<1>7. FreezePrecedesOutcomes'
  BY <1>6 DEF FreezePrecedesOutcomes, Before, Precedes
<1> QED
  BY <1>2, <1>3, <1>7

LEMMA LedgerInit ==
  Init => LedgerInv
<1> SUFFICES ASSUME Init
             PROVE  LedgerInv
  OBVIOUS
<1>1. "v1_run_opened" \in Events
  BY DEF Events
<1>2. /\ ledger = <<"v1_run_opened">> /\ ledger \in Seq(Events)
      /\ \A e : Mentions(ledger, e) <=> "v1_run_opened" = e
  BY <1>1, ShortLogs DEF Init
<1>3. \A e, f : ~ Mentions(ledger, f) => Precedes(ledger, e, f)
  BY DEF Mentions, Precedes
<1>4. FreezePrecedesOutcomes
  <2>1. /\ Precedes(ledger, "a_gate_predictions_frozen", "a_gate_outcome")
        /\ Precedes(ledger, "b_calibration_schedule_frozen", "b_calibration_outcome")
        /\ Precedes(ledger, "b_lookup_frozen", "b_transfer_predictions_frozen")
        /\ Precedes(ledger, "b_transfer_predictions_frozen", "b_transfer_outcome")
    BY <1>2, <1>3
  <2> QED
    BY <2>1 DEF FreezePrecedesOutcomes, Before, Precedes
<1>5. ASSUME NEW e, ~ Mentions(ledger, e)
      PROVE  Logged(e) = 0
  <2>1. {i \in DOMAIN ledger : ledger[i] = e} = {}
    BY <1>5 DEF Mentions
  <2> QED
    BY <2>1, FS_EmptySet DEF Logged
<1>6. UnitsLogged
  <2>1. /\ Logged("a_observation") = 0 /\ Logged("b_calibration_outcome") = 0
        /\ Logged("b_transfer_outcome") = 0
        /\ ~ Mentions(ledger, "a_gate_budget_charged")
    BY <1>2, <1>5
  <2>2. \A stage \in Stages : Units(stage) = 0
    BY DEF Init, Units
  <2>3. gateCharged # AGateBudget /\ result = None
    BY ProtocolConstants DEF Init
  <2> QED
    BY <2>1, <2>2, <2>3 DEF UnitsLogged, Stages
<1>7. FreezesLogged
  BY DEF Init, Idle, FreezesLogged
<1> QED
  BY <1>2, <1>4, <1>6, <1>7 DEF LedgerInv

LEMMA LedgerStep ==
  TypeInv /\ StageInv /\ LedgerInv /\ [Next]_vars => LedgerInv'
<1> SUFFICES ASSUME TypeInv, StageInv, LedgerInv, [Next]_vars
             PROVE  LedgerInv'
  OBVIOUS
<1> USE DEF StageInv, PhaseOfCall
<1>1. /\ ledger \in Seq(Events) /\ FreezesLogged /\ UnitsLogged
      /\ gateCharged \in {0, AGateBudget}
      /\ AGateBudget # 0
      /\ \A stage \in Stages : Units(stage) \in Nat
  BY UnitTypes, ProtocolConstants DEF LedgerInv
<1>2. ASSUME obs' = obs
      PROVE  /\ \A stage : Units(stage)' = Units(stage)
             /\ gateCharged' = gateCharged =>
                  Spent(obs, gateCharged)' = Spent(obs, gateCharged)
  BY <1>2 DEF Units
<1>3. CASE Closing
  <2>1. PICK more \in Seq(Events) :
          /\ ledger' = ledger \o more
          /\ \A e \in Sealed : ~ Mentions(more, e)
          /\ \/ UNCHANGED gateCharged /\ ~ Mentions(more, "a_gate_budget_charged")
             \/ gateCharged' = AGateBudget /\ Mentions(more, "a_gate_budget_charged")
    BY <1>1, <1>3, ClosingLog
  <2>2. /\ ledger' \in Seq(Events) /\ FreezePrecedesOutcomes'
        /\ \A e \in Sealed : Logged(e)' = Logged(e)
        /\ \A e : Mentions(ledger', e) <=> Mentions(ledger, e) \/ Mentions(more, e)
    BY <2>1, QuietLog
  <2>3. /\ obs' = obs /\ call'.stage = "none" /\ UNCHANGED <<calibration, predictions>>
        /\ result'.spent = Spent(obs, gateCharged')
    BY <1>3, ClosingFacts DEF measured, Idle
  <2>4. FreezesLogged'
    BY <1>1, <2>2, <2>3 DEF FreezesLogged
  <2>5. Spent(obs, gateCharged)' = Spent(obs, gateCharged')
    BY <2>3 DEF Spent
  <2>6. gateCharged' = AGateBudget <=> Mentions(ledger', "a_gate_budget_charged")
    BY <1>1, <2>1, <2>2 DEF UnitsLogged
  <2>7. UnitsLogged'
    BY <1>1, <1>2, <2>2, <2>3, <2>5, <2>6 DEF UnitsLogged, Sealed
  <2> QED
    BY <2>2, <2>4, <2>7 DEF LedgerInv
<1>4. CASE Observing
  <2>1. PICK stage \in Stages, event \in Events :
          /\ Observe(stage, event)
          /\ <<stage, event>> \in {<<"a_discovery", "a_observation">>, <<"a_gate", "a_gate_outcome">>,
                                   <<"b_calibration", "b_calibration_outcome">>,
                                   <<"b_transfer", "b_transfer_outcome">>}
    <3>1. /\ "a_discovery" \in Stages /\ "a_observation" \in Events
          /\ "a_gate" \in Stages /\ "a_gate_outcome" \in Events
          /\ "b_calibration" \in Stages /\ "b_calibration_outcome" \in Events
          /\ "b_transfer" \in Stages /\ "b_transfer_outcome" \in Events
      BY DEF Stages, Events
    <3> QED
      BY <1>4, <3>1 DEF Observing
  <2>2. /\ call.stage = stage /\ call'.stage = stage
        /\ Units(stage)' = Units(stage) + 1
        /\ \A s \in Stages \ {stage} : Units(s)' = Units(s)
        /\ UNCHANGED <<phase, gateCharged, frozen, lookup, result, faults>>
    BY <2>1, ObservedUnits
  <2>3. ledger' = Append(ledger, event)
    BY <2>1 DEF Observe
  <2>4. /\ stage = "a_gate" => Mentions(ledger, "a_gate_predictions_frozen")
        /\ stage = "b_calibration" => Mentions(ledger, "b_calibration_schedule_frozen")
        /\ stage = "b_transfer" => Mentions(ledger, "b_transfer_predictions_frozen")
    BY <1>1, <2>2 DEF FreezesLogged, FrozenByPhase
  <2>5. /\ ledger' \in Seq(Events) /\ FreezePrecedesOutcomes'
        /\ \A e : Logged(e)' = Logged(e) + (IF event = e THEN 1 ELSE 0)
        /\ \A e : Mentions(ledger', e) <=> Mentions(ledger, e) \/ event = e
    BY <2>1, <2>3, <2>4, UnitLogged
  <2>6. FreezesLogged'
    BY <1>1, <2>2, <2>5 DEF FreezesLogged, frozen
  <2>7. result' = None
    BY <2>2 DEF Stages
  <2>8. gateCharged' = AGateBudget <=> Mentions(ledger', "a_gate_budget_charged")
    BY <1>1, <2>1, <2>2, <2>5 DEF UnitsLogged
  <2>9. /\ Logged("a_observation")' = Units("a_discovery")'
        /\ Logged("b_calibration_outcome")' = Units("b_calibration")'
        /\ Logged("b_transfer_outcome")' = Units("b_transfer")'
    <3>1. CASE stage = "a_discovery"
      BY <1>1, <2>1, <2>2, <2>5, <3>1 DEF UnitsLogged, Stages
    <3>2. CASE stage = "b_calibration"
      BY <1>1, <2>1, <2>2, <2>5, <3>2 DEF UnitsLogged, Stages
    <3>3. CASE stage = "b_transfer"
      BY <1>1, <2>1, <2>2, <2>5, <3>3 DEF UnitsLogged, Stages
    <3>4. CASE stage = "a_gate"
      BY <1>1, <2>1, <2>2, <2>5, <3>4 DEF UnitsLogged, Stages
    <3> QED
      BY <3>1, <3>2, <3>3, <3>4 DEF Stages
  <2>10. UnitsLogged'
    BY <2>7, <2>8, <2>9 DEF UnitsLogged
  <2> QED
    BY <2>5, <2>6, <2>10 DEF LedgerInv
<1>5. CASE SubmitCommit
  <2> DEFINE more == <<"a_gate_budget_charged", "a_partition_frozen", "a_gate_predictions_frozen">>
  <2>1. /\ obs' = obs /\ UNCHANGED <<calibration, predictions, result>>
        /\ gateCharged' = AGateBudget /\ phase = "A_DISCOVERY" /\ call'.stage = "a_gate"
        /\ ledger' = ledger \o <<"a_gate_budget_charged">>
                            \o <<"a_partition_frozen", "a_gate_predictions_frozen">>
    BY <1>5 DEF SubmitCommit, CommitOpen, Start, Charged, measured
  <2>2. /\ "a_gate_budget_charged" \in Events /\ "a_partition_frozen" \in Events
        /\ "a_gate_predictions_frozen" \in Events
    BY DEF Events
  <2>3. /\ more \in Seq(Events)
        /\ \A e : Mentions(more, e) <=>
             "a_gate_budget_charged" = e \/ "a_partition_frozen" = e
               \/ "a_gate_predictions_frozen" = e
    <3>1. ASSUME NEW a \in Events, NEW b \in Events, NEW c \in Events
          PROVE  <<a, b, c>> \in Seq(Events)
      OBVIOUS
    <3>2. ASSUME NEW a \in Events, NEW b \in Events, NEW c \in Events, NEW e
          PROVE  Mentions(<<a, b, c>>, e) <=> a = e \/ b = e \/ c = e
      BY ShortLogs
    <3>3. more \in Seq(Events)
      BY <2>2, <3>1, Zenon
    <3>4. ASSUME NEW e
          PROVE  Mentions(more, e) <=>
                   "a_gate_budget_charged" = e \/ "a_partition_frozen" = e
                     \/ "a_gate_predictions_frozen" = e
      BY <2>2, <3>2
    <3> QED
      BY <3>3, <3>4
  <2>4. ledger' = ledger \o more
    <3>1. ledger \o <<"a_gate_budget_charged">> \in Seq(Events)
      BY <1>1, <2>2, ShortLogs, ConcatProperties
    <3>2. ledger' = ledger \o <<"a_gate_budget_charged">> \o <<"a_partition_frozen">>
                      \o <<"a_gate_predictions_frozen">>
      BY <2>1, <2>2, <3>1, LogTogether
    <3>3. ledger \o <<"a_gate_budget_charged">> \o <<"a_partition_frozen">>
            = ledger \o <<"a_gate_budget_charged", "a_partition_frozen">>
      BY <1>1, <2>2, LogTogether
    <3>4. ledger \o <<"a_gate_budget_charged", "a_partition_frozen">>
             \o <<"a_gate_predictions_frozen">> = ledger \o more
      BY <1>1, <2>2, LogTogether
    <3> QED
      BY <3>2, <3>3, <3>4
  <2> HIDE DEF more
  <2>5. /\ ledger' \in Seq(Events) /\ FreezePrecedesOutcomes'
        /\ \A e \in Sealed : Logged(e)' = Logged(e)
        /\ \A e : Mentions(ledger', e) <=> Mentions(ledger, e) \/ Mentions(more, e)
    BY <2>3, <2>4, QuietLog DEF Sealed
  <2>6. FreezesLogged'
    BY <1>1, <2>1, <2>3, <2>5 DEF FreezesLogged
  <2>7. UnitsLogged'
    BY <1>1, <1>2, <2>1, <2>3, <2>5 DEF UnitsLogged, Sealed
  <2> QED
    BY <2>5, <2>6, <2>7 DEF LedgerInv
<1>6. CASE PassGate
  <2> DEFINE more == <<"a_gate_adjudicated", "b_calibration_schedule_frozen">>
  <2>1. /\ obs' = obs /\ UNCHANGED <<predictions, result, gateCharged>>
        /\ call'.stage = "none" /\ ledger' = ledger \o more
    BY <1>6 DEF PassGate, Idle, measured
  <2>2. "a_gate_adjudicated" \in Events /\ "b_calibration_schedule_frozen" \in Events
    BY DEF Events
  <2>3. /\ more \in Seq(Events)
        /\ \A e : Mentions(more, e) <=>
             "a_gate_adjudicated" = e \/ "b_calibration_schedule_frozen" = e
    <3>1. \A a, b \in Events :
            /\ <<a, b>> \in Seq(Events)
            /\ \A e : Mentions(<<a, b>>, e) <=> a = e \/ b = e
      BY ShortLogs
    <3> QED
      BY <2>2, <3>1, Zenon
  <2> HIDE DEF more
  <2>4. /\ ledger' \in Seq(Events) /\ FreezePrecedesOutcomes'
        /\ \A e \in Sealed : Logged(e)' = Logged(e)
        /\ \A e : Mentions(ledger', e) <=> Mentions(ledger, e) \/ Mentions(more, e)
    BY <2>1, <2>3, QuietLog DEF Sealed
  <2>5. FreezesLogged'
    BY <1>1, <2>1, <2>3, <2>4 DEF FreezesLogged
  <2>6. UnitsLogged'
    BY <1>1, <1>2, <2>1, <2>3, <2>4 DEF UnitsLogged, Sealed
  <2> QED
    BY <2>4, <2>5, <2>6 DEF LedgerInv
<1>7. CASE FreezeTransfer
  <2> DEFINE lf == "b_lookup_frozen"
             pf == "b_transfer_predictions_frozen"
             mid == ledger \o <<lf>>
  <2>1. /\ obs' = obs /\ UNCHANGED <<calibration, result, gateCharged>>
        /\ call'.stage = "b_transfer" /\ ledger' = ledger \o <<lf, pf>>
    BY <1>7 DEF FreezeTransfer, Start, TransferFreezes, measured
  <2>2. lf \in Events /\ pf \in Events
    BY DEF Events
  <2>3. ledger' = mid \o <<pf>>
    BY <1>1, <2>1, <2>2, LogTogether
  <2>4. /\ mid = Append(ledger, lf) /\ mid \in Seq(Events)
        /\ \A e : lf # e => Cardinality(Positions(mid, e)) = Cardinality(Positions(ledger, e))
        /\ \A e, f : Precedes(ledger, e, f) /\ (lf = f => Mentions(ledger, e)) =>
             Precedes(mid, e, f)
        /\ \A e : Mentions(mid, e) <=> Mentions(ledger, e) \/ lf = e
    <3> DEFINE log == ledger
    <3>1. Append(log, lf) = mid /\ log \in Seq(Events)
      BY <1>1, <2>2, LongerLog
    <3> HIDE DEF mid, log
    <3>2. /\ Append(log, lf) \in Seq(Events)
          /\ \A e : lf # e =>
               Cardinality(Positions(Append(log, lf), e)) = Cardinality(Positions(log, e))
          /\ \A e, f : Precedes(log, e, f) /\ (lf = f => Mentions(log, e)) =>
               Precedes(Append(log, lf), e, f)
          /\ \A e : Mentions(Append(log, lf), e) <=> Mentions(log, e) \/ lf = e
      BY <2>2, <3>1, LongerLog, Zenon
    <3> QED
      BY <3>1, <3>2, Zenon DEF log
  <2> HIDE DEF mid
  <2>6. /\ ledger' \in Seq(Events)
        /\ \A e : pf # e => Cardinality(Positions(ledger', e)) = Cardinality(Positions(mid, e))
        /\ \A e, f : Precedes(mid, e, f) /\ (pf = f => Mentions(mid, e)) =>
             Precedes(ledger', e, f)
        /\ \A e : Mentions(ledger', e) <=> Mentions(mid, e) \/ pf = e
    <3>1. ledger' = Append(mid, pf)
      BY <2>2, <2>3, <2>4, LongerLog, Zenon
    <3>2. /\ Append(mid, pf) \in Seq(Events)
          /\ \A e : pf # e =>
               Cardinality(Positions(Append(mid, pf), e)) = Cardinality(Positions(mid, e))
          /\ \A e, f : Precedes(mid, e, f) /\ (pf = f => Mentions(mid, e)) =>
               Precedes(Append(mid, pf), e, f)
          /\ \A e : Mentions(Append(mid, pf), e) <=> Mentions(mid, e) \/ pf = e
      BY <2>2, <2>4, LongerLog, Zenon
    <3> QED
      BY <3>1, <3>2, Zenon
  <2>8. FreezePrecedesOutcomes'
    <3>1. /\ Precedes(ledger, "a_gate_predictions_frozen", "a_gate_outcome")
          /\ Precedes(ledger, "b_calibration_schedule_frozen", "b_calibration_outcome")
          /\ Precedes(ledger, lf, pf)
          /\ Precedes(ledger, pf, "b_transfer_outcome")
      BY DEF LedgerInv, FreezePrecedesOutcomes, Before, Precedes
    <3>2. /\ Precedes(mid, "a_gate_predictions_frozen", "a_gate_outcome")
          /\ Precedes(mid, "b_calibration_schedule_frozen", "b_calibration_outcome")
          /\ Precedes(mid, lf, pf)
          /\ Precedes(mid, pf, "b_transfer_outcome")
          /\ Mentions(mid, lf)
      BY <2>4, <3>1
    <3>3. /\ Precedes(ledger', "a_gate_predictions_frozen", "a_gate_outcome")
          /\ Precedes(ledger', "b_calibration_schedule_frozen", "b_calibration_outcome")
          /\ Precedes(ledger', lf, pf)
          /\ Precedes(ledger', pf, "b_transfer_outcome")
      BY <2>6, <3>2
    <3> QED
      BY <3>3 DEF FreezePrecedesOutcomes, Before, Precedes
  <2>9. FreezesLogged'
    BY <1>1, <2>1, <2>4, <2>6 DEF FreezesLogged
  <2>10. \A e : pf # e /\ lf # e => Logged(e)' = Logged(e)
    BY <2>4, <2>6 DEF Logged, Positions
  <2>11. UnitsLogged'
    BY <1>1, <1>2, <2>1, <2>4, <2>6, <2>10 DEF UnitsLogged
  <2> QED
    BY <2>6, <2>8, <2>9, <2>11 DEF LedgerInv
<1>8. CASE ScoreTransfer
  <2>1. /\ ledger' = ledger \o <<>> \o <<"v1_run_closed">> /\ obs' = obs
        /\ UNCHANGED <<gateCharged, calibration, predictions>> /\ call'.stage = "none"
        /\ result'.spent = Spent(obs, gateCharged)
    BY <1>8 DEF ScoreTransfer, Close, Idle, frozen, measured
  <2>2. "v1_run_closed" \in Events
    BY DEF Events
  <2>3. /\ <<"v1_run_closed">> \in Seq(Events)
        /\ \A e : Mentions(<<"v1_run_closed">>, e) <=> "v1_run_closed" = e
    BY <2>2, ShortLogs
  <2>4. ledger' = ledger \o <<"v1_run_closed">>
    BY <1>1, <2>1, ConcatEmptySeq
  <2>5. /\ ledger' \in Seq(Events) /\ FreezePrecedesOutcomes'
        /\ \A e \in Sealed : Logged(e)' = Logged(e)
        /\ \A e : Mentions(ledger', e) <=> Mentions(ledger, e) \/ "v1_run_closed" = e
    BY <2>3, <2>4, QuietLog DEF Sealed
  <2>6. FreezesLogged'
    BY <1>1, <2>1, <2>5 DEF FreezesLogged
  <2>7. UnitsLogged'
    BY <1>1, <1>2, <2>1, <2>5 DEF UnitsLogged, Sealed
  <2> QED
    BY <2>5, <2>6, <2>7 DEF LedgerInv
<1>9. CASE ExecuteABatch \/ ABatchReturn \/ RunB \/ ObserveRaises \/ UNCHANGED vars
  <2>1. /\ UNCHANGED <<obs, ledger, gateCharged, calibration, predictions, result>>
        /\ call'.stage = "a_gate" => call.stage = "a_gate"
    BY <1>9 DEF ExecuteABatch, ABatchReturn, RunB, ObserveRaises, vars, measured, frozen,
       Start, Idle
  <2>2. FreezesLogged' /\ UnitsLogged'
    BY <1>1, <1>2, <2>1 DEF FreezesLogged, UnitsLogged, Logged
  <2>3. FreezePrecedesOutcomes'
    BY <2>1 DEF LedgerInv, FreezePrecedesOutcomes, Before
  <2> QED
    BY <1>1, <2>1, <2>2, <2>3 DEF LedgerInv
<1> QED
  BY <1>3, <1>4, <1>5, <1>6, <1>7, <1>8, <1>9, StepKinds

LEMMA LedgerHolds ==
  Spec => []LedgerInv
BY StageInit, StageStep, TypeInit, TypeStep, LedgerInit, LedgerStep, PTL DEF Spec

\* In the ledger every sealed outcome comes after the freeze of what predicts it,
\* however often observe raises and whatever is submitted in between.
THEOREM FreezesComeFirst == Spec => []FreezePrecedesOutcomes
<1>1. LedgerInv => FreezePrecedesOutcomes
  BY DEF LedgerInv
<1> QED
  BY <1>1, LedgerHolds, PTL

\* The ledger alone accounts for the budget a closed run reports, also when observe
\* raised after a repetition was claimed: such a call is neither logged nor paid.
THEOREM LedgerPays == Spec => []LedgerAccountsForBudget
<1>1. ASSUME TypeInv, LedgerInv
      PROVE  LedgerAccountsForBudget
  <2>1. /\ UnitsLogged /\ ledger \in Seq(Events) /\ gateCharged \in {0, AGateBudget}
        /\ AGateBudget # 0
        /\ Spent(obs, gateCharged) = Units("a_discovery") + gateCharged
                                       + Units("b_calibration") + Units("b_transfer")
    BY <1>1, UnitTypes, SpentAsUnits, ProtocolConstants DEF LedgerInv
  <2> DEFINE charges == Positions(ledger, "a_gate_budget_charged")
  <2>2. IsFiniteSet(charges) /\ Cardinality(charges) \in Nat
    <3>1. "a_gate_budget_charged" \in Events
      BY DEF Events
    <3> QED
      BY <2>1, <3>1, OneMoreEvent
  <2>3. Mentions(ledger, "a_gate_budget_charged") <=> Cardinality(charges) > 0
    <3>1. Mentions(ledger, "a_gate_budget_charged") <=> charges # {}
      BY DEF Mentions, Positions
    <3> HIDE DEF charges
    <3>2. charges # {} <=> Cardinality(charges) # 0
      BY <2>2, FS_EmptySet
    <3> QED
      BY <2>2, <3>1, <3>2
  <2>4. (IF Logged("a_gate_budget_charged") > 0 THEN AGateBudget ELSE 0) = gateCharged
    BY <2>1, <2>3 DEF UnitsLogged, Logged, Positions
  <2> HIDE DEF charges
  <2> QED
    BY <2>1, <2>4 DEF LedgerAccountsForBudget, UnitsLogged
<1>2. TypeInv /\ LedgerInv => LedgerAccountsForBudget
  BY <1>1
<1> QED
  BY <1>2, LedgerHolds, TypeInit, TypeStep, PTL DEF Spec

-------------------------------------------------------------------------------
(* Rows that carry out a plan.                                             *)

\* The row with the outcome ys[i], when the last rows of a list have outcomes ys.
Row(rows, ys, i) == rows[Len(rows) - Len(ys) + i]

\* The last rows are those of the first interventions of the plan, in order.
Executed(rows, plan, ys) ==
  /\ ys \in Seq(Actions) /\ Len(ys) <= Len(rows)
  /\ \A i \in 1 .. Len(ys) :
       /\ Row(rows, ys, i).entity = plan[i].entity
       /\ Row(rows, ys, i).action = plan[i].action
       /\ Row(rows, ys, i).y = ys[i]

LEMMA NothingExecuted ==
  ASSUME NEW rows \in Seq(Observations), NEW plan
  PROVE  Executed(rows, plan, <<>>)
<1>1. <<>> \in Seq(Actions) /\ Len(<<>>) = 0 /\ Len(rows) \in Nat
  BY EmptySeq
<1> QED
  BY <1>1 DEF Executed

\* Performing the next intervention and recording its row extends both lists.
LEMMA ExecutedMore ==
  ASSUME NEW rows \in Seq(Observations), NEW plan, NEW ys, Executed(rows, plan, ys),
         NEW o \in Observations,
         o.entity = plan[Len(ys) + 1].entity, o.action = plan[Len(ys) + 1].action
  PROVE  Executed(Append(rows, o), plan, Append(ys, o.y))
<1> DEFINE more == Append(rows, o)
           zs == Append(ys, o.y)
           m == Len(rows)
           n == Len(ys)
<1>1. ys \in Seq(Actions) /\ o.y \in Actions /\ m \in Nat /\ n \in Nat /\ n <= m
  BY DEF Executed, Observations
<1>2. /\ more \in Seq(Observations) /\ Len(more) = m + 1 /\ more[m + 1] = o
      /\ \A i \in 1 .. m : more[i] = rows[i]
  BY AppendProperties
<1>3. /\ zs \in Seq(Actions) /\ Len(zs) = n + 1 /\ zs[n + 1] = o.y
      /\ \A i \in 1 .. n : zs[i] = ys[i]
  BY <1>1, AppendProperties
<1>4. \A i \in 1 .. n : /\ rows[m - n + i].entity = plan[i].entity
                        /\ rows[m - n + i].action = plan[i].action
                        /\ rows[m - n + i].y = ys[i]
  BY DEF Executed, Row
<1>5. o.entity = plan[n + 1].entity /\ o.action = plan[n + 1].action
  OBVIOUS
<1> HIDE DEF more, zs, m, n
<1>6. ASSUME NEW i \in 1 .. n + 1
      PROVE  /\ Row(more, zs, i).entity = plan[i].entity
             /\ Row(more, zs, i).action = plan[i].action
             /\ Row(more, zs, i).y = zs[i]
  <2>1. CASE i \in 1 .. n
    <3>1. Len(more) - Len(zs) + i = m - n + i /\ m - n + i \in 1 .. m
      BY <1>1, <1>2, <1>3, <2>1
    <3> QED
      BY <1>2, <1>3, <1>4, <2>1, <3>1 DEF Row
  <2>2. CASE i = n + 1
    <3>1. Len(more) - Len(zs) + i = m + 1
      BY <1>1, <1>2, <1>3, <2>2
    <3> QED
      BY <1>2, <1>3, <1>5, <2>2, <3>1 DEF Row
  <2> QED
    BY <1>1, <2>1, <2>2
<1>7. Len(zs) <= Len(more)
  BY <1>1, <1>2, <1>3
<1> QED
  BY <1>3, <1>6, <1>7 DEF Executed, more, zs

\* The last n rows, counted from their first.
LEMMA LastRows ==
  ASSUME NEW rows \in Seq(Observations), NEW n \in Nat, n <= Len(rows)
  PROVE  /\ DOMAIN Last(rows, n) = 1 .. n
         /\ \A i \in 1 .. n : Last(rows, n)[i] = rows[Len(rows) - n + i]
<1> DEFINE m == Len(rows)
<1>1. m \in Nat
  OBVIOUS
<1>2. Last(rows, n) = [i \in 1 .. n |-> rows[m - n + i]]
  <2>1. Last(rows, n) = SubSeq(rows, m - n + 1, m)
    BY DEF Last
  <2>2. SubSeq(rows, m - n + 1, m) = [i \in 1 .. 1 + m - (m - n + 1) |-> rows[i + (m - n + 1) - 1]]
    OBVIOUS
  <2> HIDE DEF m
  <2>3. 1 + m - (m - n + 1) = n /\ \A i \in 1 .. n : i + (m - n + 1) - 1 = m - n + i
    BY <1>1
  <2> QED
    BY <2>1, <2>2, <2>3
<1> QED
  BY <1>2

-------------------------------------------------------------------------------
(* What the broker's lists are evidence of.                                *)

CallEvidence ==
  call.stage \in Stages => Executed(obs[call.stage], call.plan, call.ys)

ScheduleEvidence ==
  /\ calibration # <<>> =>
       /\ Covers(calibration, partition)
       /\ ValidSchedule(calibration, partition, BCalibrationBudget)
  /\ PairsOf(obs["b_calibration"]) \subseteq PairsOf(calibration)

\* What the predictions were frozen from: the calibration outcomes and the slots.
FrozenFrom(ys, slots) ==
  /\ Executed(obs["b_calibration"], calibration, ys) /\ Len(ys) = BCalibrationBudget
  /\ Covers(slots, partition)
  /\ ValidSchedule(slots, partition, BTransferBudget)
  /\ PairsOf(slots) \cap PairsOf(calibration) = {}
  /\ lookup = BLookup(calibration, ys, partition)
  /\ predictions = TransferPredictions(slots, lookup)

TransferEvidence ==
  /\ predictions # <<>> => \E ys, slots : FrozenFrom(ys, slots)
  /\ PairsOf(obs["b_transfer"]) \subseteq PairsOf(predictions)
  /\ phase \in {"A_DISCOVERY", "B_CALIBRATION"} => Len(obs["b_transfer"]) = 0
  /\ call.stage = "b_transfer" => Len(obs["b_transfer"]) = Len(call.ys)

Completed == result # None /\ result.outcome = "completed"

ScoreEvidence ==
  Completed =>
    /\ predictions # <<>>
    /\ result.total = BTransferBudget
    /\ \E ys : /\ Executed(obs["b_transfer"], predictions, ys)
               /\ Len(ys) = BTransferBudget /\ Len(obs["b_transfer"]) = BTransferBudget
               /\ result.correct = Score(predictions, ys)

EvidenceInv ==
  /\ CallEvidence
  /\ BBehindPerfectGate
  /\ ScheduleEvidence
  /\ TransferEvidence
  /\ ScoreEvidence

LEMMA EvidenceInit ==
  Init => EvidenceInv
<1> SUFFICES ASSUME Init
             PROVE  EvidenceInv
  OBVIOUS
<1>1. /\ calibration = <<>> /\ predictions = <<>> /\ result = None /\ call.stage = "none"
      /\ \A stage \in Stages : obs[stage] = <<>>
  BY DEF Init, Idle
<1>2. PairsOf(<<>>) = {} /\ Len(<<>>) = 0
  BY EmptySeq DEF PairsOf
<1>3. obs["b_calibration"] = <<>> /\ obs["b_transfer"] = <<>>
  BY <1>1 DEF Stages
<1> QED
  BY <1>1, <1>2, <1>3 DEF EvidenceInv, CallEvidence, BBehindPerfectGate, ScheduleEvidence,
     TransferEvidence, ScoreEvidence, Completed, Stages

-------------------------------------------------------------------------------
(* One step of the broker.                                                 *)

\* A loop step adds one row: the intervention its plan prescribes next, with the
\* outcome the call remembers.
LEMMA ObservedRow ==
  ASSUME TypeInv, NEW stage \in Stages, NEW event, Observe(stage, event)
  PROVE  \E o \in Observations :
           /\ obs'[stage] = Append(obs[stage], o)
           /\ o.entity = call.plan[Len(call.ys) + 1].entity
           /\ o.action = call.plan[Len(call.ys) + 1].action
           /\ call'.ys = Append(call.ys, o.y)
<1>1. PICK y \in Actions :
        /\ obs' = [obs EXCEPT ![stage] =
                     Append(@, [entity |-> Current.entity, action |-> Current.action,
                                rep |-> reps[RepKey(stage)], y |-> y])]
        /\ call' = [call EXCEPT !.ys = Append(@, y)]
  BY DEF Observe
<1> DEFINE o == [entity |-> Current.entity, action |-> Current.action,
                 rep |-> reps[RepKey(stage)], y |-> y]
<1>2. TypeOK /\ Running(stage)
  BY DEF TypeInv, Observe
<1>3. o \in Observations /\ o.entity = Current.entity /\ o.action = Current.action /\ o.y = y
  BY <1>2, RunningTypes DEF Observations
<1>4. obs \in [Stages -> Seq(Observations)]
  BY <1>2 DEF TypeOK
<1> HIDE DEF o
<1>5. obs'[stage] = Append(obs[stage], o)
  BY <1>1, <1>4 DEF o
<1>6. call'.ys = Append(call.ys, y)
  BY <1>1 DEF TypeInv, CallInv
<1> QED
  BY <1>3, <1>5, <1>6 DEF Current

\* Which lists a step leaves alone once they are sealed.
LEMMA SealedLists ==
  ASSUME TypeInv, StageInv, [Next]_vars
  PROVE  /\ Observing \/ obs' = obs
         /\ calibration # <<>> => obs'["a_gate"] = obs["a_gate"]
         /\ predictions # <<>> => obs'["b_calibration"] = obs["b_calibration"]
         /\ phase = "CLOSED" => obs' = obs /\ result' = result
<1> USE DEF StageInv, PhaseOfCall, FrozenByPhase
<1>1. CASE Observing
  <2>1. PICK stage \in Stages : \E event : Observe(stage, event)
    BY <1>1, ObservingFacts
  <2>2. /\ call.stage = stage
        /\ \A s \in Stages \ {stage} : obs'[s] = obs[s]
    BY <2>1, ObservedPair
  <2>3. /\ calibration # <<>> => stage # "a_gate"
        /\ predictions # <<>> => stage # "b_calibration"
        /\ phase # "CLOSED"
    BY <2>2 DEF Stages
  <2> QED
    BY <1>1, <2>2, <2>3 DEF Stages
<1>2. CASE Closing
  <2>1. phase # "CLOSED" /\ obs' = obs
    BY <1>2, ClosingFrom, ClosingFacts DEF measured
  <2> QED
    BY <2>1
<1>3. CASE ExecuteABatch \/ ABatchReturn \/ SubmitCommit \/ PassGate \/ RunB
           \/ FreezeTransfer \/ ScoreTransfer
  <2>1. obs' = obs
    BY <1>3 DEF ExecuteABatch, ABatchReturn, SubmitCommit, PassGate, RunB, FreezeTransfer,
       ScoreTransfer, measured
  <2>2. phase # "CLOSED"
    BY <1>3 DEF ExecuteABatch, DiscoveryOpen, ABatchReturn, SubmitCommit, CommitOpen, PassGate,
       RunB, FreezeTransfer, ScoreTransfer, Finished
  <2> QED
    BY <2>1, <2>2
<1>4. CASE ObserveRaises
  BY <1>4 DEF ObserveRaises
<1>5. CASE UNCHANGED vars
  BY <1>5 DEF vars, measured
<1> QED
  BY <1>1, <1>2, <1>3, <1>4, <1>5, StepKinds

LEMMA CallEvidenceStep ==
  ASSUME TypeInv, StageInv, CallEvidence, [Next]_vars
  PROVE  CallEvidence'
<1>1. CASE Closing
  BY <1>1, ClosingFacts DEF Idle, CallEvidence, Stages
<1>2. CASE Observing
  <2>1. PICK stage \in Stages : \E event : Observe(stage, event)
    BY <1>2, ObservingFacts
  <2>2. call.stage = stage /\ call'.stage = stage /\ call'.plan = call.plan
    BY <2>1, ObservedPair
  <2>3. PICK o \in Observations :
          /\ obs'[stage] = Append(obs[stage], o)
          /\ o.entity = call.plan[Len(call.ys) + 1].entity
          /\ o.action = call.plan[Len(call.ys) + 1].action
          /\ call'.ys = Append(call.ys, o.y)
    BY <2>1, ObservedRow
  <2>4. Executed(obs[stage], call.plan, call.ys) /\ obs[stage] \in Seq(Observations)
    BY <2>2, UnitTypes DEF CallEvidence
  <2>5. Executed(obs'[stage], call.plan, call'.ys)
    BY <2>3, <2>4, ExecutedMore
  <2> QED
    BY <2>2, <2>5 DEF CallEvidence
<1>3. CASE ExecuteABatch \/ SubmitCommit \/ RunB \/ FreezeTransfer
  <2>1. obs' = obs /\ call'.ys = <<>>
    BY <1>3 DEF ExecuteABatch, SubmitCommit, RunB, FreezeTransfer, Start, measured
  <2> QED
    BY <2>1, UnitTypes, NothingExecuted DEF CallEvidence
<1>4. CASE ABatchReturn \/ PassGate \/ ScoreTransfer \/ ObserveRaises
  <2>1. call' = Idle
    BY <1>4 DEF ABatchReturn, PassGate, ScoreTransfer, Close, ObserveRaises
  <2> QED
    BY <2>1 DEF CallEvidence, Idle, Stages
<1>5. CASE UNCHANGED vars
  BY <1>5 DEF vars, measured, CallEvidence
<1> QED
  BY <1>1, <1>2, <1>3, <1>4, <1>5, StepKinds

\* The hits of a plan with as many challenges are all its challenges only if every
\* outcome is the predicted one.
LEMMA EveryHit ==
  ASSUME NEW c, Len(c.plan) = AGateBudget, c.plan \in Seq(Challenges), GatePassed(c)
  PROVE  \A i \in 1 .. AGateBudget : c.ys[i] = c.plan[i].predicted
<1> DEFINE all == 1 .. AGateBudget
           hits == {i \in DOMAIN c.plan : c.ys[i] = c.plan[i].predicted}
<1>1. DOMAIN c.plan = all /\ AGateBudget \in Nat
  BY ConstantTypes
<1>2. IsFiniteSet(all) /\ Cardinality(all) = AGateBudget
  BY <1>1, FS_Interval
<1>3. hits \in SUBSET all /\ Cardinality(hits) = AGateBudget
  BY <1>1 DEF GatePassed, GateHits
<1>4. hits = all
  BY <1>2, <1>3, FS_Subset
<1> QED
  BY <1>4

LEMMA GateEvidenceStep ==
  ASSUME TypeInv, StageInv, CallEvidence, BBehindPerfectGate, [Next]_vars
  PROVE  BBehindPerfectGate'
<1>1. CASE calibration # <<>>
  <2>1. /\ UNCHANGED <<partition, challenges, calibration>>
        /\ obs'["a_gate"] = obs["a_gate"]
    BY <1>1, FreezeStep, SealedLists
  <2> QED
    BY <1>1, <2>1 DEF BBehindPerfectGate
<1>2. CASE calibration = <<>> /\ calibration' # <<>>
  <2>1. PassGate
    <3>1. calibration' # calibration
      BY <1>2
    <3>2. ~ Closing /\ ~ Observing
      BY <3>1, ClosingFacts, ObservingFacts DEF frozen
    <3> QED
      BY <3>1, <3>2, StepKinds DEF ExecuteABatch, ABatchReturn, SubmitCommit, RunB,
         FreezeTransfer, ScoreTransfer, ObserveRaises, vars, frozen
  <2>2. /\ call.stage = "a_gate" /\ Len(call.ys) = Len(call.plan) /\ GatePassed(call)
        /\ UNCHANGED <<partition, challenges, obs>>
    BY <2>1 DEF PassGate, Finished, measured
  <2>3. call.plan = challenges /\ Len(challenges) = AGateBudget
    BY <2>2 DEF StageInv, PlanOfCall
  <2>4. partition \in Partitions /\ challenges \in Seq(Challenges)
    BY <2>2 DEF TypeInv, TypeOK, CallInv
  <2>5. partition # None
    BY <2>4, NoneIsNoPartition
  <2>6. \A i \in 1 .. AGateBudget : call.ys[i] = challenges[i].predicted
    BY <2>2, <2>3, <2>4, EveryHit
  <2> DEFINE rows == obs["a_gate"]
             ys == call.ys
  <2>7. Executed(rows, challenges, ys) /\ rows \in Seq(Observations) /\ Len(ys) = AGateBudget
    BY <2>2, <2>3, UnitTypes DEF CallEvidence, Stages
  <2> HIDE DEF rows, ys
  <2>8. AGateBudget \in Nat /\ AGateBudget <= Len(rows)
    BY <2>7, ConstantTypes DEF Executed
  <2>9. \A i \in 1 .. AGateBudget :
          /\ Last(rows, AGateBudget)[i].entity = challenges[i].entity
          /\ Last(rows, AGateBudget)[i].action = challenges[i].action
          /\ Last(rows, AGateBudget)[i].y = ys[i]
    BY <2>7, <2>8, LastRows DEF Executed, Row
  <2> QED
    BY <2>2, <2>5, <2>6, <2>8, <2>9 DEF BBehindPerfectGate, rows, ys
<1>3. CASE calibration' = <<>>
  BY <1>3 DEF BBehindPerfectGate
<1> QED
  BY <1>1, <1>2, <1>3

\* Only a passed gate freezes a calibration schedule.
LEMMA OnlyPassGateCalibrates ==
  ASSUME [Next]_vars, TypeInv, calibration' # calibration
  PROVE  PassGate
<1>1. ~ Closing /\ ~ Observing
  BY ClosingFacts, ObservingFacts DEF frozen
<1> QED
  BY <1>1, StepKinds DEF ExecuteABatch, ABatchReturn, SubmitCommit, RunB,
     FreezeTransfer, ScoreTransfer, ObserveRaises, vars, frozen

\* Only the end of calibration freezes predictions.
LEMMA OnlyFreezeTransferPredicts ==
  ASSUME [Next]_vars, TypeInv, predictions' # predictions
  PROVE  FreezeTransfer
<1>1. ~ Closing /\ ~ Observing
  BY ClosingFacts, ObservingFacts DEF frozen
<1> QED
  BY <1>1, StepKinds DEF ExecuteABatch, ABatchReturn, SubmitCommit, RunB,
     PassGate, ScoreTransfer, ObserveRaises, vars, frozen

\* A list grows only by pairs of the plan that the running call carries out.
LEMMA PairsGrow ==
  ASSUME TypeInv, [Next]_vars, NEW stage \in Stages,
         Observing \/ obs' = obs
  PROVE  \/ obs'[stage] = obs[stage]
         \/ /\ call.stage = stage /\ Observing
            /\ PairsOf(obs'[stage]) \subseteq PairsOf(obs[stage]) \cup PairsOf(call.plan)
<1>1. CASE Observing
  <2>1. PICK s \in Stages : \E event : Observe(s, event)
    BY <1>1, ObservingFacts
  <2>2. /\ call.stage = s
        /\ PairsOf(obs'[s]) \subseteq PairsOf(obs[s]) \cup PairsOf(call.plan)
        /\ \A t \in Stages \ {s} : obs'[t] = obs[t]
    BY <2>1, ObservedPair
  <2> QED
    BY <1>1, <2>2
<1> QED
  BY <1>1

LEMMA ScheduleEvidenceStep ==
  ASSUME TypeInv, StageInv, ScheduleEvidence, [Next]_vars
  PROVE  ScheduleEvidence'
<1>1. ASSUME calibration' # <<>>
      PROVE  /\ Covers(calibration', partition')
             /\ ValidSchedule(calibration', partition', BCalibrationBudget)
  <2>1. CASE calibration # <<>>
    BY <2>1, FreezeStep DEF ScheduleEvidence
  <2>2. CASE calibration = <<>>
    <3>1. PassGate
      BY <1>1, <2>2, OnlyPassGateCalibrates
    <3>2. /\ call.stage = "a_gate" /\ partition' = partition
          /\ calibration' = CalibrationSchedule(partition)
          /\ ValidSchedule(calibration', partition, BCalibrationBudget)
      BY <3>1 DEF PassGate, Finished
    <3>3. partition \in Partitions
      BY <3>2 DEF TypeInv, CallInv
    <3> QED
      BY <3>2, <3>3, CalibrationCovers
  <2> QED
    BY <2>1, <2>2
<1>2. PairsOf(obs'["b_calibration"]) \subseteq PairsOf(calibration')
  <2>1. "b_calibration" \in Stages
    BY DEF Stages
  <2>2. PairsOf(<<>>) = {}
    BY DEF PairsOf
  <2>3. PairsOf(obs["b_calibration"]) \subseteq PairsOf(calibration')
    <3>1. calibration # <<>> => calibration' = calibration
      BY FreezeStep
    <3> QED
      BY <2>2, <3>1 DEF ScheduleEvidence
  <2>4. CASE obs'["b_calibration"] = obs["b_calibration"]
    BY <2>3, <2>4
  <2>5. CASE /\ call.stage = "b_calibration" /\ Observing
             /\ PairsOf(obs'["b_calibration"])
                  \subseteq PairsOf(obs["b_calibration"]) \cup PairsOf(call.plan)
    <3>1. call.plan = calibration
      BY <2>5 DEF TypeInv, CallInv
    <3>2. calibration' = calibration
      BY <2>5, ObservingFacts DEF frozen
    <3> QED
      BY <2>3, <2>5, <3>1, <3>2
  <2> QED
    BY <2>1, <2>4, <2>5, PairsGrow, SealedLists
<1> QED
  BY <1>1, <1>2 DEF ScheduleEvidence

LEMMA TransferEvidenceStep ==
  ASSUME TypeInv, StageInv, CallEvidence, ScheduleEvidence, TransferEvidence, [Next]_vars
  PROVE  TransferEvidence'
<1>1. ASSUME predictions' # <<>>
      PROVE  (\E ys, slots : FrozenFrom(ys, slots))'
  <2>1. CASE predictions # <<>>
    <3>1. PICK ys, slots : FrozenFrom(ys, slots)
      BY <2>1 DEF TransferEvidence
    <3>2. calibration # <<>>
      BY <2>1 DEF StageInv, FrozenByPhase
    <3>3. /\ UNCHANGED <<partition, calibration, predictions, lookup>>
          /\ obs'["b_calibration"] = obs["b_calibration"]
      BY <2>1, <3>2, FreezeStep, SealedLists
    <3>4. FrozenFrom(ys, slots)'
      BY <3>1, <3>3 DEF FrozenFrom
    <3> QED
      BY <3>4
  <2>2. CASE predictions = <<>>
    <3>1. FreezeTransfer
      BY <1>1, <2>2, OnlyFreezeTransferPredicts
    <3>2. /\ call.stage = "b_calibration" /\ Len(call.ys) = Len(call.plan)
          /\ UNCHANGED <<partition, calibration, obs>>
          /\ lookup' = BLookup(calibration, call.ys, partition)
          /\ \A c \in CellsOf(partition) : RemainingMembers(partition, calibration, c) # {}
      BY <3>1 DEF FreezeTransfer, Finished, measured
    <3> PICK ys, slots : ys = call.ys /\ slots = TransferSchedule(partition, calibration)
      OBVIOUS
    <3>3. /\ ValidSchedule(slots, partition, BTransferBudget)
          /\ PairsOf(slots) \cap PairsOf(calibration) = {}
          /\ predictions' = TransferPredictions(slots, lookup')
      BY <3>1 DEF FreezeTransfer
    <3>4. /\ call.plan = calibration /\ partition \in Partitions
          /\ Len(calibration) = BCalibrationBudget
      BY <3>2 DEF TypeInv, CallInv, StageInv, PhaseOfCall, FrozenByPhase
    <3>5. Covers(slots, partition)
      BY <3>2, <3>4, TransferCovers
    <3>6. Executed(obs["b_calibration"], calibration, call.ys)
      BY <3>2, <3>4 DEF CallEvidence, Stages
    <3>7. FrozenFrom(ys, slots)'
      BY <3>2, <3>3, <3>4, <3>5, <3>6 DEF FrozenFrom
    <3> QED
      BY <3>7
  <2> QED
    BY <2>1, <2>2
<1>2. PairsOf(obs'["b_transfer"]) \subseteq PairsOf(predictions')
  <2>1. "b_transfer" \in Stages
    BY DEF Stages
  <2>2. PairsOf(<<>>) = {}
    BY DEF PairsOf
  <2>3. PairsOf(obs["b_transfer"]) \subseteq PairsOf(predictions')
    <3>1. predictions # <<>> => predictions' = predictions
      BY FreezeStep
    <3> QED
      BY <2>2, <3>1 DEF TransferEvidence
  <2>4. CASE obs'["b_transfer"] = obs["b_transfer"]
    BY <2>3, <2>4
  <2>5. CASE /\ call.stage = "b_transfer" /\ Observing
             /\ PairsOf(obs'["b_transfer"])
                  \subseteq PairsOf(obs["b_transfer"]) \cup PairsOf(call.plan)
    <3>1. call.plan = predictions
      BY <2>5 DEF StageInv, PlanOfCall
    <3>2. predictions' = predictions
      BY <2>5, ObservingFacts DEF frozen
    <3> QED
      BY <2>3, <2>5, <3>1, <3>2
  <2> QED
    BY <2>1, <2>4, <2>5, PairsGrow, SealedLists
<1>3. /\ phase' \in {"A_DISCOVERY", "B_CALIBRATION"} => Len(obs'["b_transfer"]) = 0
      /\ call'.stage = "b_transfer" => Len(obs'["b_transfer"]) = Len(call'.ys)
  <2> USE DEF TransferEvidence, StageInv, PhaseOfCall
  <2>1. CASE Observing
    <3>1. PICK stage \in Stages : \E event : Observe(stage, event)
      BY <2>1, ObservingFacts
    <3>2. /\ call.stage = stage /\ call'.stage = stage /\ phase' = phase
          /\ Len(obs'[stage]) = Len(obs[stage]) + 1 /\ Len(call'.ys) = Len(call.ys) + 1
          /\ \A s \in Stages \ {stage} : obs'[s] = obs[s]
      BY <2>1, <3>1, ObservedPair, ObservingFacts
    <3> QED
      BY <3>2 DEF Stages
  <2>2. CASE Closing
    BY <2>2, ClosingFacts DEF Idle
  <2>3. CASE ExecuteABatch \/ SubmitCommit \/ RunB \/ ABatchReturn
    <3>1. obs' = obs /\ phase' = phase /\ call'.stage # "b_transfer"
      BY <2>3 DEF ExecuteABatch, SubmitCommit, RunB, ABatchReturn, Start, Idle, measured
    <3> QED
      BY <3>1
  <2>4. CASE PassGate
    <3>1. obs' = obs /\ call'.stage = "none" /\ call.stage = "a_gate"
      BY <2>4 DEF PassGate, Finished, Idle, measured
    <3> QED
      BY <3>1
  <2>5. CASE FreezeTransfer
    <3>1. obs' = obs /\ call'.ys = <<>> /\ call.stage = "b_calibration" /\ phase' = "B_TRANSFER"
      BY <2>5 DEF FreezeTransfer, Finished, Start, measured
    <3>2. Len(<<>>) = 0
      BY EmptySeq
    <3> QED
      BY <3>1, <3>2
  <2>6. CASE ScoreTransfer
    <3>1. phase' = "CLOSED" /\ call'.stage = "none"
      BY <2>6 DEF ScoreTransfer, Close, Idle
    <3> QED
      BY <3>1
  <2>7. CASE ObserveRaises
    <3>1. obs' = obs /\ phase' = phase /\ call'.stage = "none"
      BY <2>7 DEF ObserveRaises, Idle
    <3> QED
      BY <3>1
  <2>8. CASE UNCHANGED vars
    BY <2>8 DEF vars, measured
  <2> QED
    BY <2>1, <2>2, <2>3, <2>4, <2>5, <2>6, <2>7, <2>8, StepKinds
<1> QED
  BY <1>1, <1>2, <1>3 DEF TransferEvidence

LEMMA ScoreEvidenceStep ==
  ASSUME TypeInv, StageInv, CallEvidence, TransferEvidence, ScoreEvidence, [Next]_vars
  PROVE  ScoreEvidence'
<1> SUFFICES ASSUME Completed'
             PROVE  /\ predictions' # <<>>
                    /\ result'.total = BTransferBudget
                    /\ \E ys : /\ Executed(obs'["b_transfer"], predictions', ys)
                               /\ Len(ys) = BTransferBudget
                               /\ Len(obs'["b_transfer"]) = BTransferBudget
                               /\ result'.correct = Score(predictions', ys)
  BY DEF ScoreEvidence
<1>1. CASE phase = "CLOSED"
  <2>1. obs' = obs /\ result' = result
    BY <1>1, SealedLists
  <2>2. Completed
    BY <2>1 DEF Completed
  <2>3. predictions' = predictions
    BY <2>2, FreezeStep DEF ScoreEvidence
  <2> QED
    BY <2>1, <2>2, <2>3 DEF ScoreEvidence
<1>2. CASE phase # "CLOSED"
  <2>1. result = None /\ result' # result
    BY <1>2 DEF StageInv, Completed
  <2>2. ScoreTransfer
    <3>1. ~ Closing /\ ~ Observing
      BY <2>1, ClosingFacts, ObservingFacts DEF Completed
    <3> QED
      BY <2>1, <3>1, StepKinds DEF ExecuteABatch, ABatchReturn, SubmitCommit, RunB,
         FreezeTransfer, PassGate, ObserveRaises, vars
  <2>3. /\ call.stage = "b_transfer" /\ Len(call.ys) = Len(call.plan)
        /\ UNCHANGED <<obs, predictions>>
        /\ result'.correct = Score(predictions, call.ys) /\ result'.total = Len(predictions)
    BY <2>2 DEF ScoreTransfer, Finished, Close, measured, frozen
  <2>4. call.plan = predictions /\ predictions # <<>> /\ Len(predictions) = BTransferBudget
    BY <2>3 DEF StageInv, PhaseOfCall, PlanOfCall, FrozenByPhase
  <2>5. Executed(obs["b_transfer"], predictions, call.ys)
    BY <2>3, <2>4 DEF CallEvidence, Stages
  <2>6. Len(obs["b_transfer"]) = Len(call.ys)
    BY <2>3 DEF TransferEvidence
  <2> QED
    BY <2>3, <2>4, <2>5, <2>6
<1> QED
  BY <1>1, <1>2

LEMMA EvidenceHolds ==
  Spec => [](TypeInv /\ StageInv /\ EvidenceInv)
<1>1. TypeInv /\ StageInv /\ EvidenceInv /\ [Next]_vars => EvidenceInv'
  BY CallEvidenceStep, GateEvidenceStep, ScheduleEvidenceStep, TransferEvidenceStep,
     ScoreEvidenceStep DEF EvidenceInv
<1> QED
  BY <1>1, EvidenceInit, StagesHold, PTL DEF Spec

-------------------------------------------------------------------------------
(* What the evidence shows.                                                *)

\* Carrying out a schedule that covers a partition measures every cell of it.
LEMMA CoverageMeasured ==
  ASSUME NEW p, NEW n \in Nat, NEW slots, DOMAIN slots = 1 .. n,
         Covers(slots, p), ValidSchedule(slots, p, n),
         NEW plan, \A i \in 1 .. n : /\ plan[i].entity = slots[i].entity
                                     /\ plan[i].action = slots[i].action,
         NEW rows \in Seq(Observations), NEW ys, Executed(rows, plan, ys), Len(ys) = n
  PROVE  \A g \in GroupsOf(p), a \in Actions :
           \E e \in MembersOf(p, g) : <<e, a>> \in PairsOf(rows)
<1> SUFFICES ASSUME NEW g \in GroupsOf(p), NEW a \in Actions
             PROVE  \E e \in MembersOf(p, g) : <<e, a>> \in PairsOf(rows)
  OBVIOUS
<1>1. PICK i \in 1 .. n : slots[i].group = g /\ slots[i].action = a
  BY DEF Covers
<1>2. slots[i].entity \in MembersOf(p, g)
  BY <1>1 DEF ValidSchedule, MembersOf
<1> DEFINE k == Len(rows) - n + i
<1>3. Len(rows) \in Nat /\ n <= Len(rows)
  BY DEF Executed
<1>4. k \in DOMAIN rows
  BY <1>3
<1>5. rows[k].entity = slots[i].entity /\ rows[k].action = a
  BY <1>1 DEF Executed, Row
<1> HIDE DEF k
<1>6. <<slots[i].entity, a>> \in PairsOf(rows)
  BY <1>4, <1>5 DEF PairsOf
<1> QED
  BY <1>2, <1>6

\* The predictions keep the pairs of their slots.
LEMMA PredictionsOfSlots ==
  ASSUME TypeInv, StageInv, predictions # <<>>, NEW ys, NEW slots, FrozenFrom(ys, slots)
  PROVE  /\ DOMAIN slots = 1 .. BTransferBudget /\ DOMAIN predictions = 1 .. BTransferBudget
         /\ BTransferBudget \in Nat
         /\ \A i \in 1 .. BTransferBudget :
              /\ predictions[i].entity = slots[i].entity
              /\ predictions[i].action = slots[i].action
              /\ LET cell == lookup[CellOf(slots[i].group, slots[i].action)]
                 IN  /\ predictions[i].status = cell.status
                     /\ cell.status = "defined" => predictions[i].predicted = cell.predicted
         /\ PairsOf(predictions) = PairsOf(slots)
<1>1. Len(predictions) = BTransferBudget /\ predictions \in Seq(Predictions)
  BY DEF StageInv, FrozenByPhase, TypeInv, TypeOK
<1>2. DOMAIN predictions = 1 .. BTransferBudget
  BY <1>1
<1>3. predictions = TransferPredictions(slots, lookup)
  BY DEF FrozenFrom
<1>4. DOMAIN predictions = DOMAIN slots
  BY <1>3 DEF TransferPredictions
<1>5. \A i \in DOMAIN slots :
        predictions[i] =
          LET cell == lookup[CellOf(slots[i].group, slots[i].action)]
          IN  [entity |-> slots[i].entity, action |-> slots[i].action,
               group |-> slots[i].group, status |-> cell.status,
               predicted |-> IF cell.status = "defined" THEN cell.predicted ELSE None]
  BY <1>3 DEF TransferPredictions
<1>6. \A i \in 1 .. BTransferBudget :
        /\ predictions[i].entity = slots[i].entity
        /\ predictions[i].action = slots[i].action
        /\ LET cell == lookup[CellOf(slots[i].group, slots[i].action)]
           IN  /\ predictions[i].status = cell.status
               /\ cell.status = "defined" => predictions[i].predicted = cell.predicted
  <2> SUFFICES ASSUME NEW i \in DOMAIN slots
               PROVE  /\ predictions[i].entity = slots[i].entity
                      /\ predictions[i].action = slots[i].action
                      /\ LET cell == lookup[CellOf(slots[i].group, slots[i].action)]
                         IN  /\ predictions[i].status = cell.status
                             /\ cell.status = "defined" => predictions[i].predicted = cell.predicted
    BY <1>2, <1>4
  <2> DEFINE cell == lookup[CellOf(slots[i].group, slots[i].action)]
  <2>1. predictions[i] =
          [entity |-> slots[i].entity, action |-> slots[i].action,
           group |-> slots[i].group, status |-> cell.status,
           predicted |-> IF cell.status = "defined" THEN cell.predicted ELSE None]
    BY <1>5
  <2> HIDE DEF cell
  <2>2. /\ predictions[i].entity = slots[i].entity
        /\ predictions[i].action = slots[i].action
        /\ predictions[i].status = cell.status
        /\ cell.status = "defined" => predictions[i].predicted = cell.predicted
    BY <2>1
  <2> QED
    BY <2>2 DEF cell
<1>7. PairsOf(predictions) = PairsOf(slots)
  BY <1>2, <1>4, <1>6 DEF PairsOf
<1> QED
  BY <1>2, <1>4, <1>6, <1>7, ConstantTypes

LEMMA EvidenceOutOfSample ==
  ASSUME TypeInv, StageInv, EvidenceInv
  PROVE  TransferIsOutOfSample
<1> USE DEF EvidenceInv
<1>1. /\ obs["b_calibration"] \in Seq(Observations) /\ obs["b_transfer"] \in Seq(Observations)
      /\ BCalibrationBudget \in Nat
  BY UnitTypes, ConstantTypes DEF Stages
<1>2. PairsOf(obs["b_calibration"]) \cap PairsOf(obs["b_transfer"]) = {}
  <2>1. CASE predictions = <<>>
    BY <2>1 DEF TransferEvidence, PairsOf
  <2>2. CASE predictions # <<>>
    <3>1. PICK ys, slots : FrozenFrom(ys, slots)
      BY <2>2 DEF TransferEvidence
    <3>2. PairsOf(predictions) = PairsOf(slots)
      BY <2>2, <3>1, PredictionsOfSlots
    <3>3. /\ PairsOf(obs["b_calibration"]) \subseteq PairsOf(calibration)
          /\ PairsOf(obs["b_transfer"]) \subseteq PairsOf(predictions)
          /\ PairsOf(slots) \cap PairsOf(calibration) = {}
      BY <3>1 DEF ScheduleEvidence, TransferEvidence, FrozenFrom
    <3> QED
      BY <3>2, <3>3
  <2> QED
    BY <2>1, <2>2
<1>3. ASSUME Completed
      PROVE  \A g \in GroupsOf(partition), a \in Actions, s \in {"b_calibration", "b_transfer"} :
               \E e \in MembersOf(partition, g) : <<e, a>> \in PairsOf(obs[s])
  <2>1. PICK zs : /\ Executed(obs["b_transfer"], predictions, zs)
                  /\ Len(zs) = BTransferBudget /\ predictions # <<>>
    BY <1>3 DEF ScoreEvidence
  <2>2. PICK ys, slots : FrozenFrom(ys, slots)
    BY <2>1 DEF TransferEvidence
  <2>3. calibration # <<>> /\ Len(calibration) = BCalibrationBudget
    BY <2>1 DEF StageInv, FrozenByPhase
  <2>4. /\ Covers(calibration, partition)
        /\ ValidSchedule(calibration, partition, BCalibrationBudget)
        /\ Executed(obs["b_calibration"], calibration, ys) /\ Len(ys) = BCalibrationBudget
        /\ Covers(slots, partition) /\ ValidSchedule(slots, partition, BTransferBudget)
    BY <2>2, <2>3 DEF ScheduleEvidence, FrozenFrom
  <2>5. DOMAIN calibration = 1 .. BCalibrationBudget
    BY <2>3 DEF TypeInv, TypeOK
  <2>6. \A g \in GroupsOf(partition), a \in Actions :
          \E e \in MembersOf(partition, g) : <<e, a>> \in PairsOf(obs["b_calibration"])
    BY <1>1, <2>4, <2>5, CoverageMeasured
  <2>7. /\ DOMAIN slots = 1 .. BTransferBudget /\ BTransferBudget \in Nat
        /\ \A i \in 1 .. BTransferBudget : /\ predictions[i].entity = slots[i].entity
                                           /\ predictions[i].action = slots[i].action
    BY <2>1, <2>2, PredictionsOfSlots
  <2>8. \A g \in GroupsOf(partition), a \in Actions :
          \E e \in MembersOf(partition, g) : <<e, a>> \in PairsOf(obs["b_transfer"])
    BY <1>1, <2>1, <2>4, <2>7, CoverageMeasured
  <2> QED
    BY <2>6, <2>8
<1> QED
  BY <1>2, <1>3 DEF TransferIsOutOfSample, Completed

LEMMA EvidenceScore ==
  ASSUME TypeInv, StageInv, EvidenceInv
  PROVE  ScoreIsUnanimity
<1> USE DEF EvidenceInv
<1> DEFINE used == Last(obs["b_calibration"], BCalibrationBudget)
           tested == obs["b_transfer"]
<1> SUFFICES ASSUME Completed
             PROVE  /\ result.total = BTransferBudget
                    /\ result.correct =
                         Cardinality({i \in DOMAIN tested : \A j \in DOMAIN used :
                                        SameCell(tested[i], used[j]) => used[j].y = tested[i].y})
  BY DEF ScoreIsUnanimity, Completed
<1>1. /\ obs["b_calibration"] \in Seq(Observations) /\ tested \in Seq(Observations)
      /\ BCalibrationBudget \in Nat /\ BTransferBudget \in Nat
  BY UnitTypes, ConstantTypes DEF Stages
<1>2. PICK zs : /\ Executed(tested, predictions, zs)
                /\ Len(zs) = BTransferBudget /\ predictions # <<>>
                /\ Len(tested) = BTransferBudget
                /\ result.correct = Score(predictions, zs)
                /\ result.total = BTransferBudget
  BY DEF ScoreEvidence
<1>3. PICK ys, slots : FrozenFrom(ys, slots)
  BY <1>2 DEF TransferEvidence
<1>4. /\ calibration # <<>> /\ Len(calibration) = BCalibrationBudget
      /\ partition \in Partitions /\ calibration \in Seq(Slots)
  BY <1>2 DEF StageInv, FrozenByPhase, TypeInv, TypeOK
<1>5. /\ Covers(calibration, partition)
      /\ ValidSchedule(calibration, partition, BCalibrationBudget)
      /\ Executed(obs["b_calibration"], calibration, ys) /\ Len(ys) = BCalibrationBudget
      /\ ys \in Seq(Actions)
      /\ ValidSchedule(slots, partition, BTransferBudget)
      /\ lookup = BLookup(calibration, ys, partition)
  BY <1>3, <1>4 DEF ScheduleEvidence, FrozenFrom, Executed
<1>6. /\ DOMAIN slots = 1 .. BTransferBudget
      /\ \A i \in 1 .. BTransferBudget :
           /\ predictions[i].entity = slots[i].entity
           /\ predictions[i].action = slots[i].action
           /\ LET cell == lookup[CellOf(slots[i].group, slots[i].action)]
              IN  /\ predictions[i].status = cell.status
                  /\ cell.status = "defined" => predictions[i].predicted = cell.predicted
  BY <1>2, <1>3, PredictionsOfSlots
<1>7. /\ DOMAIN used = 1 .. BCalibrationBudget /\ DOMAIN calibration = 1 .. BCalibrationBudget
      /\ \A j \in 1 .. BCalibrationBudget :
           /\ used[j].entity = calibration[j].entity
           /\ used[j].action = calibration[j].action
           /\ used[j].y = ys[j]
  <2> DEFINE rows == obs["b_calibration"]
             n == BCalibrationBudget
  <2>1. /\ rows \in Seq(Observations) /\ n \in Nat /\ n <= Len(rows) /\ Len(ys) = n
        /\ Executed(rows, calibration, ys)
    BY <1>1, <1>5 DEF Executed
  <2>2. DOMAIN calibration = 1 .. n
    BY <1>4
  <2> HIDE DEF rows, n
  <2>3. DOMAIN Last(rows, n) = 1 .. n /\ \A j \in 1 .. n : Last(rows, n)[j] = Row(rows, ys, j)
    BY <2>1, LastRows DEF Row
  <2>4. \A j \in 1 .. n : /\ Row(rows, ys, j).entity = calibration[j].entity
                           /\ Row(rows, ys, j).action = calibration[j].action
                           /\ Row(rows, ys, j).y = ys[j]
    BY <2>1 DEF Executed
  <2> QED
    BY <2>2, <2>3, <2>4 DEF rows, n
<1>8. /\ DOMAIN tested = 1 .. BTransferBudget /\ DOMAIN zs = 1 .. BTransferBudget
      /\ \A i \in 1 .. BTransferBudget :
           /\ tested[i].entity = slots[i].entity
           /\ tested[i].action = slots[i].action
           /\ tested[i].y = zs[i] /\ zs[i] \in Actions
  <2>1. zs \in Seq(Actions) /\ \A i \in 1 .. BTransferBudget : Len(tested) - Len(zs) + i = i
    BY <1>1, <1>2 DEF Executed
  <2>2. /\ DOMAIN tested = 1 .. BTransferBudget /\ DOMAIN zs = 1 .. BTransferBudget
        /\ \A i \in 1 .. BTransferBudget : zs[i] \in Actions
    BY <1>1, <1>2, <2>1
  <2>3. \A i \in 1 .. BTransferBudget : /\ tested[i].entity = predictions[i].entity
                                        /\ tested[i].action = predictions[i].action
                                        /\ tested[i].y = zs[i]
    BY <1>2, <2>1 DEF Executed, Row
  <2> QED
    BY <1>6, <2>2, <2>3
<1> HIDE DEF used, tested
<1>9. ASSUME NEW i \in 1 .. BTransferBudget
      PROVE  /\ predictions[i].status = "defined"
             /\ predictions[i].predicted = zs[i]
             <=> \A j \in DOMAIN used :
                   SameCell(tested[i], used[j]) => used[j].y = tested[i].y
  <2> DEFINE e == slots[i].entity
             a == slots[i].action
             cell == lookup[CellOf(slots[i].group, a)]
  <2>1. e \in Entities /\ a \in Actions /\ slots[i].group = partition.entity_group[e]
    BY <1>5, <1>6 DEF ValidSchedule
  <2>2. cell = BLookup(calibration, ys, partition)[CellOf(partition.entity_group[e], a)]
    BY <1>5, <2>1
  <2>3. cell.status = "defined" /\ cell.predicted = zs[i]
          <=> \A j \in DOMAIN calibration :
                calibration[j].action = a
                  /\ partition.entity_group[calibration[j].entity] = partition.entity_group[e]
                  => ys[j] = zs[i]
    <3>1. /\ zs[i] \in Actions /\ ys \in Seq(Actions) /\ Len(ys) = Len(calibration)
          /\ partition \in Partitions /\ calibration \in Seq(Slots)
          /\ ValidSchedule(calibration, partition, BCalibrationBudget)
          /\ Covers(calibration, partition)
      BY <1>4, <1>5, <1>8
    <3>2. \A f \in Entities, b \in Actions, y \in Actions :
            Unanimity(BLookup(calibration, ys, partition)[CellOf(partition.entity_group[f], b)],
                      calibration, ys, partition, f, b, y)
      BY <3>1, PredictionIsUnanimous
    <3> HIDE DEF e, a, cell
    <3>3. Unanimity(cell, calibration, ys, partition, e, a, zs[i])
      BY <2>1, <2>2, <3>1, <3>2
    <3> QED
      BY <3>3 DEF Unanimity
  <2>4. predictions[i].status = "defined" /\ predictions[i].predicted = zs[i]
          <=> cell.status = "defined" /\ cell.predicted = zs[i]
    BY <1>6
  <2> HIDE DEF cell
  <2>5. \A j \in DOMAIN used :
          SameCell(tested[i], used[j])
            <=> /\ calibration[j].action = a
                /\ partition.entity_group[calibration[j].entity] = partition.entity_group[e]
    BY <1>7, <1>8 DEF SameCell
  <2>6. tested[i].y = zs[i] /\ \A j \in DOMAIN used : used[j].y = ys[j]
    BY <1>7, <1>8
  <2>7. DOMAIN used = DOMAIN calibration
    BY <1>7
  <2> HIDE DEF e, a
  <2> QED
    BY <2>3, <2>4, <2>5, <2>6, <2>7
<1>10. {i \in DOMAIN zs : /\ predictions[i].status = "defined"
                          /\ predictions[i].predicted = zs[i]}
       = {i \in DOMAIN tested : \A j \in DOMAIN used :
            SameCell(tested[i], used[j]) => used[j].y = tested[i].y}
  BY <1>8, <1>9
<1> QED
  BY <1>2, <1>10 DEF Score

\* B is never reached but through a gate whose every sealed prediction came true,
\* however often the caller re-entered the gate after observe raised.
THEOREM GateWasPerfect == Spec => []BBehindPerfectGate
<1>1. EvidenceInv => BBehindPerfectGate
  BY DEF EvidenceInv
<1> QED
  BY <1>1, EvidenceHolds, PTL

\* The pairs that B predicts were never used to calibrate, and a completed run has
\* calibrated and tested every cell of its partition.
THEOREM TransferStaysOutOfSample == Spec => []TransferIsOutOfSample
BY EvidenceHolds, EvidenceOutOfSample, PTL

\* A completed run's score is the number of transfer outcomes that agree with every
\* calibration outcome of their cell, as the raw observations tell.
THEOREM ScoreIsEarned == Spec => []ScoreIsUnanimity
BY EvidenceHolds, EvidenceScore, PTL
-------------------------------------------------------------------------------
(* The schedules the broker builds pass its own checks.  A legal commit is *)
(* canonicalized to a partition whose groups all have two members, which is*)
(* what the two walks need, and B works on that partition to the end.      *)

\* The broker's own schedules never fail its checks: when a gate is adjudicated the
\* committed partition has a legal calibration, and when a calibration is complete every
\* cell keeps a member for a legal transfer that repeats no calibration pair.  (The
\* guards of PassGate and FreezeTransfer are places where submit_a_commit and run_b would
\* raise with the run half closed.)
SchedulesExist ==
  /\ Finished("a_gate") =>
       ValidSchedule(CalibrationSchedule(partition), partition, BCalibrationBudget)
  /\ Finished("b_calibration") =>
       LET transfer == TransferSchedule(partition, calibration)
       IN  /\ \A c \in CellsOf(partition) : RemainingMembers(partition, calibration, c) # {}
           /\ ValidSchedule(transfer, partition, BTransferBudget)
           /\ PairsOf(transfer) \cap PairsOf(calibration) = {}

ScheduleSource ==
  /\ partition # None => partition \in Schedulable
  /\ calibration # <<>> => calibration = CalibrationSchedule(partition)

\* Only a commit in the open discovery phase gives the run a partition.
LEMMA CommitsAreSchedulable ==
  ASSUME TypeInv, [Next]_vars, partition' # partition
  PROVE  CommitOpen /\ partition' \in Schedulable
<1>1. ~ Observing
  BY ObservingFacts DEF frozen
<1>2. SubmitUncovered \/ SubmitCommit
  BY <1>1, StepKinds DEF Closing, RejectBatchSchema, RejectBatchBudget, SubmitMalformed,
     SubmitAbstain, SubmitIllegalCommit, CloseExternalFailure, ABatchReusedId, FailGate,
     ExecuteABatch, ABatchReturn, PassGate, RunB, FreezeTransfer, ScoreTransfer,
     ObserveRaises, vars, frozen
<1>3. PICK h \in CommitChoices : LegalHypothesis(h) /\ partition' = Canonicalize(h)
  BY <1>2 DEF SubmitUncovered, SubmitCommit
<1>4. h.entity_group \in [Entities -> Int]
  BY BrokerConstants
<1>5. partition' \in Schedulable
  BY <1>3, <1>4, CanonicalIsSchedulable
<1> QED
  BY <1>2, <1>5 DEF SubmitUncovered, SubmitCommit

LEMMA ScheduleSourceStep ==
  ASSUME TypeInv, StageInv, ScheduleSource, [Next]_vars
  PROVE  ScheduleSource'
<1>1. partition' # None => partition' \in Schedulable
  BY CommitsAreSchedulable DEF ScheduleSource
<1>2. ASSUME calibration' # <<>>
      PROVE  calibration' = CalibrationSchedule(partition')
  <2>1. CASE calibration # <<>>
    BY <2>1, FreezeStep DEF ScheduleSource
  <2>2. CASE calibration = <<>>
    <3>1. PassGate
      BY <1>2, <2>2, OnlyPassGateCalibrates
    <3> QED
      BY <3>1 DEF PassGate
  <2> QED
    BY <2>1, <2>2
<1> QED
  BY <1>1, <1>2 DEF ScheduleSource

\* A finished gate has a partition to schedule, a finished calibration has walked the
\* frozen schedule of its partition.
LEMMA SourceSchedules ==
  ASSUME TypeInv, StageInv, ScheduleSource
  PROVE  SchedulesExist
<1>1. ASSUME call.stage \in {"a_gate", "b_calibration"}
      PROVE  partition \in Schedulable /\ partition \in Partitions
  <2>1. partition \in Partitions
    BY <1>1 DEF TypeInv, CallInv
  <2>2. partition # None
    BY <2>1, NoneIsNoPartition
  <2> QED
    BY <2>1, <2>2 DEF ScheduleSource
<1>2. Finished("a_gate") =>
        ValidSchedule(CalibrationSchedule(partition), partition, BCalibrationBudget)
  BY <1>1, CalibrationExists DEF Finished
<1>3. ASSUME Finished("b_calibration")
      PROVE  /\ \A c \in CellsOf(partition) :
                  RemainingMembers(partition, calibration, c) # {}
             /\ ValidSchedule(TransferSchedule(partition, calibration), partition,
                              BTransferBudget)
             /\ PairsOf(TransferSchedule(partition, calibration))
                  \cap PairsOf(calibration) = {}
  <2>1. /\ calibration = CalibrationSchedule(partition) /\ calibration \in Seq(Slots)
        /\ Len(calibration) = BCalibrationBudget
    <3>1. call.stage = "b_calibration"
      BY <1>3 DEF Finished
    <3>2. phase = "B_CALIBRATION"
      BY <3>1 DEF StageInv, PhaseOfCall
    <3> QED
      BY <3>2 DEF StageInv, FrozenByPhase, ScheduleSource, TypeInv, TypeOK
  <2> QED
    BY <1>1, <1>3, <2>1, CalibrationExists, TransferExists DEF Finished
<1> QED
  BY <1>2, <1>3 DEF SchedulesExist

\* Whatever legal partition a run commits to and whenever observe raises, neither schedule
\* builder of B can fail its own checks: the gate and the calibration are never left
\* with an exception of the broker's own making.
THEOREM BuildersAlwaysSucceed == Spec => []SchedulesExist
<1>1. Init => ScheduleSource
  BY DEF Init, ScheduleSource
<1>2. TypeInv /\ StageInv /\ ScheduleSource /\ [Next]_vars => ScheduleSource'
  BY ScheduleSourceStep
<1>3. TypeInv /\ StageInv /\ ScheduleSource => SchedulesExist
  BY SourceSchedules
<1> QED
  BY <1>1, <1>2, <1>3, StagesHold, PTL DEF Spec
===============================================================================
