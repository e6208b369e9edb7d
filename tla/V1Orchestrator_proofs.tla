------------------------ MODULE V1Orchestrator_proofs ------------------------
(***************************************************************************)
(* Theorems about V1Orchestrator, for every value of its constants.  run() *)
(* drives the broker through its public operations only, so everything     *)
(* proved of V1Broker holds of a run; and run() adds to it what the broker *)
(* alone cannot promise.                                                   *)
(***************************************************************************)
EXTENDS V1Orchestrator, V1Broker_proofs

-------------------------------------------------------------------------------
(* run() is one more caller of the broker.                                 *)

DiscoveryTurns == {"generate", "select", "execute", "commit"}
Turns == DiscoveryTurns \cup {"gate", "run_b", "returned", "raised"}

RoundInv ==
  /\ turn \in Turns
  /\ trusted \in BOOLEAN
  /\ round \in 0 .. Rounds
  /\ turn \in {"generate", "select", "execute"} => round < Rounds
  /\ turn = "commit" => round = Rounds

LEMMA RoundTypes == Rounds \in Nat \ {0} /\ ABatchSize \in Nat \ {0}
BY OrchestratorConstants, BrokerConstants

LEMMA RoundInit ==
  OInit => RoundInv
BY RoundTypes DEF OInit, RoundInv, Turns, DiscoveryTurns

LEMMA RoundStep ==
  ASSUME RoundInv, [ONext]_allVars
  PROVE  RoundInv'
<1>1. CASE ExecuteReturn
  <2>1. /\ round \in 0 .. Rounds /\ round < Rounds /\ round' = round + 1
        /\ turn' = (IF round + 1 = Rounds THEN "commit" ELSE "generate")
        /\ trusted' = trusted
    BY <1>1 DEF ExecuteReturn, RoundInv
  <2>2. round' \in 0 .. Rounds /\ (round' < Rounds \/ round' = Rounds)
    BY <2>1, RoundTypes
  <2> QED
    BY <2>1, <2>2, RoundTypes DEF RoundInv, Turns, DiscoveryTurns
<1>2. CASE ~ExecuteReturn
  <2>1. round' = round /\ trusted' = trusted
    BY <1>2 DEF ONext, Propose, Select, Commit, InvalidAnswer, ProviderFailure, ExecuteStep,
       ExecuteClosed, GateStep, BStep, RuntimeFailure, Over, allVars, runVars
  <2>2. \/ turn' = turn
        \/ turn = "generate" /\ turn' = "select"
        \/ turn = "select" /\ turn' = "execute"
        \/ turn' \in {"gate", "run_b", "returned", "raised"}
    BY <1>2 DEF ONext, Propose, Select, Commit, InvalidAnswer, ProviderFailure, ExecuteStep,
       ExecuteClosed, GateStep, BStep, RuntimeFailure, Over, allVars, runVars
  <2> QED
    BY <2>1, <2>2 DEF RoundInv, Turns, DiscoveryTurns
<1> QED
  BY <1>1, <1>2

LEMMA RoundsHold == OSpec => []RoundInv
BY RoundInit, RoundStep, PTL DEF OSpec

\* The selector's batch is one that execute_a_batch accepts, with either interface.
LEMMA SelectIsExecute ==
  ASSUME RoundInv, Select
  PROVE  ExecuteABatch
<1>1. PICK batch \in Batches :
        Start("a_discovery", IF trusted THEN Assigned(batch) ELSE batch)
  BY DEF Select
<1>2. round \in 0 .. Rounds - 1
  BY RoundTypes DEF RoundInv, Select
<1>3. Assigned(batch) = [i \in DOMAIN batch |-> [batch[i] EXCEPT !.id = round * ABatchSize + i]]
  BY DEF Assigned, AssignedId
<1>4. Assigned(batch) \in Batches
  BY <1>2, <1>3, OrchestratorConstants
<1>5. \E b \in Batches : Start("a_discovery", b)
  BY <1>1, <1>4
<1> QED
  BY <1>5 DEF Select, ExecuteABatch

LEMMA RunStepIsBrokerStep ==
  ASSUME RoundInv, [ONext]_allVars
  PROVE  [Next]_vars
<1>1. CASE Select
  BY <1>1, SelectIsExecute DEF Next, Operation
<1>2. CASE Commit
  BY <1>2 DEF Commit, Next, Operation
<1>3. CASE InvalidAnswer
  BY <1>3 DEF InvalidAnswer, Next, Operation
<1>4. CASE ExecuteStep \/ ExecuteReturn \/ ExecuteClosed
  BY <1>4 DEF ExecuteStep, ExecuteReturn, ExecuteClosed, Next, Progress
<1>5. CASE GateStep
  BY <1>5 DEF GateStep, Next, Progress
<1>6. CASE BStep
  BY <1>6 DEF BStep, Next, Progress, Operation
<1>7. CASE RuntimeFailure
  BY <1>7 DEF RuntimeFailure, Next
<1>8. CASE Propose \/ ProviderFailure \/ Over \/ UNCHANGED allVars
  BY <1>8 DEF Propose, ProviderFailure, Over, allVars
<1> QED
  BY <1>1, <1>2, <1>3, <1>4, <1>5, <1>6, <1>7, <1>8 DEF ONext

\* Every step of run() is a step of the broker or leaves it alone: run() calls
\* execute_a_batch, submit_a_commit, run_b and close_external_failure only when
\* the broker accepts them, so what holds of the broker holds of a run.
THEOREM RunDrivesBroker == OSpec => Spec
<1>1. OInit => Init
  BY DEF OInit
<1> QED
  BY <1>1, RoundsHold, RunStepIsBrokerStep, PTL DEF OSpec, Spec

\* In a run too, no two observations are the same measurement, and the ledger
\* pays for what the result reports.
THEOREM RunMeasuresOnce == OSpec => [](MeasuredOnce /\ LedgerAccountsForBudget)
BY RunDrivesBroker, EveryMeasurementOnce, LedgerPays, PTL

-------------------------------------------------------------------------------
(* Where run() is, and what the broker is then.                            *)

\* Discovery proceeds in whole batches, and nothing is committed before its end.
DiscoveryInv ==
  turn \in DiscoveryTurns =>
    /\ phase = "A_DISCOVERY" /\ result = None /\ partition = None
    /\ Len(obs["a_discovery"]) = round * ABatchSize + Len(call.ys)
    /\ IF turn = "execute"
       THEN call.stage = "a_discovery" /\ Len(call.plan) = ABatchSize
       ELSE call = Idle

\* In a trusted run the ids used so far are the first numbers, one each.
TrustedInv ==
  trusted =>
    /\ result # None => result.outcome # "schedule_failure"
    /\ turn \in DiscoveryTurns => seenIds \subseteq 1 .. round * ABatchSize + Len(call.ys)
    /\ turn = "execute" => \A i \in 1 .. ABatchSize : call.plan[i].id = round * ABatchSize + i

RunPlaces == RoundInv /\ DiscoveryInv /\ TrustedInv

LEMMA PlacesInit ==
  ASSUME OInit
  PROVE  DiscoveryInv /\ TrustedInv
<1>1. /\ turn = "generate" /\ round = 0 /\ call = [stage |-> "none", plan |-> <<>>, ys |-> <<>>]
      /\ phase = "A_DISCOVERY" /\ result = None /\ partition = None /\ seenIds = {}
      /\ obs["a_discovery"] = <<>>
  BY DEF OInit, Init, Idle, Stages
<1>2. 0 * ABatchSize + Len(<<>>) = 0 /\ Len(<<>>) = 0
  BY RoundTypes
<1> QED
  BY <1>1, <1>2 DEF DiscoveryInv, TrustedInv, DiscoveryTurns, Idle

LEMMA SelectPlaces ==
  ASSUME RunPlaces, TypeInv, Select
  PROVE  DiscoveryInv' /\ TrustedInv'
<1>1. PICK batch \in Batches :
        Start("a_discovery", IF trusted THEN Assigned(batch) ELSE batch)
  BY DEF Select
<1>2. batch \in [1 .. ABatchSize -> Interventions] /\ DOMAIN batch = 1 .. ABatchSize
  BY BrokerConstants
<1>3. /\ turn = "select" /\ turn' = "execute" /\ round' = round /\ trusted' = trusted
      /\ UNCHANGED <<phase, result, partition, obs, seenIds>>
  BY DEF Select, frozen, measured
<1>4. /\ call = Idle /\ phase = "A_DISCOVERY" /\ result = None /\ partition = None
      /\ Len(obs["a_discovery"]) = round * ABatchSize + Len(call.ys)
      /\ trusted => seenIds \subseteq 1 .. round * ABatchSize + Len(call.ys)
  BY <1>3 DEF RunPlaces, DiscoveryInv, TrustedInv, DiscoveryTurns
<1>5. Assigned(batch) = [i \in 1 .. ABatchSize |-> [batch[i] EXCEPT !.id = round * ABatchSize + i]]
  BY <1>2 DEF Assigned, AssignedId
<1>6. call'.stage = "a_discovery" /\ call'.ys = <<>>
      /\ call'.plan = (IF trusted THEN Assigned(batch) ELSE batch)
  BY <1>1 DEF Start
<1>7. Len(call'.plan) = ABatchSize
  <2>1. \A f : f = [i \in 1 .. ABatchSize |-> f[i]] => Len(f) = ABatchSize
    BY RoundTypes
  <2>2. batch = [i \in 1 .. ABatchSize |-> batch[i]]
    BY <1>2
  <2>3. Assigned(batch) = [i \in 1 .. ABatchSize |-> Assigned(batch)[i]]
    <3> DEFINE b == Assigned(batch)
    <3>1. DOMAIN b = 1 .. ABatchSize /\ b = [i \in DOMAIN b |-> b[i]]
      BY <1>5
    <3> QED
      BY <3>1
  <2> QED
    BY <1>6, <2>1, <2>2, <2>3
<1>8. ASSUME trusted, NEW i \in 1 .. ABatchSize
      PROVE  call'.plan[i].id = round * ABatchSize + i
  <2>1. call'.plan[i] = [batch[i] EXCEPT !.id = round * ABatchSize + i]
    BY <1>5, <1>6, <1>8
  <2>2. batch[i] \in Interventions
    BY <1>2
  <2> HIDE DEF Assigned
  <2> QED
    BY <2>1, <2>2 DEF Interventions
<1>9. Len(call'.ys) = Len(call.ys)
  BY <1>4, <1>6 DEF Idle
<1>10. DiscoveryInv'
  BY <1>3, <1>4, <1>6, <1>7, <1>9 DEF DiscoveryInv
<1>11. TrustedInv'
  BY <1>3, <1>4, <1>8, <1>9 DEF TrustedInv
<1> QED
  BY <1>10, <1>11

\* The next id of a trusted batch is one more than the ids used.
LEMMA NextTrustedId ==
  ASSUME RunPlaces, TypeInv, turn = "execute", Running("a_discovery"), trusted
  PROVE  /\ Current.id = round * ABatchSize + Len(call.ys) + 1
         /\ Current.id \notin seenIds
<1> DEFINE n == Len(call.ys)
           x == round * ABatchSize
<1>1. n \in Nat /\ n < Len(call.plan) /\ Len(call.plan) = ABatchSize
  BY DEF RunPlaces, DiscoveryInv, DiscoveryTurns, TypeInv, TypeOK, Running
<1>2. x \in Nat
  BY RoundTypes DEF RunPlaces, RoundInv
<1>3. /\ seenIds \subseteq 1 .. x + n
      /\ \A i \in 1 .. ABatchSize : call.plan[i].id = x + i
  BY DEF RunPlaces, TrustedInv, DiscoveryTurns
<1> HIDE DEF n, x
<1>4. n + 1 \in 1 .. ABatchSize
  BY <1>1, RoundTypes
<1>5. call.plan[n + 1].id = x + (n + 1)
  BY <1>3, <1>4
<1>6. Current.id = x + n + 1
  <2>1. Current = call.plan[n + 1]
    BY DEF Current, n
  <2> QED
    BY <1>1, <1>2, <1>5, <2>1
<1>7. x + n + 1 \notin 1 .. x + n
  BY <1>1, <1>2
<1> QED
  BY <1>3, <1>6, <1>7 DEF n, x

LEMMA ExecuteStepPlaces ==
  ASSUME RunPlaces, TypeInv, ExecuteStep
  PROVE  DiscoveryInv' /\ TrustedInv'
<1>1. /\ turn = "execute" /\ turn' = turn /\ round' = round /\ trusted' = trusted
      /\ Running("a_discovery") /\ Observe("a_discovery", "a_observation")
      /\ seenIds' = seenIds \cup {Current.id}
  BY DEF ExecuteStep, ABatchObserve, runVars
<1>2. PICK y \in Actions :
        /\ obs' = [obs EXCEPT !["a_discovery"] =
                     Append(@, [entity |-> Current.entity, action |-> Current.action,
                                rep |-> reps[RepKey("a_discovery")], y |-> y])]
        /\ call' = [call EXCEPT !.ys = Append(@, y)]
  BY <1>1 DEF Observe
<1>3. UNCHANGED <<phase, result, partition>>
  BY <1>1 DEF Observe, frozen
<1>4. /\ phase = "A_DISCOVERY" /\ result = None /\ partition = None
      /\ Len(obs["a_discovery"]) = round * ABatchSize + Len(call.ys)
      /\ call.stage = "a_discovery" /\ Len(call.plan) = ABatchSize
  BY <1>1 DEF RunPlaces, DiscoveryInv, DiscoveryTurns
<1>5. /\ obs \in [Stages -> Seq(Observations)] /\ "a_discovery" \in Stages
      /\ call.ys \in Seq(Actions) /\ Len(call.ys) \in Nat
  BY DEF TypeInv, TypeOK, Stages
<1>6. /\ call'.stage = call.stage /\ call'.plan = call.plan
      /\ call'.ys = Append(call.ys, y)
  BY <1>2 DEF TypeInv, CallInv
<1>7. Len(call'.ys) = Len(call.ys) + 1 /\ call'.plan = call.plan /\ call'.stage = call.stage
  BY <1>5, <1>6
<1>8. Len(obs'["a_discovery"]) = Len(obs["a_discovery"]) + 1
  <2> DEFINE o == [entity |-> Current.entity, action |-> Current.action,
                   rep |-> reps[RepKey("a_discovery")], y |-> y]
  <2>1. obs'["a_discovery"] = Append(obs["a_discovery"], o)
    BY <1>2, <1>5
  <2>2. obs["a_discovery"] \in Seq(Observations)
    BY <1>5
  <2> HIDE DEF o
  <2> QED
    BY <2>1, <2>2
<1> DEFINE x == round * ABatchSize
           n == Len(call.ys)
<1>9. x \in Nat /\ n \in Nat
  BY <1>5, RoundTypes DEF RunPlaces, RoundInv
<1>10. Len(obs'["a_discovery"]) = x + Len(call'.ys)
  <2> HIDE DEF x, n
  <2>1. Len(obs'["a_discovery"]) = x + n + 1 /\ Len(call'.ys) = n + 1
    BY <1>4, <1>7, <1>8 DEF x, n
  <2> QED
    BY <1>9, <2>1
<1>11. DiscoveryInv'
  BY <1>1, <1>3, <1>4, <1>7, <1>10 DEF DiscoveryInv
<1>12. TrustedInv'
  <2> SUFFICES ASSUME trusted
               PROVE  TrustedInv'
    BY <1>1 DEF TrustedInv
  <2>1. Current.id = x + n + 1 /\ seenIds \subseteq 1 .. x + n
    BY <1>1, NextTrustedId DEF RunPlaces, TrustedInv, DiscoveryTurns
  <2>2. \A i \in 1 .. ABatchSize : call.plan[i].id = x + i
    BY <1>1 DEF RunPlaces, TrustedInv
  <2> HIDE DEF x, n
  <2>3. (1 .. x + n) \cup {x + n + 1} \subseteq 1 .. x + (n + 1)
    BY <1>9
  <2>4. seenIds' \subseteq 1 .. x + Len(call'.ys)
    <3>1. Len(call'.ys) = n + 1
      BY <1>7 DEF n
    <3> QED
      BY <1>1, <2>1, <2>3, <3>1
  <2> QED
    BY <1>1, <1>3, <1>4, <1>7, <2>2, <2>4 DEF TrustedInv, x
<1> QED
  BY <1>11, <1>12

LEMMA ExecuteReturnPlaces ==
  ASSUME RunPlaces, TypeInv, ExecuteReturn
  PROVE  DiscoveryInv' /\ TrustedInv'
<1>1. /\ turn = "execute" /\ turn' \in {"commit", "generate"} /\ round' = round + 1
      /\ trusted' = trusted /\ call' = Idle /\ Finished("a_discovery")
      /\ UNCHANGED <<phase, result, partition, obs, seenIds>>
  BY DEF ExecuteReturn, ABatchReturn, measured, frozen
<1>2. /\ phase = "A_DISCOVERY" /\ result = None /\ partition = None
      /\ Len(obs["a_discovery"]) = round * ABatchSize + Len(call.ys)
      /\ Len(call.plan) = ABatchSize
      /\ trusted => seenIds \subseteq 1 .. round * ABatchSize + Len(call.ys)
  BY <1>1 DEF RunPlaces, DiscoveryInv, TrustedInv, DiscoveryTurns
<1>3. Len(call.ys) = ABatchSize /\ Len(call'.ys) = 0
  BY <1>1, <1>2 DEF Finished, Idle
<1>4. round' * ABatchSize + Len(call'.ys) = round * ABatchSize + Len(call.ys)
  <2>1. round \in Nat
    BY RoundTypes DEF RunPlaces, RoundInv
  <2>2. (round + 1) * ABatchSize + 0 = round * ABatchSize + ABatchSize
    BY <2>1, RoundTypes
  <2> QED
    BY <1>1, <1>3, <2>2
<1> QED
  BY <1>1, <1>2, <1>4 DEF DiscoveryInv, TrustedInv


\* A batch with trusted ids is never closed over one of them.
LEMMA ExecuteClosedPlaces ==
  ASSUME RunPlaces, TypeInv, ExecuteClosed
  PROVE  DiscoveryInv' /\ TrustedInv'
<1>1. /\ turn = "execute" /\ turn' = "returned" /\ trusted' = trusted
      /\ Running("a_discovery") /\ Current.id \in seenIds
  BY DEF ExecuteClosed, ABatchReusedId
<1>2. ~trusted
  BY <1>1, NextTrustedId
<1> QED
  BY <1>1, <1>2 DEF DiscoveryInv, TrustedInv, DiscoveryTurns

\* What the steps outside the batches do to the result.
LEMMA OtherOutcomes ==
  ASSUME TypeInv, StageInv,
         Commit \/ InvalidAnswer \/ ProviderFailure \/ GateStep \/ BStep \/ RuntimeFailure
  PROVE  /\ result' = result \/ (result' # None /\ result'.outcome # "schedule_failure")
         /\ trusted' = trusted
<1>1. CASE Commit /\ ~SubmitCommit
  <2>1. Closing /\ result'.outcome # "schedule_failure" /\ trusted' = trusted
    BY <1>1 DEF Commit, Closing, SubmitMalformed, SubmitAbstain, SubmitIllegalCommit,
       SubmitUncovered, CloseUnscored, Close
  <2> QED
    BY <2>1, ClosingFacts
<1>2. CASE Commit /\ SubmitCommit
  BY <1>2 DEF Commit, SubmitCommit
<1>3. CASE InvalidAnswer
  <2>1. Closing /\ result'.outcome # "schedule_failure" /\ trusted' = trusted
    BY <1>3 DEF InvalidAnswer, Closing, CloseExternalFailure, CloseUnscored, Close
  <2> QED
    BY <2>1, ClosingFacts
<1>4. CASE ProviderFailure \/ RuntimeFailure
  BY <1>4 DEF ProviderFailure, RuntimeFailure, ObserveRaises, vars
<1>5. CASE GateStep
  <2>1. trusted' = trusted /\ (GateObserve \/ PassGate \/ FailGate)
    BY <1>5 DEF GateStep
  <2>2. GateObserve \/ PassGate => result' = result
    BY DEF GateObserve, Observe, PassGate
  <2>3. FailGate => Closing /\ result'.outcome # "schedule_failure"
    BY DEF Closing, FailGate, CloseUnscored, Close
  <2> QED
    BY <2>1, <2>2, <2>3, ClosingFacts
<1>6. CASE BStep
  <2>1. /\ trusted' = trusted
        /\ RunB \/ CalibrationObserve \/ FreezeTransfer \/ TransferObserve \/ ScoreTransfer
    BY <1>6 DEF BStep
  <2>2. RunB \/ CalibrationObserve \/ FreezeTransfer \/ TransferObserve => result' = result
    BY DEF RunB, CalibrationObserve, TransferObserve, Observe, FreezeTransfer
  <2>3. ASSUME ScoreTransfer
        PROVE  result' # None /\ result'.outcome # "schedule_failure"
    <3>1. result'.outcome = "completed" /\ phase' = "CLOSED"
      BY <2>3 DEF ScoreTransfer, Close
    <3>2. StageInv'
      BY <2>3, StageStep DEF Next, Progress
    <3> QED
      BY <3>1, <3>2 DEF StageInv
  <2> QED
    BY <2>1, <2>2, <2>3
<1> QED
  BY <1>1, <1>2, <1>3, <1>4, <1>5, <1>6

LEMMA OtherPlaces ==
  ASSUME RunPlaces, TypeInv, StageInv,
         Commit \/ InvalidAnswer \/ ProviderFailure \/ GateStep \/ BStep \/ RuntimeFailure
  PROVE  DiscoveryInv' /\ TrustedInv'
<1>1. turn' \notin DiscoveryTurns
  BY DEF Commit, InvalidAnswer, ProviderFailure, GateStep, BStep, RuntimeFailure,
     DiscoveryTurns
<1>2. turn' # "execute"
  BY <1>1 DEF DiscoveryTurns
<1> QED
  BY <1>1, <1>2, OtherOutcomes DEF DiscoveryInv, TrustedInv, RunPlaces

LEMMA PlacesStep ==
  ASSUME RunPlaces, TypeInv, StageInv, [ONext]_allVars
  PROVE  RunPlaces'
<1>1. RoundInv'
  BY RoundStep DEF RunPlaces
<1>2. DiscoveryInv' /\ TrustedInv'
  <2>1. CASE Propose
    <3>1. /\ turn = "generate" /\ turn' = "select"
          /\ UNCHANGED <<phase, result, partition, obs, call, round, trusted, seenIds>>
      BY <2>1 DEF Propose, vars, frozen, measured
    <3> QED
      BY <3>1 DEF RunPlaces, DiscoveryInv, TrustedInv, DiscoveryTurns
  <2>2. CASE Select
    BY <2>2, SelectPlaces
  <2>3. CASE ExecuteStep
    BY <2>3, ExecuteStepPlaces
  <2>4. CASE ExecuteReturn
    BY <2>4, ExecuteReturnPlaces
  <2>5. CASE ExecuteClosed
    BY <2>5, ExecuteClosedPlaces
  <2>6. CASE \/ Commit \/ InvalidAnswer \/ ProviderFailure \/ GateStep \/ BStep
             \/ RuntimeFailure
    BY <2>6, OtherPlaces
  <2>7. CASE Over \/ UNCHANGED allVars
    <3>1. UNCHANGED <<turn, phase, result, partition, obs, call, round, trusted, seenIds>>
      BY <2>7 DEF Over, allVars, runVars, vars, frozen, measured
    <3> QED
      BY <3>1 DEF RunPlaces, DiscoveryInv, TrustedInv
  <2> QED
    BY <2>1, <2>2, <2>3, <2>4, <2>5, <2>6, <2>7 DEF ONext
<1> QED
  BY <1>1, <1>2 DEF RunPlaces

LEMMA PlacesHold == OSpec => [](RunPlaces /\ TypeInv /\ StageInv)
<1>1. OInit => RunPlaces
  BY RoundInit, PlacesInit DEF RunPlaces
<1>2. RunPlaces /\ TypeInv /\ StageInv /\ [ONext]_allVars => RunPlaces'
  BY PlacesStep
<1> QED
  BY <1>1, <1>2, RunDrivesBroker, StagesHold, PTL DEF OSpec

\* V1.1's trusted ids keep execute_a_batch from ever closing a run over an id it
\* has seen, whatever batches the selector returns.
THEOREM TrustedRunsKeepSchedule == OSpec => []TrustedIdsNeverReused
<1>1. RunPlaces => TrustedIdsNeverReused
  BY DEF RunPlaces, TrustedInv, TrustedIdsNeverReused
<1> QED
  BY <1>1, PlacesHold, PTL

-------------------------------------------------------------------------------
(* What the broker alone does not promise.                                 *)

\* run() submits one commit: also when observe raises at the gate, neither the
\* partition nor its challenges are ever replaced.
THEOREM RunCommitsOnce == OSpec => OneCommit
<1>1. ASSUME RunPlaces, [ONext]_allVars
      PROVE  partition = None \/ UNCHANGED <<partition, challenges>>
  <2>1. CASE Commit
    <3>1. turn \in DiscoveryTurns
      BY <2>1 DEF Commit, DiscoveryTurns
    <3> QED
      BY <1>1, <3>1 DEF RunPlaces, DiscoveryInv
  <2>2. CASE Select \/ ExecuteStep \/ ExecuteReturn \/ ExecuteClosed
    BY <2>2 DEF Select, ExecuteStep, ABatchObserve, Observe, ExecuteReturn, ABatchReturn,
       ExecuteClosed, ABatchReusedId, frozen
  <2>3. CASE GateStep
    BY <2>3 DEF GateStep, GateObserve, Observe, PassGate, FailGate, frozen
  <2>4. CASE BStep
    BY <2>4 DEF BStep, RunB, CalibrationObserve, TransferObserve, Observe, FreezeTransfer,
       ScoreTransfer, frozen
  <2>5. CASE Propose \/ InvalidAnswer \/ ProviderFailure \/ RuntimeFailure \/ Over
    BY <2>5 DEF Propose, InvalidAnswer, CloseExternalFailure, ProviderFailure,
       RuntimeFailure, ObserveRaises, Over, allVars, vars, frozen
  <2>6. CASE UNCHANGED allVars
    BY <2>6 DEF allVars, vars, frozen
  <2> QED
    BY <1>1, <2>1, <2>2, <2>3, <2>4, <2>5, <2>6 DEF ONext
<1>2. RunPlaces /\ [ONext]_allVars =>
        [partition # None => UNCHANGED <<partition, challenges>>]_vars
  BY <1>1
<1> QED
  BY <1>2, PlacesHold, PTL DEF OSpec, OneCommit

\* The broker refuses nothing run() asks of it: when a batch arrives a whole batch
\* still fits, when the commit arrives discovery is exhausted, and a broker that an
\* invalid answer closes is still open.
NoTurnIsRefused ==
  /\ turn = "select" => DiscoveryOpen /\ BatchFits
  /\ turn = "commit" => CommitOpen
  /\ turn \in AgentTurns => StillOpen

THEOREM BrokerAcceptsEveryTurn == OSpec => []NoTurnIsRefused
<1>1. ASSUME RunPlaces
      PROVE  NoTurnIsRefused
  <2>1. ASSUME turn \in AgentTurns
        PROVE  /\ call = Idle /\ result = None /\ phase = "A_DISCOVERY"
               /\ Len(obs["a_discovery"]) = round * ABatchSize
    <3>1. /\ call = Idle /\ result = None /\ phase = "A_DISCOVERY"
          /\ Len(obs["a_discovery"]) = round * ABatchSize + Len(call.ys)
      BY <1>1, <2>1 DEF AgentTurns, RunPlaces, DiscoveryInv, DiscoveryTurns
    <3>2. Len(call.ys) = 0
      BY <3>1 DEF Idle
    <3>3. round * ABatchSize + 0 = round * ABatchSize
      BY <1>1, RoundTypes DEF RunPlaces, RoundInv
    <3> QED
      BY <3>1, <3>2, <3>3
  <2>2. ASSUME turn = "select"
        PROVE  round * ABatchSize + ABatchSize <= ADiscoveryBudget
    <3>1. PICK d \in Nat : Rounds = round + 1 + d /\ round \in Nat
      <4>1. round \in Nat /\ round < Rounds /\ Rounds - round - 1 \in Nat
        BY <1>1, <2>2, RoundTypes DEF RunPlaces, RoundInv
      <4> QED
        BY <4>1, RoundTypes
    <3>2. (round + 1 + d) * ABatchSize = round * ABatchSize + ABatchSize + d * ABatchSize
      BY <3>1, RoundTypes
    <3>3. d * ABatchSize \in Nat /\ round * ABatchSize \in Nat
      BY <3>1, RoundTypes
    <3>4. ADiscoveryBudget = round * ABatchSize + ABatchSize + d * ABatchSize
      BY <3>1, <3>2, OrchestratorConstants
    <3> QED
      BY <3>3, <3>4, RoundTypes
  <2>3. turn = "select" => DiscoveryOpen /\ BatchFits
    <3> SUFFICES ASSUME turn = "select"
                 PROVE  DiscoveryOpen /\ BatchFits
      OBVIOUS
    <3> DEFINE x == round * ABatchSize
    <3>1. /\ call = Idle /\ phase = "A_DISCOVERY" /\ Len(obs["a_discovery"]) = x
          /\ x + ABatchSize <= ADiscoveryBudget /\ x \in Nat
      BY <1>1, <2>1, <2>2, RoundTypes DEF AgentTurns, RunPlaces, RoundInv
    <3> HIDE DEF x
    <3>2. x < ADiscoveryBudget /\ x + ABatchSize <= ADiscoveryBudget
      BY <3>1, RoundTypes, BrokerConstants
    <3> QED
      BY <3>1, <3>2 DEF DiscoveryOpen, BatchFits
  <2>4. turn = "commit" => CommitOpen
    BY <1>1, <2>1, OrchestratorConstants DEF AgentTurns, CommitOpen, RunPlaces, RoundInv
  <2> QED
    BY <2>1, <2>3, <2>4 DEF NoTurnIsRefused, StillOpen
<1> QED
  BY <1>1, PlacesHold, PTL
===============================================================================
