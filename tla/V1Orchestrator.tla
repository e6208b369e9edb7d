---------------------------- MODULE V1Orchestrator ----------------------------
(***************************************************************************)
(* archimedes_v0/v1_orchestrator.py: one arm of one world.  V1Full- and    *)
(* V1FlatOrchestrator.run are the same schedule with other prompts: in     *)
(* each research round one call proposes partitions and one call selects a *)
(* batch, which the broker executes; a last call commits; then the broker  *)
(* runs B.  The agents are external: a call answers, answers with invalid  *)
(* output (V1AgentInterfaceError) or fails in the provider                 *)
(* (V1ProviderError).  The broker's steps are those of V1Broker.           *)
(***************************************************************************)
EXTENDS V1Broker

CONSTANT Rounds  \* A_RESEARCH_ROUNDS, 6

ASSUME OrchestratorConstants ==
  /\ Rounds \in Nat \ {0}
  /\ Rounds * ABatchSize = ADiscoveryBudget
  /\ 1 .. ADiscoveryBudget \subseteq ExperimentIds
  \* A batch with assigned ids passes the schema again.
  /\ \A b \in Batches : \A r \in 0 .. Rounds - 1 :
       [i \in DOMAIN b |-> [b[i] EXCEPT !.id = r * ABatchSize + i]] \in Batches

VARIABLES
  trusted,  \* the V1.1 interface, whose selector assigns the experiment ids
  turn,    \* what run() is waiting for
  round    \* round_index

runVars == <<trusted, turn, round>>
allVars == <<vars, runVars>>

OInit ==
  /\ Init
  /\ trusted \in BOOLEAN
  /\ turn = "generate"
  /\ round = 0

-------------------------------------------------------------------------------
(* Model calls.                                                            *)

AgentTurns == {"generate", "select", "commit"}

\* Candidates are normalized and passed on to the selector; they do not reach the
\* broker.
Propose ==
  /\ turn = "generate"
  /\ turn' = "select"
  /\ UNCHANGED <<vars, trusted, round>>

\* A variant with a plausible bug: the round is left out.
PositionId(position) == position

\* canonical_benchmark_experiment_id, as a number: one per round and position.
AssignedId(position) == round * ABatchSize + position

Assigned(batch) ==
  [i \in DOMAIN batch |-> [batch[i] EXCEPT !.id = AssignedId(i)]]

\* The selector's batch goes straight into execute_a_batch.
Select ==
  /\ turn = "select"
  /\ DiscoveryOpen
  /\ BatchFits
  /\ \E batch \in Batches :
       Start("a_discovery", IF trusted THEN Assigned(batch) ELSE batch)
  /\ turn' = "execute"
  /\ UNCHANGED <<phase, measured, gateCharged, frozen, lookup, result, ledger, faults,
                 trusted, round>>

\* The commit call's raw answer goes straight into submit_a_commit: the run ends
\* with the broker's result, or the gate begins.
Commit ==
  /\ turn = "commit"
  /\ \/ SubmitMalformed \/ SubmitAbstain \/ SubmitIllegalCommit \/ SubmitUncovered
     \/ SubmitCommit
  /\ turn' = IF result' # None THEN "returned" ELSE "gate"
  /\ UNCHANGED <<trusted, round>>

\* An answer the interface rejects: the broker is closed and its result returned.
InvalidAnswer ==
  /\ turn \in AgentTurns
  /\ CloseExternalFailure
  /\ turn' = "returned"
  /\ UNCHANGED <<trusted, round>>

\* A provider failure is not caught: the broker stays as it is, without a result.
ProviderFailure ==
  /\ turn \in AgentTurns
  /\ turn' = "raised"
  /\ UNCHANGED <<vars, trusted, round>>

-------------------------------------------------------------------------------
(* The broker at work.                                                     *)

ExecuteStep ==
  /\ turn = "execute"
  /\ ABatchObserve
  /\ UNCHANGED runVars

\* The rounds are over when their batches are.
ExecuteReturn ==
  /\ turn = "execute"
  /\ ABatchReturn
  /\ round' = round + 1
  /\ turn' = IF round' = Rounds THEN "commit" ELSE "generate"
  /\ UNCHANGED <<trusted>>

\* execute_a_batch closed the broker and raised V1BrokerError, which is caught.
ExecuteClosed ==
  /\ turn = "execute"
  /\ ABatchReusedId
  /\ turn' = "returned"
  /\ UNCHANGED <<trusted, round>>

GateStep ==
  /\ turn = "gate"
  /\ GateObserve \/ PassGate \/ FailGate
  /\ turn' = IF result' # None THEN "returned"
             ELSE IF phase' = "B_CALIBRATION" THEN "run_b" ELSE "gate"
  /\ UNCHANGED <<trusted, round>>

BStep ==
  /\ turn = "run_b"
  /\ RunB \/ CalibrationObserve \/ FreezeTransfer \/ TransferObserve \/ ScoreTransfer
  /\ turn' = IF result' # None THEN "returned" ELSE "run_b"
  /\ UNCHANGED <<trusted, round>>

\* A variant with a plausible bug: run() catches every exception and starts over
\* from the step it was at.
RuntimeRetry ==
  /\ ObserveRaises
  /\ turn' = IF turn = "gate" THEN "commit" ELSE turn
  /\ UNCHANGED <<trusted, round>>

\* An exception of the runtime leaves run() as it left the broker.
RuntimeFailure ==
  /\ ObserveRaises
  /\ turn' = "raised"
  /\ UNCHANGED <<trusted, round>>

Over == turn \in {"returned", "raised"} /\ UNCHANGED allVars

ONext ==
  \/ Propose \/ Select \/ Commit \/ InvalidAnswer \/ ProviderFailure
  \/ ExecuteStep \/ ExecuteReturn \/ ExecuteClosed \/ GateStep \/ BStep
  \/ RuntimeFailure \/ Over

\* run() is one thread of straight-line code, and each agent call and each observe
\* answers or raises (the backend's requests carry a timeout).
OSpec == OInit /\ [][ONext]_allVars /\ WF_allVars(ONext)
-------------------------------------------------------------------------------
(* Properties.  OneCommit of V1Broker, which the broker alone does not     *)
(* guarantee when observe raises, holds here.                              *)

\* run() ends, whatever the agents and the runtime do.
ReturnsOrRaises == <>(turn \in {"returned", "raised"})

\* With trusted ids no run is ever closed over its schedule: 60 units are spent on
\* discovery whatever batches the models choose.
TrustedIdsNeverReused ==
  trusted /\ result # None => result.outcome # "schedule_failure"
===============================================================================
