---------------------------- MODULE V0Orchestrator ----------------------------
(***************************************************************************)
(* archimedes_v0/orchestrator.py: one arm of one V0 world.  Archimedes-    *)
(* and FlatBaselineOrchestrator.run are the same schedule with other       *)
(* roles: each research round opens an epistemic cycle, asks for candidate *)
(* theories, synthesizes, asks for a batch, checks it and hands its        *)
(* experiments to the broker one by one; a decision follows the A rounds,  *)
(* another the B rounds.  Agents and synthesizer are external: they answer *)
(* or raise.  run() catches nothing.                                       *)
(***************************************************************************)
EXTENDS V0Broker

CONSTANTS
  ABatchSizes,  \* A_BATCH_SIZES
  BBatchSizes,  \* B_BATCH_SIZES
  Batches       \* lists of experiments selectors answer with; bounds the model

\* The sizes add up to the total: upto[k] is the sum of the first k.
AddUp(sizes, total, upto) ==
  /\ upto[0] = 0 /\ upto[Len(sizes)] = total
  /\ \A k \in 1 .. Len(sizes) : upto[k] = upto[k - 1] + sizes[k]

ASSUME OrchestratorConstants ==
  /\ {ABatchSizes, BBatchSizes} \subseteq Seq(Nat \ {0})
  /\ \E upto \in [0 .. Len(ABatchSizes) -> 0 .. ADiscoveryBudget] :
       AddUp(ABatchSizes, ADiscoveryBudget, upto)
  /\ \E upto \in [0 .. Len(BBatchSizes) -> 0 .. BCalibrationBudget] :
       AddUp(BBatchSizes, BCalibrationBudget, upto)
  /\ Len(ABatchSizes) + Len(BBatchSizes) <= MaxEpistemicCycles
  /\ Batches \subseteq Seq(Experiments)

VARIABLES
  turn,    \* what run() is about to do
  round,   \* rounds of the current paradigm that are over
  todo     \* experiments of the accepted batch still to run

runVars == <<turn, round, todo>>
allVars == <<vars, runVars>>

OInit == Init /\ turn = "propose" /\ round = 0 /\ todo = <<>>

Paradigm == IF phase = "A_DISCOVERY" THEN "A" ELSE "B"
Sizes == IF Paradigm = "A" THEN ABatchSizes ELSE BBatchSizes
Allowed == IF Paradigm = "A" THEN Entities ELSE CalibrationEntities

-------------------------------------------------------------------------------
(* Agents.                                                                 *)

\* The cycle is opened before the proposal is asked for; proposal and synthesis do
\* not reach the broker.
Propose ==
  /\ turn = "propose"
  /\ StartEpistemicCycle
  /\ turn' = "select"
  /\ UNCHANGED <<round, todo>>

\* A variant with a plausible bug: a batch may be shorter than the round asks for.
ShortBatch(batch) ==
  /\ Len(batch) \in 1 .. Sizes[round + 1]
  /\ \A i, j \in DOMAIN batch : i # j => batch[i].id # batch[j].id
  /\ \A i \in DOMAIN batch : batch[i].paradigm = Paradigm /\ batch[i].entity \in Allowed

\* _validate_batch: its size, ids unique within the batch, the round's paradigm and
\* entities.  (That its targets are models the selector was shown is left out.)
ValidBatch(batch) ==
  /\ Len(batch) = Sizes[round + 1]
  /\ \A i, j \in DOMAIN batch : i # j => batch[i].id # batch[j].id
  /\ \A i \in DOMAIN batch : batch[i].paradigm = Paradigm /\ batch[i].entity \in Allowed

Select(batch) ==
  /\ turn = "select"
  /\ ValidBatch(batch)
  /\ todo' = batch
  /\ turn' = "execute"
  /\ UNCHANGED <<vars, round>>

\* OrchestrationError leaves the broker open.
RejectBatch(batch) ==
  /\ turn = "select"
  /\ ~ValidBatch(batch)
  /\ turn' = "raised"
  /\ UNCHANGED <<vars, round, todo>>

\* An agent or the synthesizer raises, at any call.
AgentRaises ==
  /\ turn \in {"propose", "select", "decide"}
  /\ turn' = "raised"
  /\ UNCHANGED <<vars, round, todo>>

-------------------------------------------------------------------------------
(* The broker at work.                                                     *)

\* The last experiment of a batch ends the round, the last round leads to a decision.
Execute ==
  /\ turn = "execute"
  /\ RunVisibleExperiment(Head(todo))
  /\ todo' = Tail(todo)
  /\ round' = IF todo' = <<>> THEN round + 1 ELSE round
  /\ turn' = IF todo' # <<>> THEN "execute"
             ELSE IF round' < Len(Sizes) THEN "propose" ELSE "decide"

Refused(exp) == exp.id \in seenIds \/ ~exp.consistent

\* A variant with a plausible bug: another batch is asked for.
RefusalAsksAgain ==
  /\ turn = "execute"
  /\ Refused(Head(todo))
  /\ turn' = "select"
  /\ todo' = <<>>
  /\ UNCHANGED <<vars, round>>

\* The broker refuses what _validate_batch does not look at, possibly in the middle
\* of the batch: an id of an earlier one, a prediction that is not about a target.
BrokerRefuses ==
  /\ turn = "execute"
  /\ Refused(Head(todo))
  /\ turn' = "raised"
  /\ UNCHANGED <<vars, round, todo>>

\* A decision to commit carries a theory of the schema; a gate failure is raised.
DecideA ==
  /\ turn = "decide"
  /\ \/ DeclareNoConcept /\ turn' = "returned"
     \/ \E theory \in TheoryChoices \ {None} :
          \/ FreezeATheory(theory) /\ turn' = "open_b"
          \/ FailAGate(theory) /\ turn' = "raised"
  /\ UNCHANGED <<round, todo>>

\* functional_minimality only reads the frozen theory.
OpenB ==
  /\ turn = "open_b"
  /\ OpenBCalibration
  /\ round' = 0
  /\ turn' = "propose"
  /\ UNCHANGED todo

\* A variant with a plausible bug: a failed B gate is handed back as a result.
DecideBReturns ==
  /\ turn = "decide"
  /\ \E theory \in TheoryChoices \ {None} :
       \/ SubmitBTheory(theory) /\ turn' = "transfer"
       \/ (FailBGate(theory) \/ BGateUndecided(theory)) /\ turn' = "returned"
  /\ UNCHANGED <<round, todo>>

DecideB ==
  /\ turn = "decide"
  /\ \E theory \in TheoryChoices \ {None} :
       \/ SubmitBTheory(theory) /\ turn' = "transfer"
       \/ (FailBGate(theory) \/ BGateUndecided(theory)) /\ turn' = "raised"
  /\ UNCHANGED <<round, todo>>

Transfer ==
  /\ turn = "transfer"
  /\ \/ (CommitPredictions \/ ObserveTransfer) /\ turn' = "transfer"
     \/ CloseRun /\ turn' = "returned"
     \/ TransferIdTaken /\ turn' = "raised"
  /\ UNCHANGED <<round, todo>>

\* observe raises, in a visible experiment or in the transfer evaluation.
RuntimeRaises ==
  /\ \/ turn = "execute" /\ VisibleExperimentRaises(Head(todo))
     \/ turn = "transfer" /\ ObserveTransferRaises
  /\ turn' = "raised"
  /\ UNCHANGED <<round, todo>>

Over == turn \in {"returned", "raised"} /\ UNCHANGED allVars

ONext ==
  \/ Propose \/ AgentRaises \/ Execute \/ BrokerRefuses \/ DecideA \/ OpenB \/ DecideB
  \/ Transfer \/ RuntimeRaises \/ Over
  \/ \E batch \in Batches : Select(batch) \/ RejectBatch(batch)

\* run() is one thread of straight-line code, and every call it makes answers or
\* raises.
OSpec == OInit /\ [][ONext]_allVars /\ WF_allVars(ONext)
-------------------------------------------------------------------------------
(* Properties.                                                             *)

\* run() ends.
ReturnsOrRaises == <>(turn \in {"returned", "raised"})

\* run() returns exactly with an abstention or a D4 result.  A gate failure closes
\* the broker too, but reaches the caller as an exception; every other exception
\* leaves the broker open, without a result.
RunOutcome ==
  /\ turn = "returned" <=> result # None /\ result.outcome # "theory_gate_failure"
  /\ result # None => turn \in {"returned", "raised"}

\* The schedule and the broker's budgets agree: whatever the agents answer, the
\* broker never refuses a cycle, an experiment, a gate or the transfer evaluation
\* because of a phase, a budget or a cap.
NeverRefused ==
  /\ turn = "propose" => phase # "CLOSED" /\ cycles < MaxEpistemicCycles
  /\ turn = "execute" => Permitted(Head(todo))
  /\ turn = "decide" => AGateOpen \/ BGateOpen
  /\ turn = "transfer" => TransferOpen \/ evaluating
===============================================================================
