------------------------------- MODULE V1Broker -------------------------------
(***************************************************************************)
(* archimedes_v0/v1_broker.py: the trusted boundary of one V1 run.  A      *)
(* caller may invoke its four public operations in any order.  Each is a   *)
(* loop over a fixed plan of interventions; between two iterations control *)
(* is inside the runtime's observe callback, so a call is modelled as one  *)
(* action that starts it, one action per observed outcome, and one that    *)
(* finishes it.  The callback may also raise: the call is then abandoned   *)
(* with whatever it had already changed, and the caller may call again.    *)
(***************************************************************************)
EXTENDS V1Protocol

CONSTANTS
  ADiscoveryBudget,  \* A_DISCOVERY_BUDGET
  ABatchSize,        \* len(AExperimentBatch.experiments), 10
  ExperimentIds,     \* ids an agent may put on its interventions
  Batches,           \* schema-valid batches agents submit; bounds the model
  CommitChoices,     \* partitions agents commit to, legal or not; bounds the model
  MaxFaults          \* observe calls that may raise; bounds the model

TotalBudget == ADiscoveryBudget + AGateBudget + BCalibrationBudget + BTransferBudget

\* AInterventionProposal and AExperimentBatch: legal interventions, unique ids.
Interventions == [id : ExperimentIds, entity : Entities, action : Actions]

ASSUME BrokerConstants ==
  /\ {ADiscoveryBudget, ABatchSize} \subseteq Nat \ {0}
  /\ MaxFaults \in Nat
  /\ \A b \in Batches :
       /\ b \in [1 .. ABatchSize -> Interventions]
       /\ \A j, k \in 1 .. ABatchSize : j # k => b[j].id # b[k].id
  /\ \A h \in CommitChoices : /\ h.group_count \in Nat
                              /\ h.entity_group \in [Entities -> Int]
                              /\ h = [group_count |-> h.group_count,
                                      entity_group |-> h.entity_group]

VARIABLES
  phase,         \* _phase
  seenIds,       \* _seen_experiment_ids
  reps,          \* _repetitions, 0 where the dictionary has no entry
  obs,           \* the four observation lists, by the stage that fills them
  gateCharged,   \* _a_gate_charged
  partition,     \* _partition, or None; its digest is frozen with it
  challenges,    \* what _a_gate_prediction_digest is the digest of
  calibration,   \* _b_calibration_schedule, <<>> until frozen
  predictions,   \* _b_transfer_predictions, <<>> until frozen
  lookup,        \* the frozen B lookup of the running run_b call
  result,        \* _closed_result, or None
  ledger,        \* event types of the hash-chained ledger, in order
  call,          \* the call in progress: its stage, plan and outcomes so far
  faults         \* number of observe calls that raised; counts for MaxFaults

frozen == <<partition, challenges, calibration, predictions>>
measured == <<seenIds, reps, obs>>
vars == <<phase, measured, gateCharged, frozen, lookup, result, ledger, call, faults>>

Stages == {"a_discovery", "a_gate", "b_calibration", "b_transfer"}
Paradigm(stage) == IF stage \in {"a_discovery", "a_gate"} THEN "A" ELSE "B"

Idle == [stage |-> "none", plan |-> <<>>, ys |-> <<>>]

Init ==
  /\ phase = "A_DISCOVERY"
  /\ seenIds = {}
  /\ reps = [key \in {"A", "B"} \X Entities \X Actions |-> 0]
  /\ obs = [stage \in Stages |-> <<>>]
  /\ gateCharged = 0
  /\ partition = None
  /\ challenges = <<>>
  /\ calibration = <<>>
  /\ predictions = <<>>
  /\ lookup = <<>>
  /\ result = None
  /\ ledger = <<"v1_run_opened">>
  /\ call = Idle
  /\ faults = 0

-------------------------------------------------------------------------------
(* Helpers shared by the operations.                                       *)

\* A variant with a plausible bug: sealed gate outcomes are billed a second time.
SpentWithGateOutcomes(o, charged) ==
  Len(o["a_discovery"]) + charged + Len(o["a_gate"])
    + Len(o["b_calibration"]) + Len(o["b_transfer"])

\* spent_budget, for given observation lists and a given gate charge.
Spent(o, charged) ==
  Len(o["a_discovery"]) + charged + Len(o["b_calibration"]) + Len(o["b_transfer"])

\* _close: the result is built once and the run is closed for good.  correct and
\* total are the transfer score, 0 and 0 unless the run completed.
Close(outcome, charged, events, correct, total, inconsistent) ==
  /\ result' = [outcome |-> outcome, correct |-> correct, total |-> total,
                inconsistent |-> inconsistent, spent |-> Spent(obs, charged)]
  /\ phase' = "CLOSED"
  /\ ledger' = ledger \o events \o <<"v1_run_closed">>
  /\ call' = Idle

CloseUnscored(outcome, charged, events) == Close(outcome, charged, events, 0, 0, 0)

Start(stage, plan) == call' = [stage |-> stage, plan |-> plan, ys |-> <<>>]

Running(stage) == call.stage = stage /\ Len(call.ys) < Len(call.plan)
Finished(stage) == call.stage = stage /\ Len(call.ys) = Len(call.plan)

Current == call.plan[Len(call.ys) + 1]

\* _next_repetition: the number this measurement gets, and the counter after it.
RepKey(stage) == <<Paradigm(stage), Current.entity, Current.action>>

\* A variant with a plausible bug: the counter only moves on discovery.
NextDiscoveryRepetition(stage) ==
  IF stage = "a_discovery" THEN [reps EXCEPT ![RepKey(stage)] = @ + 1] ELSE reps

NextRepetition(stage) == [reps EXCEPT ![RepKey(stage)] = @ + 1]

\* One iteration of a plan: claim the repetition, observe, append, log.
Observe(stage, event) ==
  /\ Running(stage)
  /\ reps' = NextRepetition(stage)
  /\ \E y \in Actions :
       /\ obs' = [obs EXCEPT ![stage] =
                    Append(@, [entity |-> Current.entity, action |-> Current.action,
                               rep |-> reps[RepKey(stage)], y |-> y])]
       /\ call' = [call EXCEPT !.ys = Append(@, y)]
  /\ ledger' = Append(ledger, event)
  /\ UNCHANGED <<phase, gateCharged, frozen, lookup, result, faults>>

-------------------------------------------------------------------------------
(* execute_a_batch.                                                        *)

DiscoveryOpen ==
  /\ call = Idle
  /\ phase = "A_DISCOVERY"
  /\ Len(obs["a_discovery"]) < ADiscoveryBudget

RejectBatchSchema ==
  /\ DiscoveryOpen
  /\ CloseUnscored("schema_failure", gateCharged, <<>>)
  /\ UNCHANGED <<measured, gateCharged, frozen, lookup, faults>>

\* A whole batch no longer fits (only after an abandoned batch left a remainder).
RejectBatchBudget ==
  /\ DiscoveryOpen
  /\ Len(obs["a_discovery"]) + ABatchSize > ADiscoveryBudget
  /\ CloseUnscored("schedule_failure", gateCharged, <<>>)
  /\ UNCHANGED <<measured, gateCharged, frozen, lookup, faults>>

BatchFits == Len(obs["a_discovery"]) + ABatchSize <= ADiscoveryBudget

ExecuteABatch ==
  /\ DiscoveryOpen
  /\ BatchFits
  /\ \E batch \in Batches : Start("a_discovery", batch)
  /\ UNCHANGED <<phase, measured, gateCharged, frozen, lookup, result, ledger, faults>>

ABatchObserve ==
  /\ Running("a_discovery")
  /\ Current.id \notin seenIds
  /\ seenIds' = seenIds \cup {Current.id}
  /\ Observe("a_discovery", "a_observation")

\* An id of an earlier batch closes the run; the rows before it stay recorded.
ABatchReusedId ==
  /\ Running("a_discovery")
  /\ Current.id \in seenIds
  /\ CloseUnscored("schedule_failure", gateCharged, <<>>)
  /\ UNCHANGED <<measured, gateCharged, frozen, lookup, faults>>

ABatchReturn ==
  /\ Finished("a_discovery")
  /\ call' = Idle
  /\ UNCHANGED <<phase, measured, gateCharged, frozen, lookup, result, ledger, faults>>
-------------------------------------------------------------------------------
(* submit_a_commit.                                                        *)

\* Variants with plausible bugs: a commit before discovery is exhausted; a commit
\* in any phase of an open run.
CommitOpenEarly == call = Idle /\ phase = "A_DISCOVERY"
CommitOpenAnyPhase ==
  call = Idle /\ phase # "CLOSED" /\ Len(obs["a_discovery"]) = ADiscoveryBudget

CommitOpen ==
  /\ call = Idle
  /\ phase = "A_DISCOVERY"
  /\ Len(obs["a_discovery"]) = ADiscoveryBudget

Charged == <<"a_gate_budget_charged">>

\* No stated decision, or an abstention that carries a partition: not charged.
SubmitMalformed ==
  /\ CommitOpen
  /\ CloseUnscored("invalid_commit", gateCharged, <<>>)
  /\ UNCHANGED <<measured, gateCharged, frozen, lookup, faults>>

SubmitAbstain ==
  /\ CommitOpen
  /\ CloseUnscored("abstain", gateCharged, <<>>)
  /\ UNCHANGED <<measured, gateCharged, frozen, lookup, faults>>

\* A stated commit is charged before its partition is validated.
SubmitIllegalCommit ==
  /\ CommitOpen
  /\ \E h \in CommitChoices : ~LegalHypothesis(h)
  /\ gateCharged' = AGateBudget
  /\ CloseUnscored("invalid_commit", AGateBudget, Charged)
  /\ UNCHANGED <<measured, frozen, lookup, faults>>

\* The partition is frozen even when it turns out to have too few challenges.
SubmitUncovered ==
  /\ CommitOpen
  /\ \E h \in CommitChoices :
       /\ LegalHypothesis(h)
       /\ partition' = Canonicalize(h)
       /\ Len(GateChallenges(partition', obs["a_discovery"])) # AGateBudget
  /\ gateCharged' = AGateBudget
  /\ CloseUnscored("a_gate_insufficient_coverage", AGateBudget,
                   Charged \o <<"a_partition_frozen">>)
  /\ UNCHANGED <<measured, challenges, calibration, predictions, lookup, faults>>

\* Partition and gate predictions are frozen, then the gate is observed.
SubmitCommit ==
  /\ CommitOpen
  /\ \E h \in CommitChoices :
       /\ LegalHypothesis(h)
       /\ partition' = Canonicalize(h)
       /\ challenges' = GateChallenges(partition', obs["a_discovery"])
  /\ Len(challenges') = AGateBudget
  /\ gateCharged' = AGateBudget
  /\ ledger' = ledger \o Charged \o <<"a_partition_frozen", "a_gate_predictions_frozen">>
  /\ Start("a_gate", challenges')
  /\ UNCHANGED <<phase, measured, calibration, predictions, lookup, result, faults>>

GateObserve ==
  /\ Observe("a_gate", "a_gate_outcome")
  /\ UNCHANGED seenIds

GateHits(c) == Cardinality({i \in DOMAIN c.plan : c.ys[i] = c.plan[i].predicted})

\* A variant with a plausible bug: one miss is tolerated.
GateNearlyPassed(c) == GateHits(c) >= AGateBudget - 1

\* Every challenge must be hit.
GatePassed(c) == GateHits(c) = AGateBudget

\* A perfect gate freezes the calibration schedule and opens B.  (The \E over a
\* singleton here and below is a LET that TLC evaluates once.)
PassGate ==
  /\ Finished("a_gate")
  /\ GatePassed(call)
  /\ \E schedule \in {CalibrationSchedule(partition)} :
       /\ ValidSchedule(schedule, partition, BCalibrationBudget)
       /\ calibration' = schedule
  /\ phase' = "B_CALIBRATION"
  /\ ledger' = ledger \o <<"a_gate_adjudicated", "b_calibration_schedule_frozen">>
  /\ call' = Idle
  /\ UNCHANGED <<measured, gateCharged, partition, challenges, predictions,
                 lookup, result, faults>>

FailGate ==
  /\ Finished("a_gate")
  /\ ~GatePassed(call)
  /\ CloseUnscored("a_gate_failure", gateCharged, <<"a_gate_adjudicated">>)
  /\ UNCHANGED <<measured, gateCharged, frozen, lookup, faults>>

-------------------------------------------------------------------------------
(* run_b.                                                                  *)

RunB ==
  /\ call = Idle
  /\ phase = "B_CALIBRATION"
  /\ partition # None
  /\ Start("b_calibration", calibration)
  /\ UNCHANGED <<phase, measured, gateCharged, frozen, lookup, result, ledger, faults>>

CalibrationObserve ==
  /\ Observe("b_calibration", "b_calibration_outcome")
  /\ UNCHANGED seenIds

\* A variant with a plausible bug: predictions are logged before their lookup.
TransferFreezesSwapped == <<"b_transfer_predictions_frozen", "b_lookup_frozen">>

TransferFreezes == <<"b_lookup_frozen", "b_transfer_predictions_frozen">>

\* Lookup, transfer schedule and predictions are frozen before any transfer
\* outcome; the transfer loop starts in the same call.
FreezeTransfer ==
  /\ Finished("b_calibration")
  /\ lookup' = BLookup(calibration, call.ys, partition)
  /\ \A c \in CellsOf(partition) : RemainingMembers(partition, calibration, c) # {}
  /\ \E transfer \in {TransferSchedule(partition, calibration)} :
       /\ ValidSchedule(transfer, partition, BTransferBudget)
       /\ PairsOf(transfer) \cap PairsOf(calibration) = {}
       /\ predictions' = TransferPredictions(transfer, lookup')
  /\ phase' = "B_TRANSFER"
  /\ ledger' = ledger \o TransferFreezes
  /\ Start("b_transfer", predictions')
  /\ UNCHANGED <<measured, gateCharged, partition, challenges, calibration, result, faults>>

TransferObserve ==
  /\ Observe("b_transfer", "b_transfer_outcome")
  /\ UNCHANGED seenIds

ScoreTransfer ==
  /\ Finished("b_transfer")
  /\ Close("completed", gateCharged, <<>>, Score(predictions, call.ys),
           Len(predictions), Cardinality(InconsistentCells(lookup)))
  /\ UNCHANGED <<measured, gateCharged, frozen, lookup, faults>>

-------------------------------------------------------------------------------
(* Failures, and calls on a closed run.                                    *)

\* observe raises: the id and the repetition are already claimed, the outcomes
\* the call held in local variables are lost, everything else stays.
ObserveRaises ==
  /\ faults < MaxFaults
  /\ \E stage \in Stages :
       /\ Running(stage)
       /\ reps' = NextRepetition(stage)
       /\ IF stage = "a_discovery"
          THEN /\ Current.id \notin seenIds
               /\ seenIds' = seenIds \cup {Current.id}
          ELSE UNCHANGED seenIds
  /\ faults' = faults + 1
  /\ call' = Idle
  /\ UNCHANGED <<phase, obs, gateCharged, frozen, lookup, result, ledger>>

StillOpen == call = Idle /\ result = None

\* close_external_failure, from any phase.
CloseExternalFailure ==
  /\ StillOpen
  /\ CloseUnscored("semantic_output_failure", gateCharged, <<>>)
  /\ UNCHANGED <<measured, gateCharged, frozen, lookup, faults>>

\* A closed broker refuses three operations and answers the fourth with the
\* result it already has.
CallClosed == phase = "CLOSED" /\ UNCHANGED vars

Operation ==
  \/ RejectBatchSchema \/ RejectBatchBudget \/ ExecuteABatch
  \/ SubmitMalformed \/ SubmitAbstain \/ SubmitIllegalCommit \/ SubmitUncovered
  \/ SubmitCommit \/ RunB \/ CloseExternalFailure

Progress ==
  \/ ABatchObserve \/ ABatchReusedId \/ ABatchReturn
  \/ GateObserve \/ PassGate \/ FailGate
  \/ CalibrationObserve \/ FreezeTransfer \/ TransferObserve \/ ScoreTransfer

Next == Operation \/ Progress \/ ObserveRaises \/ CallClosed

Spec == Init /\ [][Next]_vars
-------------------------------------------------------------------------------
(* Types.                                                                  *)

\* What the call in progress walks through, by its stage.
Plans(stage) ==
  CASE stage = "none"          -> {<<>>}
    [] stage = "a_discovery"   -> Seq(Interventions)
    [] stage = "a_gate"        -> Seq(Challenges)
    [] stage = "b_calibration" -> Seq(Slots)
    [] stage = "b_transfer"    -> Seq(Predictions)

Outcomes == {"schema_failure", "schedule_failure", "invalid_commit", "abstain",
             "a_gate_insufficient_coverage", "a_gate_failure",
             "semantic_output_failure", "completed"}
Results == [outcome : Outcomes, correct : Nat, total : Nat, inconsistent : Nat,
            spent : Nat]

ASSUME NoneIsNoResult == None \notin Results

TypeOK ==
  /\ phase \in {"A_DISCOVERY", "B_CALIBRATION", "B_TRANSFER", "CLOSED"}
  /\ seenIds \subseteq ExperimentIds
  /\ reps \in [{"A", "B"} \X Entities \X Actions -> Nat]
  /\ obs \in [Stages -> Seq(Observations)]
  /\ gateCharged \in {0, AGateBudget}
  /\ partition \in Partitions \cup {None}
  /\ challenges \in Seq(Challenges)
  /\ calibration \in Seq(Slots)
  /\ predictions \in Seq(Predictions)
  /\ DOMAIN lookup \subseteq 0 .. MaxGroups * NumActions - 1
  /\ \A c \in DOMAIN lookup : lookup[c] \in LookupCells
  /\ result \in Results \cup {None}
  /\ call.stage \in Stages \cup {"none"}
  /\ call.plan \in Plans(call.stage)
  /\ call.ys \in Seq(Actions) /\ Len(call.ys) <= Len(call.plan)
  /\ faults \in 0 .. MaxFaults

-------------------------------------------------------------------------------
(* Safety.                                                                 *)

\* No two observations of a run, of whatever stage, are the same measurement:
\* paradigm, entity, action and repetition number together are unique, although
\* discovery and gate share one counter and a raised observe wastes a number.
\* (The noise of the runtime is a function of exactly these four.)
MeasuredOnce ==
  \A s, t \in Stages : \A i \in DOMAIN obs[s], j \in DOMAIN obs[t] :
    \/ s = t /\ i = j
    \/ Paradigm(s) # Paradigm(t)
    \/ <<obs[s][i].entity, obs[s][i].action, obs[s][i].rep>>
         # <<obs[t][j].entity, obs[t][j].action, obs[t][j].rep>>

\* The gate never measures a pair that discovery had measured.
GateIsHeldOut == PairsOf(obs["a_gate"]) \cap PairsOf(obs["a_discovery"]) = {}

\* The last n elements of a sequence that has at least n.
Last(s, n) == SubSeq(s, Len(s) - n + 1, Len(s))

\* B is entered only behind a perfect sealed gate: the last AGateBudget gate
\* outcomes are the frozen challenges, each with its predicted value.
BBehindPerfectGate ==
  calibration # <<>> =>
    /\ partition # None
    /\ Len(obs["a_gate"]) >= AGateBudget
    /\ \A i \in 1 .. AGateBudget :
         LET o == Last(obs["a_gate"], AGateBudget)[i]
         IN  /\ o.entity = challenges[i].entity /\ o.action = challenges[i].action
             /\ o.y = challenges[i].predicted

\* No B pair is both a calibration and a transfer measurement, and a completed
\* run has measured every cell of its partition in both ways.
TransferIsOutOfSample ==
  /\ PairsOf(obs["b_calibration"]) \cap PairsOf(obs["b_transfer"]) = {}
  /\ result # None /\ result.outcome = "completed" =>
       \A g \in GroupsOf(partition), a \in Actions, s \in {"b_calibration", "b_transfer"} :
         \E e \in MembersOf(partition, g) : <<e, a>> \in PairsOf(obs[s])

\* The score of a completed run, recomputed from its raw observations: the number
\* of transfer outcomes that agree with every calibration outcome of their cell.
SameCell(o, q) ==
  o.action = q.action /\ partition.entity_group[o.entity] = partition.entity_group[q.entity]
ScoreIsUnanimity ==
  result # None /\ result.outcome = "completed" =>
    LET used == Last(obs["b_calibration"], BCalibrationBudget)
        tested == obs["b_transfer"]
    IN  /\ result.total = BTransferBudget
        /\ result.correct =
             Cardinality({i \in DOMAIN tested : \A j \in DOMAIN used :
                            SameCell(tested[i], used[j]) => used[j].y = tested[i].y})

\* Unless observe raised, a run spends at most its budget and no gate outcome is
\* unpaid; it spends all of it exactly when it completes.
BudgetExact ==
  faults = 0 =>
    /\ Spent(obs, gateCharged) <= TotalBudget
    /\ Len(obs["a_gate"]) <= gateCharged
    /\ result # None =>
         (result.outcome = "completed" <=> result.spent = TotalBudget)

\* The ledger alone accounts for the budget a closed run reports.
Logged(event) == Cardinality({i \in DOMAIN ledger : ledger[i] = event})
LedgerAccountsForBudget ==
  result # None =>
    result.spent = Logged("a_observation")
                   + (IF Logged("a_gate_budget_charged") > 0 THEN AGateBudget ELSE 0)
                   + Logged("b_calibration_outcome") + Logged("b_transfer_outcome")

\* In the ledger every sealed outcome comes after the freeze of what predicts it.
Before(event, outcome) ==
  \A i \in DOMAIN ledger : ledger[i] = outcome => \E j \in 1 .. i - 1 : ledger[j] = event
FreezePrecedesOutcomes ==
  /\ Before("a_gate_predictions_frozen", "a_gate_outcome")
  /\ Before("b_calibration_schedule_frozen", "b_calibration_outcome")
  /\ Before("b_lookup_frozen", "b_transfer_predictions_frozen")
  /\ Before("b_transfer_predictions_frozen", "b_transfer_outcome")

\* What a freeze recorded never changes: the partition and its challenges once
\* committed (unless observe raised at the gate), all of B's basis once B is open,
\* the predictions once made.
FrozenForever ==
  [][/\ faults = 0 /\ partition # None => UNCHANGED <<partition, challenges>>
     /\ calibration # <<>> => UNCHANGED <<partition, challenges, calibration>>
     /\ predictions # <<>> => UNCHANGED <<predictions, lookup>>]_vars

-------------------------------------------------------------------------------
(* What the protocol document says without the proviso that observe returns.*)

\* "No second candidate submission, gate retry, or back-transition is allowed."
OneCommit == [][partition # None => UNCHANGED <<partition, challenges>>]_vars

-------------------------------------------------------------------------------
(* The budget contract, with spent_budget as its units.                    *)

ContractStage ==
  CASE phase = "A_DISCOVERY"   -> IF gateCharged = 0 THEN "discovery" ELSE "gate"
    [] phase = "B_CALIBRATION" -> "calibration"
    [] phase = "B_TRANSFER"    -> "transfer"
    [] phase = "CLOSED"        -> "closed"

ContractVerdict ==
  IF result = None THEN "open"
  ELSE IF result.outcome = "completed" THEN "scored" ELSE "zero"

Contract == INSTANCE V1Contract WITH
  Discovery <- ADiscoveryBudget, Gate <- AGateBudget,
  Calibration <- BCalibrationBudget, Transfer <- BTransferBudget,
  stage <- ContractStage, spent <- Spent(obs, gateCharged), verdict <- ContractVerdict

\* A run whose runtime always answers spends its budget as the contract says.
ImplementsContract == Contract!Spec
===============================================================================
