------------------------------- MODULE V0Broker -------------------------------
(***************************************************************************)
(* archimedes_v0/broker_v013.py: the trusted boundary of one V0 world.  A  *)
(* caller may invoke its public operations in any order.  Each but the     *)
(* transfer evaluation calls the runtime's observe at most once and is one *)
(* action; the transfer evaluation commits all predictions in one action,  *)
(* observes in one action per challenge and is scored in a last one.  A    *)
(* call that is refused changes nothing and is not an action.  observe and *)
(* the SMT solver may raise what no handler catches.                       *)
(***************************************************************************)
EXTENDS V0Theory

CONSTANTS
  CalibrationEntities,   \* b_calibration_entities; the others are for transfer
  ADiscoveryBudget,      \* BUDGET_A_DISCOVERY, 60
  ATheoryEvalBudget,     \* BUDGET_A_THEORY_EVAL, 4
  BCalibrationBudget,    \* BUDGET_B_CALIBRATION, 28
  BTheoryEvalBudget,     \* BUDGET_B_THEORY_EVAL, 4
  ChallengesPerEntity,   \* interventions per transfer entity, 4
  MaxEpistemicCycles,    \* MAX_EPISTEMIC_CYCLES, 12
  TransferNum, TransferDen,  \* D4_TRANSFER_ACCURACY_MIN
  ExperimentIds,         \* ids an agent may put on its experiments
  Experiments,           \* legal experiments agents submit; bounds the model
  TheoryChoices,         \* theories agents submit, or None; bounds the model
  MaxFaults              \* uncaught exceptions; bounds the model

TransferEntities == Entities \ CalibrationEntities
BTransferBudget == ChallengesPerEntity * Cardinality(TransferEntities)

Budget == [A_discovery |-> ADiscoveryBudget, A_theory_eval |-> ATheoryEvalBudget,
           B_calibration |-> BCalibrationBudget, B_theory_eval |-> BTheoryEvalBudget,
           B_transfer_eval |-> BTransferBudget]
Purposes == DOMAIN Budget

Total(units) == units["A_discovery"] + units["A_theory_eval"] + units["B_calibration"]
                  + units["B_theory_eval"] + units["B_transfer_eval"]

\* _closed_result.
Results ==
  [outcome : {"theory_gate_failure", "no_concept", "d4"}, gate : {"A", "B", None},
   correct : Nat, qualifies : BOOLEAN, unused : Int]

ASSUME NoneIsNoResult == None \notin Results

\* E-TRANSFER-nn, the i-th id the broker itself takes.
TransferId(i) == i

\* ExperimentAST.  Of its targets, predictions and rules the broker only asks that
\* the targets are distinct and the others about targets, once each: consistent.
ExperimentASTs == [id : ExperimentIds, paradigm : {"A", "B"}, entity : Entities,
                   action : Domain, consistent : BOOLEAN]

ASSUME BrokerConstants ==
  /\ CalibrationEntities \subseteq Entities
  /\ 2 * Cardinality(CalibrationEntities) = NumEntities
  /\ {ADiscoveryBudget, ATheoryEvalBudget, BCalibrationBudget, BTheoryEvalBudget,
      ChallengesPerEntity, TransferNum, TransferDen} \subseteq Nat \ {0}
  /\ ChallengesPerEntity <= DomainSize
  /\ TransferNum <= TransferDen
  /\ {MaxEpistemicCycles, MaxFaults} \subseteq Nat
  /\ ExperimentIds \subseteq Nat
  /\ Experiments \subseteq ExperimentASTs
  /\ \A theory \in TheoryChoices \ {None} : LegalTheory(theory)

VARIABLES
  phase,       \* _phase
  seenIds,     \* _seen_experiment_ids
  reps,        \* _repetitions, 0 where the dictionary has no entry
  visible,     \* _visible_observations
  spent,       \* the three counters and the two gate charges, by purpose
  attempts,    \* _a_gate_attempts, _b_gate_attempts
  cycles,      \* _epistemic_cycles
  frozen,      \* _frozen_theory, or None
  bTheory,     \* _b_theory, or None
  fit,         \* the number of fitted observations each passed gate has recorded
  challenges,  \* _transfer_challenges
  committed,   \* the predictions the ledger holds as committed
  evaluating,  \* a transfer evaluation is between two observations
  outcomes,    \* _transfer_outcomes
  result,      \* _closed_result, or None
  ledger,      \* event types of the hash-chained ledger, in order
  faults       \* uncaught exceptions so far; counts for MaxFaults

measured == <<seenIds, reps, visible>>
accounts == <<spent, attempts, cycles>>
theories == <<frozen, bTheory, fit>>
transfer == <<challenges, committed, evaluating, outcomes>>
vars == <<phase, measured, accounts, theories, transfer, result, ledger, faults>>

Init ==
  /\ phase = "A_DISCOVERY"
  /\ seenIds = {}
  /\ reps = [key \in {"A", "B"} \X Entities \X Domain |-> 0]
  /\ visible = <<>>
  /\ spent = [p \in Purposes |-> 0]
  /\ attempts = [A |-> 0, B |-> 0]
  /\ cycles = 0
  /\ frozen = None
  /\ bTheory = None
  /\ fit = [A |-> 0, B |-> 0]
  /\ challenges = <<>>
  /\ committed = <<>>
  /\ evaluating = FALSE
  /\ outcomes = <<>>
  /\ result = None
  /\ ledger = <<"run_opened">>
  /\ faults = 0

Idle == ~evaluating
Log(event) == ledger' = Append(ledger, event)

-------------------------------------------------------------------------------
(* Cycles and visible experiments.                                         *)

StartEpistemicCycle ==
  /\ Idle
  /\ phase # "CLOSED"
  /\ cycles < MaxEpistemicCycles
  /\ cycles' = cycles + 1
  /\ Log("epistemic_cycle_started")
  /\ UNCHANGED <<phase, measured, spent, attempts, theories, transfer, result, faults>>

\* A variant with a plausible bug: all entities may be calibrated.
PermittedAnywhere(exp) ==
  \/ /\ phase = "A_DISCOVERY" /\ exp.paradigm = "A"
     /\ spent["A_discovery"] < ADiscoveryBudget
  \/ /\ phase = "B_CALIBRATION" /\ exp.paradigm = "B"
     /\ spent["B_calibration"] < BCalibrationBudget

\* The phase admits a legal experiment and its budget is not exhausted.
Permitted(exp) ==
  \/ /\ phase = "A_DISCOVERY" /\ exp.paradigm = "A"
     /\ spent["A_discovery"] < ADiscoveryBudget
  \/ /\ phase = "B_CALIBRATION" /\ exp.paradigm = "B"
     /\ exp.entity \in CalibrationEntities
     /\ spent["B_calibration"] < BCalibrationBudget

Accepted(exp) == exp.consistent /\ Permitted(exp)

RepKey(exp) == <<exp.paradigm, exp.entity, exp.action>>

\* A variant with a plausible bug: one counter for the entity, reset by paradigm B.
ForgetfulRepetition(key) ==
  [reps EXCEPT ![key] = IF key[1] = "A" THEN @ + 1 ELSE 0]

\* _next_repetition: the counters after this measurement.
NextRepetition(key) == [reps EXCEPT ![key] = @ + 1]

\* The id and the repetition are claimed before the runtime is asked.
Claim(exp) ==
  /\ exp.id \notin seenIds
  /\ seenIds' = seenIds \cup {exp.id}
  /\ reps' = NextRepetition(RepKey(exp))

Purpose(paradigm) == IF paradigm = "A" THEN "A_discovery" ELSE "B_calibration"

RunVisibleExperiment(exp) ==
  /\ Idle
  /\ Accepted(exp)
  /\ Claim(exp)
  /\ \E y \in Domain :
       visible' = Append(visible, [paradigm |-> exp.paradigm, entity |-> exp.entity,
                                   action |-> exp.action, rep |-> reps[RepKey(exp)],
                                   y |-> y])
  /\ spent' = [spent EXCEPT ![Purpose(exp.paradigm)] = @ + 1]
  /\ Log("visible_experiment")
  /\ UNCHANGED <<phase, attempts, cycles, theories, transfer, result, faults>>

\* observe raises: the claims stay, nothing is recorded or billed.
VisibleExperimentRaises(exp) ==
  /\ Idle
  /\ faults < MaxFaults
  /\ Accepted(exp)
  /\ Claim(exp)
  /\ faults' = faults + 1
  /\ UNCHANGED <<phase, visible, accounts, theories, transfer, result, ledger>>

-------------------------------------------------------------------------------
(* The two theory gates and the abstention.                                *)

\* The frozen result, built from the budget left when it closes.
Close(outcome, gate, units, correct, qualifies, event) ==
  /\ result' = [outcome |-> outcome, gate |-> gate, correct |-> correct,
                qualifies |-> qualifies, unused |-> Total(Budget) - Total(units)]
  /\ phase' = "CLOSED"
  /\ Log(event)

Charged(gate) ==
  [spent EXCEPT ![IF gate = "A" THEN "A_theory_eval" ELSE "B_theory_eval"] =
     IF gate = "A" THEN ATheoryEvalBudget ELSE BTheoryEvalBudget]

\* A variant with a plausible bug: the gate opens as soon as anything is observed.
AGateOpenEarly == Idle /\ phase = "A_DISCOVERY" /\ visible # <<>> /\ attempts["A"] = 0

AGateOpen ==
  /\ Idle
  /\ phase = "A_DISCOVERY"
  /\ spent["A_discovery"] = ADiscoveryBudget
  /\ attempts["A"] = 0

\* A variant with a plausible bug: attempts at the B gate are not looked at.
BGateOpenAgain ==
  Idle /\ phase = "B_CALIBRATION" /\ spent["B_calibration"] = BCalibrationBudget

\* The caps on gate attempts are one each.
BGateOpen ==
  /\ Idle
  /\ phase = "B_CALIBRATION"
  /\ spent["B_calibration"] = BCalibrationBudget
  /\ attempts["B"] = 0
  /\ frozen # None

\* The attempt is counted and charged before the submission is looked at.
Charge(gate) ==
  /\ attempts' = [attempts EXCEPT ![gate] = @ + 1]
  /\ spent' = Charged(gate)

FailGate(gate) ==
  /\ Charge(gate)
  /\ Close("theory_gate_failure", gate, Charged(gate), 0, FALSE, "run_closed_gate_failure")
  /\ UNCHANGED <<measured, cycles, theories, transfer, faults>>

FreezeATheory(theory) ==
  /\ AGateOpen
  /\ PassesAGate(theory, visible)
  /\ Charge("A")
  /\ frozen' = theory
  /\ fit' = [fit EXCEPT !["A"] = Correct(theory, "A", visible)]
  /\ phase' = "A_FROZEN"
  /\ Log("a_theory_frozen")
  /\ UNCHANGED <<measured, cycles, bTheory, transfer, result, faults>>

FailAGate(theory) ==
  /\ AGateOpen
  /\ ~PassesAGate(theory, visible)
  /\ FailGate("A")

DeclareNoConcept ==
  /\ AGateOpen
  /\ Close("no_concept", None, spent, 0, FALSE, "run_closed_no_concept")
  /\ UNCHANGED <<measured, accounts, theories, transfer, faults>>

OpenBCalibration ==
  /\ Idle
  /\ phase = "A_FROZEN"
  /\ phase' = "B_CALIBRATION"
  /\ Log("b_calibration_opened")
  /\ UNCHANGED <<measured, accounts, theories, transfer, result, faults>>

\* _build_transfer_challenges: by entity, then by action; which actions an entity
\* gets depends on a hash of the hidden noise key.
ChallengePairs(chosen) == {p \in TransferEntities \X Domain : p[2] \in chosen[p[1]]}
UpTo(chosen, p) ==
  {r \in ChallengePairs(chosen) : r[1] < p[1] \/ (r[1] = p[1] /\ r[2] <= p[2])}
ChallengeOrder(chosen) ==
  [i \in 1 .. BTransferBudget |->
     LET pair == CHOOSE p \in ChallengePairs(chosen) : Cardinality(UpTo(chosen, p)) = i
     IN  [entity |-> pair[1], action |-> pair[2]]]

SubmitBTheory(theory) ==
  /\ BGateOpen
  /\ PassesBGate(theory, frozen, visible)
  /\ Charge("B")
  /\ bTheory' = theory
  /\ fit' = [fit EXCEPT !["B"] = Correct(theory, "B", visible)]
  /\ phase' = "B_TRANSFER"
  /\ \E chosen \in [TransferEntities -> {A \in SUBSET Domain :
                                           Cardinality(A) = ChallengesPerEntity}] :
       challenges' = ChallengeOrder(chosen)
  /\ Log("b_theory_committed")
  /\ UNCHANGED <<measured, cycles, frozen, committed, evaluating, outcomes, result, faults>>

FailBGate(theory) ==
  /\ BGateOpen
  /\ ~PassesBGate(theory, frozen, visible)
  /\ FailGate("B")

\* The solver answers "unknown": a RuntimeError, which the gate does not catch.  The
\* attempt is charged, the world stays open.
BGateUndecided(theory) ==
  /\ BGateOpen
  /\ faults < MaxFaults
  /\ ReachesSolver(theory, frozen, visible)
  /\ Charge("B")
  /\ faults' = faults + 1
  /\ UNCHANGED <<phase, measured, cycles, theories, transfer, result, ledger>>

-------------------------------------------------------------------------------
(* execute_transfer_evaluation.                                            *)

TransferOpen ==
  Idle /\ phase = "B_TRANSFER" /\ bTheory # None /\ spent["B_transfer_eval"] = 0

Free(i) == TransferId(i) \notin seenIds

Prediction(challenge) ==
  [entity |-> challenge.entity, action |-> challenge.action,
   predicted |-> Predict(bTheory, "B", challenge.entity, challenge.action)]

\* All predictions are made, each under an id of its own, and committed at once.
CommitPredictions ==
  /\ TransferOpen
  /\ \A i \in DOMAIN challenges : Free(i)
  /\ seenIds' = seenIds \cup {TransferId(i) : i \in DOMAIN challenges}
  /\ committed' = [i \in DOMAIN challenges |-> Prediction(challenges[i])]
  /\ evaluating' = TRUE
  /\ Log("transfer_predictions_committed")
  /\ UNCHANGED <<phase, reps, visible, accounts, theories, challenges, outcomes, result, faults>>

\* One of the ids is taken: BrokerError, with the ids before it claimed.
TransferIdTaken ==
  /\ TransferOpen
  /\ \E i \in DOMAIN challenges :
       /\ ~Free(i)
       /\ \A j \in 1 .. i - 1 : Free(j)
       /\ seenIds' = seenIds \cup {TransferId(j) : j \in 1 .. i - 1}
  /\ UNCHANGED <<phase, reps, visible, accounts, theories, transfer, result, ledger, faults>>

Current == committed[Len(outcomes) + 1]
TransferKey == <<"B", Current.entity, Current.action>>

ObserveTransfer ==
  /\ evaluating
  /\ Len(outcomes) < Len(committed)
  /\ reps' = NextRepetition(TransferKey)
  /\ \E y \in Domain :
       outcomes' = Append(outcomes, [entity |-> Current.entity, action |-> Current.action,
                                     rep |-> reps[TransferKey],
                                     predicted |-> Current.predicted, y |-> y])
  /\ spent' = [spent EXCEPT !["B_transfer_eval"] = @ + 1]
  /\ Log("sealed_transfer_observation")
  /\ UNCHANGED <<phase, seenIds, visible, attempts, cycles, theories, challenges,
                 committed, evaluating, result, faults>>

ObserveTransferRaises ==
  /\ evaluating
  /\ Len(outcomes) < Len(committed)
  /\ faults < MaxFaults
  /\ reps' = NextRepetition(TransferKey)
  /\ evaluating' = FALSE
  /\ faults' = faults + 1
  /\ UNCHANGED <<phase, seenIds, visible, accounts, theories, challenges, committed,
                 outcomes, result, ledger>>

Hits == Cardinality({i \in DOMAIN outcomes : outcomes[i].predicted = outcomes[i].y})

\* Both fits were recorded when their gates were passed.
Qualifies ==
  /\ AtLeast(fit["A"], ADiscoveryBudget, FitNum, FitDen)
  /\ AtLeast(fit["B"], BCalibrationBudget, FitNum, FitDen)
  /\ AtLeast(Hits, BTransferBudget, TransferNum, TransferDen)

\* _close_run, which asks for the exact exhaustion of the budget.
CloseRun ==
  /\ evaluating
  /\ Len(outcomes) = Len(committed)
  /\ spent["B_transfer_eval"] = BTransferBudget
  /\ Total(spent) = Total(Budget)
  /\ Close("d4", None, spent, Hits, Qualifies, "run_closed")
  /\ evaluating' = FALSE
  /\ UNCHANGED <<measured, accounts, theories, challenges, committed, outcomes, faults>>

Next ==
  \/ StartEpistemicCycle \/ DeclareNoConcept \/ OpenBCalibration
  \/ \E exp \in Experiments : RunVisibleExperiment(exp) \/ VisibleExperimentRaises(exp)
  \/ \E theory \in TheoryChoices :
       \/ FreezeATheory(theory) \/ FailAGate(theory)
       \/ SubmitBTheory(theory) \/ FailBGate(theory) \/ BGateUndecided(theory)
  \/ CommitPredictions \/ TransferIdTaken
  \/ ObserveTransfer \/ ObserveTransferRaises \/ CloseRun

Spec == Init /\ [][Next]_vars

\* A caller that holds an accepted B theory asks for the transfer evaluation.
FairSpec == Spec /\ WF_vars(CommitPredictions \/ TransferIdTaken)
-------------------------------------------------------------------------------
(* Properties.                                                             *)

\* No two measurements of a world, visible or sealed, share paradigm, entity, action
\* and repetition, the four things its noise is a function of.
Measurements ==
  {<<o.paradigm, o.entity, o.action, o.rep>> : o \in Range(visible)}
    \cup {<<"B", o.entity, o.action, o.rep>> : o \in Range(outcomes)}
MeasuredOnce == Cardinality(Measurements) = Len(visible) + Len(outcomes)

\* Whatever raised on the way, no purpose is overspent, and a world closes having
\* used each of the five allocations whole or not at all; what it reports as unused
\* is what its own records leave.
BudgetAccounts ==
  /\ \A p \in Purposes : spent[p] <= Budget[p]
  /\ result # None =>
       /\ \A p \in Purposes : spent[p] \in {0, Budget[p]}
       /\ result.unused = Total(Budget) - Len(visible) - Len(outcomes)
                            - attempts["A"] * ATheoryEvalBudget
                            - attempts["B"] * BTheoryEvalBudget
       /\ result.outcome = "d4" <=> result.unused = 0

\* A D4 result is about one theory: it keeps the latent variable frozen before B
\* data existed, and it qualifies exactly when that theory, scored again on all raw
\* observations, fits A, fits B and predicts the transfer outcomes, with a B program
\* that no relabeling turns into its A program.
QualifiedFromRaw ==
  result # None /\ result.outcome = "d4" =>
    /\ Latent(bTheory) = Latent(frozen)
    /\ ~Isomorphic(ProgramFor(bTheory, "A"), ProgramFor(bTheory, "B"), Latent(bTheory))
    /\ result.qualifies <=>
         /\ Fits(bTheory, "A", visible)
         /\ Fits(bTheory, "B", visible)
         /\ AtLeast(Cardinality({i \in DOMAIN outcomes : outcomes[i].y =
                      Predict(bTheory, "B", outcomes[i].entity, outcomes[i].action)}),
                    BTransferBudget, TransferNum, TransferDen)

\* Sealed outcomes are held out: predictions are committed once, before the first
\* of them; the outcomes are those of the committed predictions, in order, and of
\* entities that no visible B experiment has touched.
Logged(event) == {i \in DOMAIN ledger : ledger[i] = event}
CommittedBeforeMeasured ==
  /\ Cardinality(Logged("transfer_predictions_committed")) <= 1
  /\ \A i \in Logged("sealed_transfer_observation") :
       \E j \in Logged("transfer_predictions_committed") : j < i
  /\ \A i \in DOMAIN outcomes :
       /\ committed[i] = Prediction(challenges[i])
       /\ <<outcomes[i].entity, outcomes[i].action, outcomes[i].predicted>>
            = <<committed[i].entity, committed[i].action, committed[i].predicted>>
       /\ \A o \in Range(visible) : o.paradigm = "B" => o.entity # outcomes[i].entity

\* No rejection sampling against visible data: a gate is attempted once, and after
\* the attempt neither its evidence nor the theory it froze ever changes.
NoRejectionSampling ==
  [][\A gate \in {"A", "B"} : attempts[gate] > 0 =>
       /\ attempts'[gate] = attempts[gate]
       /\ ObservationsIn(visible', gate) = ObservationsIn(visible, gate)
       /\ gate = "A" => frozen' = frozen
       /\ gate = "B" => bTheory' = bTheory]_vars

-------------------------------------------------------------------------------
(* What the repository's README says without a proviso on the agents' ids.  *)

\* "After an accepted B theory, all 32 transfer predictions are generated directly
\* from the committed Theory AST before any held-out outcome is requested."
AcceptedTheoryPredicts == bTheory # None ~> committed # <<>>
===============================================================================
