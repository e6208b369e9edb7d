---------------------------- MODULE V0Broker_proofs ----------------------------
(***************************************************************************)
(* Theorems about V0Broker, for every value of its constants and with any  *)
(* number of uncaught exceptions.                                          *)
(***************************************************************************)
EXTENDS V0Broker, SequenceTheorems, FiniteSetTheorems, TLAPS

-------------------------------------------------------------------------------
(* The transfer challenges.                                                *)

LEMMA BrokerNumbers ==
  /\ {ADiscoveryBudget, ATheoryEvalBudget, BCalibrationBudget, BTheoryEvalBudget,
      ChallengesPerEntity, NumEntities, DomainSize, TransferNum, TransferDen}
       \subseteq Nat \ {0}
  /\ IsFiniteSet(Entities) /\ Entities \subseteq Nat
  /\ IsFiniteSet(Domain) /\ Domain \subseteq Nat
  /\ CalibrationEntities \subseteq Entities
<1>1. /\ {ADiscoveryBudget, ATheoryEvalBudget, BCalibrationBudget, BTheoryEvalBudget,
          ChallengesPerEntity, TransferNum, TransferDen} \subseteq Nat \ {0}
      /\ CalibrationEntities \subseteq Entities
  BY BrokerConstants
<1>2. NumEntities \in Nat \ {0} /\ DomainSize \in Nat \ {0}
  BY TheoryConstants
<1>3. /\ IsFiniteSet(Entities) /\ Entities \subseteq Nat
      /\ IsFiniteSet(Domain) /\ Domain \subseteq Nat
  BY <1>2, FS_Interval DEF Entities, Domain
<1> QED
  BY <1>1, <1>2, <1>3

\* Half of the entities are held out, so there is something to predict.
LEMMA TransferNumbers ==
  /\ TransferEntities \subseteq Entities /\ IsFiniteSet(TransferEntities)
  /\ Cardinality(TransferEntities) \in Nat
  /\ BTransferBudget \in Nat \ {0}
<1>1. TransferEntities \in SUBSET Entities
  BY DEF TransferEntities
<1>2. /\ IsFiniteSet(TransferEntities) /\ Cardinality(TransferEntities) \in Nat
      /\ IsFiniteSet(CalibrationEntities) /\ Cardinality(CalibrationEntities) \in Nat
  BY <1>1, BrokerNumbers, FS_Subset, FS_CardinalityType
<1>3. TransferEntities # {}
  <2>1. ASSUME TransferEntities = {}
        PROVE  FALSE
    <3>1. CalibrationEntities = Entities
      BY <2>1, BrokerNumbers DEF TransferEntities
    <3>2. Cardinality(Entities) = NumEntities /\ NumEntities \in Nat \ {0}
      <4>1. NumEntities \in Nat \ {0} /\ NumEntities - 1 \in Int /\ 0 \in Int
        BY BrokerNumbers
      <4>2. Cardinality(0 .. NumEntities - 1)
              = IF 0 > NumEntities - 1 THEN 0 ELSE NumEntities - 1 - 0 + 1
        BY <4>1, FS_Interval
      <4> QED
        BY <4>1, <4>2 DEF Entities
    <3>3. 2 * Cardinality(CalibrationEntities) = NumEntities
      BY BrokerConstants
    <3>4. 2 * NumEntities = NumEntities
      BY <3>1, <3>2, <3>3
    <3> QED
      BY <3>2, <3>4
  <2> QED
    BY <2>1
<1>4. Cardinality(TransferEntities) # 0
  BY <1>2, <1>3, FS_EmptySet
<1>5. \A c, n \in Nat \ {0} : c * n \in Nat \ {0}
  OBVIOUS
<1>6. BTransferBudget \in Nat \ {0}
  BY <1>2, <1>4, <1>5, BrokerNumbers DEF BTransferBudget
<1> QED
  BY <1>1, <1>2, <1>6

Subsets == {A \in SUBSET Domain : Cardinality(A) = ChallengesPerEntity}

\* Each held-out entity contributes as many pairs as it has challenges.
LEMMA ChallengePairsCount ==
  ASSUME NEW chosen \in [TransferEntities -> Subsets]
  PROVE  /\ IsFiniteSet(ChallengePairs(chosen))
         /\ Cardinality(ChallengePairs(chosen)) = BTransferBudget
<1> DEFINE T == TransferEntities
           C == 1 .. ChallengesPerEntity
           P == ChallengePairs(chosen)
           g == [f \in T |-> CHOOSE b : b \in Bijection(chosen[f], C)]
           h == [p \in P |-> <<p[1], g[p[1]][p[2]]>>]
<1>1. /\ IsFiniteSet(T) /\ IsFiniteSet(Domain)
      /\ ChallengesPerEntity \in Nat
  BY TransferNumbers, BrokerNumbers
<1>2. IsFiniteSet(C) /\ Cardinality(C) = ChallengesPerEntity
  BY <1>1, FS_Interval
<1>3. IsFiniteSet(P)
  <2>1. P \in SUBSET (T \X Domain)
    BY DEF ChallengePairs
  <2> QED
    BY <1>1, <2>1, FS_Product, FS_Subset
<1>4. ASSUME NEW f \in T
      PROVE  g[f] \in Bijection(chosen[f], C)
  <2>1. chosen[f] \in SUBSET Domain /\ Cardinality(chosen[f]) = ChallengesPerEntity
    BY DEF Subsets
  <2>2. ExistsBijection(chosen[f], C)
    BY <1>1, <1>2, <2>1, FS_Subset, FS_SameCardinalityBij
  <2> QED
    BY <2>2 DEF ExistsBijection
<1> HIDE DEF g, C
<1>5. \A p \in P : /\ p[1] \in T /\ p[2] \in chosen[p[1]] /\ p = <<p[1], p[2]>>
                   /\ g[p[1]][p[2]] \in C
  BY <1>4 DEF ChallengePairs, Bijection, Injection
<1>6. h \in [P -> T \X C]
  BY <1>5
<1>7. \A p, q \in P : h[p] = h[q] => p = q
  <2> SUFFICES ASSUME NEW p \in P, NEW q \in P, h[p] = h[q]
               PROVE  p = q
    OBVIOUS
  <2>1. p[1] = q[1] /\ g[p[1]][p[2]] = g[q[1]][q[2]]
    OBVIOUS
  <2>2. g[p[1]] \in Injection(chosen[p[1]], C)
    BY <1>4, <1>5 DEF Bijection
  <2>3. p[2] = q[2]
    BY <1>5, <2>1, <2>2 DEF Injection, IsInjective
  <2> QED
    BY <1>5, <2>1, <2>3
<1>8. \A t \in T \X C : \E p \in P : h[p] = t
  <2> SUFFICES \A f \in T, k \in C : \E p \in P : h[p] = <<f, k>>
    <3>1. \A t \in T \X C : t[1] \in T /\ t[2] \in C /\ t = <<t[1], t[2]>>
      OBVIOUS
    <3> HIDE DEF h, P, T
    <3> QED
      BY <3>1
  <2> SUFFICES ASSUME NEW f \in T, NEW k \in C
               PROVE  \E p \in P : h[p] = <<f, k>>
    OBVIOUS
  <2>1. PICK a \in chosen[f] : g[f][a] = k
    BY <1>4 DEF Bijection, Surjection
  <2>2. <<f, a>> \in P
    <3>1. a \in Domain
      BY <2>1 DEF Subsets
    <3> QED
      BY <2>1, <3>1 DEF ChallengePairs
  <2>3. h[<<f, a>>] = <<f, k>>
    <3>1. h[<<f, a>>] = <<<<f, a>>[1], g[<<f, a>>[1]][<<f, a>>[2]]>>
      BY <2>2
    <3> QED
      BY <2>1, <3>1
  <2> QED
    BY <2>2, <2>3
<1> HIDE DEF h, P
<1>9. h \in Bijection(P, T \X C)
  BY <1>6, <1>7, <1>8 DEF Bijection, Injection, IsInjective, Surjection
<1>10. ExistsBijection(P, T \X C)
  BY <1>9 DEF ExistsBijection
<1>11. Cardinality(T \X C) = Cardinality(P)
  BY <1>3, <1>10, FS_Bijection
<1>12. Cardinality(T \X C) = Cardinality(T) * Cardinality(C)
  BY <1>1, <1>2, FS_Product
<1>13. Cardinality(T) * ChallengesPerEntity = BTransferBudget
  BY <1>1, TransferNumbers DEF BTransferBudget
<1> QED
  BY <1>2, <1>3, <1>11, <1>12, <1>13 DEF P

Challenges == [entity : TransferEntities, action : Domain]

\* There is a pair at every place of the order, so a challenge list is full and
\* of held-out entities only.
LEMMA ChallengeOrderType ==
  ASSUME NEW chosen \in [TransferEntities -> Subsets]
  PROVE  /\ ChallengeOrder(chosen) \in Seq(Challenges)
         /\ Len(ChallengeOrder(chosen)) = BTransferBudget
<1> DEFINE P == ChallengePairs(chosen)
           n == BTransferBudget
           rank == [p \in P |-> Cardinality(UpTo(chosen, p))]
<1>1. IsFiniteSet(P) /\ Cardinality(P) = n /\ n \in Nat
  BY ChallengePairsCount, TransferNumbers
<1>2. \A p \in P : /\ p[1] \in TransferEntities /\ p[2] \in Domain /\ p = <<p[1], p[2]>>
                   /\ p[1] \in Nat /\ p[2] \in Nat
  <2>1. TransferEntities \subseteq Nat /\ Domain \subseteq Nat
    BY TransferNumbers, BrokerNumbers
  <2>2. \A p \in P : p[1] \in TransferEntities /\ p[2] \in Domain /\ p = <<p[1], p[2]>>
    BY DEF ChallengePairs
  <2> HIDE DEF P
  <2> QED
    BY <2>1, <2>2
<1> HIDE DEF P, n
<1>3. ASSUME NEW p \in P
      PROVE  /\ UpTo(chosen, p) \in SUBSET P /\ p \in UpTo(chosen, p)
             /\ IsFiniteSet(UpTo(chosen, p)) /\ Cardinality(UpTo(chosen, p)) \in 1 .. n
  <2>1. UpTo(chosen, p) \in SUBSET P /\ p \in UpTo(chosen, p)
    BY <1>2 DEF UpTo, P
  <2>2. IsFiniteSet(UpTo(chosen, p)) /\ Cardinality(UpTo(chosen, p)) <= n
    BY <1>1, <2>1, FS_Subset
  <2>3. Cardinality(UpTo(chosen, p)) \in Nat /\ Cardinality(UpTo(chosen, p)) # 0
    BY <2>1, <2>2, FS_CardinalityType, FS_EmptySet
  <2> QED
    BY <1>1, <2>1, <2>2, <2>3
<1>4. ASSUME NEW p \in P, NEW q \in P, p[1] < q[1] \/ (p[1] = q[1] /\ p[2] < q[2])
      PROVE  Cardinality(UpTo(chosen, p)) # Cardinality(UpTo(chosen, q))
  <2>1. UpTo(chosen, p) \in SUBSET UpTo(chosen, q)
    <3>1. \A r \in P : /\ r[1] < p[1] \/ (r[1] = p[1] /\ r[2] <= p[2])
                       => r[1] < q[1] \/ (r[1] = q[1] /\ r[2] <= q[2])
      BY <1>2, <1>4
    <3> QED
      BY <3>1 DEF UpTo, P
  <2>2. q \notin UpTo(chosen, p)
    BY <1>2, <1>4 DEF UpTo
  <2>3. UpTo(chosen, p) # UpTo(chosen, q)
    BY <1>3, <2>2
  <2> QED
    BY <1>3, <2>1, <2>3, FS_Subset
<1>5. rank \in Injection(P, 1 .. n)
  <2>1. rank \in [P -> 1 .. n]
    BY <1>3
  <2>2. ASSUME NEW p \in P, NEW q \in P, p # q
        PROVE  rank[p] # rank[q]
    <3>1. \/ p[1] < q[1] \/ (p[1] = q[1] /\ p[2] < q[2])
          \/ q[1] < p[1] \/ (q[1] = p[1] /\ q[2] < p[2])
      BY <1>2, <2>2
    <3> QED
      BY <1>4, <3>1
  <2> HIDE DEF rank
  <2> QED
    BY <2>1, <2>2 DEF Injection, IsInjective
<1>6. IsFiniteSet(1 .. n) /\ Cardinality(1 .. n) = n
  BY <1>1, FS_Interval
<1>7. rank \in Surjection(P, 1 .. n)
  BY <1>1, <1>5, <1>6, FS_Injection
<1>8. \A i \in 1 .. n : \E p \in P : Cardinality(UpTo(chosen, p)) = i
  BY <1>7 DEF Surjection
<1> DEFINE at(i) == CHOOSE p \in P : Cardinality(UpTo(chosen, p)) = i
<1>9. \A i \in 1 .. n : at(i) \in P
  BY <1>8
<1>10. ChallengeOrder(chosen) = [i \in 1 .. n |-> [entity |-> at(i)[1], action |-> at(i)[2]]]
  BY DEF ChallengeOrder, P, n
<1> HIDE DEF at
<1>11. \A i \in 1 .. n : [entity |-> at(i)[1], action |-> at(i)[2]] \in Challenges
  BY <1>2, <1>9 DEF Challenges
<1>12. ChallengeOrder(chosen) \in [1 .. n -> Challenges]
  BY <1>10, <1>11
<1> HIDE DEF n
<1> QED
  BY <1>1, <1>12 DEF n

-------------------------------------------------------------------------------
(* What the variables hold.                                                *)

Phases == {"A_DISCOVERY", "A_FROZEN", "B_CALIBRATION", "B_TRANSFER", "CLOSED"}
Events ==
  {"run_opened", "epistemic_cycle_started", "visible_experiment", "a_theory_frozen",
   "run_closed_gate_failure", "run_closed_no_concept", "b_calibration_opened",
   "b_theory_committed", "transfer_predictions_committed", "sealed_transfer_observation",
   "run_closed"}
Observations ==
  [paradigm : {"A", "B"}, entity : Entities, action : Domain, rep : Nat, y : Domain]
Predictions == [entity : TransferEntities, action : Domain, predicted : Domain]
Outcomes ==
  [entity : TransferEntities, action : Domain, rep : Nat, predicted : Domain, y : Domain]

\* A theory that assigns every entity a label predicts an outcome for every pair.
Assigns(theory) == Latent(theory).assignments \in [Entities -> 0 .. MaxCardinality - 1]
Sound(theory) == Assigns(theory) /\ ProgramFor(theory, "B").table \in Tables

TypeInv ==
  /\ phase \in Phases
  /\ reps \in [{"A", "B"} \X Entities \X Domain -> Nat]
  /\ visible \in Seq(Observations)
  /\ spent \in [Purposes -> Nat]
  /\ attempts \in [{"A", "B"} -> {0, 1}]
  /\ frozen # None => Assigns(frozen)
  /\ bTheory # None => Sound(bTheory)
  /\ challenges \in Seq(Challenges)
  /\ committed \in Seq(Predictions)
  /\ evaluating \in BOOLEAN
  /\ outcomes \in Seq(Outcomes)
  /\ ledger \in Seq(Events)

-------------------------------------------------------------------------------
(* Type correctness.                                                       *)

\* The five purposes, each with an allocation to exhaust.
LEMMA PurposeNames ==
  /\ Purposes = {"A_discovery", "A_theory_eval", "B_calibration", "B_theory_eval",
                 "B_transfer_eval"}
  /\ Budget["A_discovery"] = ADiscoveryBudget /\ Budget["A_theory_eval"] = ATheoryEvalBudget
  /\ Budget["B_calibration"] = BCalibrationBudget
  /\ Budget["B_theory_eval"] = BTheoryEvalBudget
  /\ Budget["B_transfer_eval"] = BTransferBudget
BY DEF Purposes, Budget

LEMMA Allocations ==
  /\ ADiscoveryBudget \in Nat \ {0} /\ ATheoryEvalBudget \in Nat \ {0}
  /\ BCalibrationBudget \in Nat \ {0} /\ BTheoryEvalBudget \in Nat \ {0}
  /\ BTransferBudget \in Nat \ {0}
BY BrokerNumbers, TransferNumbers

\* A legal theory has a legal program for a paradigm it has one program for.
LEMMA ProgramLegal ==
  ASSUME NEW theory \in TheoryChoices, theory # None, NEW p, HasProgram(theory, p)
  PROVE  ProgramFor(theory, p) \in Programs
<1>1. theory.programs \in Seq(Programs)
  BY BrokerConstants DEF LegalTheory
<1>2. ProgramsFor(theory, p) # {}
  BY FS_EmptySet DEF HasProgram
<1>3. (CHOOSE i \in ProgramsFor(theory, p) : TRUE) \in DOMAIN theory.programs
  BY <1>2 DEF ProgramsFor
<1> QED
  BY <1>1, <1>3 DEF ProgramFor

\* A legal latent variable labels the entities it is assigned to.
LEMMA LatentLegal ==
  ASSUME NEW theory \in TheoryChoices, theory # None, Len(theory.latent_variables) = 1,
         DOMAIN Latent(theory).assignments = Entities
  PROVE  Assigns(theory)
<1>1. Latent(theory) \in Latents
  <2>1. theory.latent_variables \in Seq(Latents)
    BY BrokerConstants DEF LegalTheory
  <2> QED
    BY <2>1 DEF Latent
<1>2. PICK S \in SUBSET Entities :
        Latent(theory).assignments \in [S -> 0 .. MaxCardinality - 1]
  BY <1>1 DEF Latents
<1>3. S = Entities
  BY <1>2
<1> QED
  BY <1>2, <1>3 DEF Assigns

\* What a theory predicts for a challenge is an outcome.
LEMMA PredictionType ==
  ASSUME Sound(bTheory), NEW challenge \in Challenges
  PROVE  Prediction(challenge) \in Predictions
<1>1. /\ challenge.entity \in TransferEntities /\ challenge.entity \in Entities
      /\ challenge.action \in Domain
  BY TransferNumbers DEF Challenges
<1>2. Latent(bTheory).assignments[challenge.entity] \in 0 .. MaxCardinality - 1
  BY <1>1 DEF Sound, Assigns
<1>3. ProgramFor(bTheory, "B").table \in [(0 .. MaxCardinality - 1) \X Domain -> Domain]
  BY DEF Sound, Tables
<1>4. Predict(bTheory, "B", challenge.entity, challenge.action) \in Domain
  BY <1>1, <1>2, <1>3 DEF Predict
<1> QED
  BY <1>1, <1>4 DEF Prediction, Predictions

\* A legal experiment is on one of the pairs with a counter.
LEMMA ExperimentType ==
  ASSUME NEW exp \in Experiments
  PROVE  /\ exp.paradigm \in {"A", "B"} /\ exp.entity \in Entities /\ exp.action \in Domain
         /\ RepKey(exp) \in {"A", "B"} \X Entities \X Domain
<1>1. exp \in ExperimentASTs
  BY BrokerConstants
<1> QED
  BY <1>1 DEF ExperimentASTs, RepKey

LEMMA TypeInit == Init => TypeInv
<1> SUFFICES ASSUME Init
             PROVE  TypeInv
  OBVIOUS
<1>1. reps \in [{"A", "B"} \X Entities \X Domain -> Nat] /\ spent \in [Purposes -> Nat]
  BY DEF Init
<1>2. attempts \in [{"A", "B"} -> {0, 1}]
  BY DEF Init
<1>3. /\ visible \in Seq(Observations) /\ challenges \in Seq(Challenges)
      /\ committed \in Seq(Predictions) /\ outcomes \in Seq(Outcomes)
      /\ ledger \in Seq(Events)
  BY DEF Init, Events
<1> QED
  BY <1>1, <1>2, <1>3 DEF Init, TypeInv, Phases

\* A call ends in a known phase and appends at most one known event.
LEMMA TypeOfLog ==
  ASSUME TypeInv, NEW event \in Events, Log(event)
  PROVE  ledger' \in Seq(Events)
BY DEF TypeInv, Log

LEMMA TypeOfCharge ==
  ASSUME TypeInv, NEW gate \in {"A", "B"}, attempts[gate] = 0, Charge(gate)
  PROVE  spent' \in [Purposes -> Nat] /\ attempts' \in [{"A", "B"} -> {0, 1}]
<1>1. spent' \in [Purposes -> Nat]
  BY Allocations, PurposeNames DEF TypeInv, Charge, Charged
<1>2. attempts' \in [{"A", "B"} -> {0, 1}]
  BY DEF TypeInv, Charge
<1> QED
  BY <1>1, <1>2

LEMMA TypeOfVisible ==
  ASSUME TypeInv, NEW exp \in Experiments, RunVisibleExperiment(exp)
  PROVE  TypeInv'
<1>1. /\ reps[RepKey(exp)] \in Nat
      /\ reps' \in [{"A", "B"} \X Entities \X Domain -> Nat]
  BY ExperimentType DEF TypeInv, RunVisibleExperiment, Claim, NextRepetition
<1>2. visible' \in Seq(Observations)
  <2>1. PICK y \in Domain :
          visible' = Append(visible, [paradigm |-> exp.paradigm, entity |-> exp.entity,
                                      action |-> exp.action, rep |-> reps[RepKey(exp)],
                                      y |-> y])
    BY DEF RunVisibleExperiment
  <2>2. [paradigm |-> exp.paradigm, entity |-> exp.entity, action |-> exp.action,
         rep |-> reps[RepKey(exp)], y |-> y] \in Observations
    BY <1>1, ExperimentType DEF Observations
  <2> QED
    BY <2>1, <2>2 DEF TypeInv
<1>3. spent' \in [Purposes -> Nat]
  BY PurposeNames DEF TypeInv, RunVisibleExperiment, Purpose
<1>4. ledger' \in Seq(Events)
  BY TypeOfLog DEF RunVisibleExperiment, Events
<1> QED
  BY <1>1, <1>2, <1>3, <1>4 DEF TypeInv, RunVisibleExperiment, theories, transfer,
     Assigns, Sound

\* What the evaluation observes next is one of the committed predictions.
LEMMA CurrentType ==
  ASSUME TypeInv, Len(outcomes) < Len(committed)
  PROVE  /\ Current \in Predictions
         /\ TransferKey \in {"A", "B"} \X Entities \X Domain
         /\ reps[TransferKey] \in Nat
         /\ NextRepetition(TransferKey) \in [{"A", "B"} \X Entities \X Domain -> Nat]
<1>1. Current \in Predictions
  BY DEF TypeInv, Current
<1>2. TransferKey \in {"A", "B"} \X Entities \X Domain
  BY <1>1, TransferNumbers DEF Predictions, TransferKey
<1> QED
  BY <1>1, <1>2 DEF TypeInv, NextRepetition

LEMMA TypeOfOutcome ==
  ASSUME TypeInv, ObserveTransfer
  PROVE  TypeInv'
<1>1. /\ Current \in Predictions /\ reps[TransferKey] \in Nat
      /\ reps' \in [{"A", "B"} \X Entities \X Domain -> Nat]
  BY CurrentType DEF ObserveTransfer
<1>2. outcomes' \in Seq(Outcomes)
  <2>1. PICK y \in Domain :
          outcomes' = Append(outcomes, [entity |-> Current.entity,
                                        action |-> Current.action,
                                        rep |-> reps[TransferKey],
                                        predicted |-> Current.predicted, y |-> y])
    BY DEF ObserveTransfer
  <2>2. [entity |-> Current.entity, action |-> Current.action, rep |-> reps[TransferKey],
         predicted |-> Current.predicted, y |-> y] \in Outcomes
    BY <1>1 DEF Outcomes, Predictions
  <2> QED
    BY <2>1, <2>2 DEF TypeInv
<1>3. spent' \in [Purposes -> Nat]
  BY PurposeNames DEF TypeInv, ObserveTransfer
<1>4. ledger' \in Seq(Events)
  BY TypeOfLog DEF ObserveTransfer, Events
<1> QED
  BY <1>1, <1>2, <1>3, <1>4 DEF TypeInv, ObserveTransfer, theories, Assigns, Sound

LEMMA TypeOfGates ==
  ASSUME TypeInv, NEW theory \in TheoryChoices,
         \/ FreezeATheory(theory) \/ FailAGate(theory)
         \/ SubmitBTheory(theory) \/ FailBGate(theory) \/ BGateUndecided(theory)
  PROVE  TypeInv'
<1>1. CASE FreezeATheory(theory)
  <2>1. Assigns(theory)
    BY <1>1, LatentLegal DEF FreezeATheory, PassesAGate
  <2>2. /\ spent' \in [Purposes -> Nat] /\ attempts' \in [{"A", "B"} -> {0, 1}]
        /\ ledger' \in Seq(Events)
    BY <1>1, TypeOfCharge, TypeOfLog DEF FreezeATheory, AGateOpen, Events
  <2> QED
    BY <1>1, <2>1, <2>2 DEF TypeInv, FreezeATheory, measured, transfer, Phases, Sound, Assigns
<1>2. ASSUME NEW gate \in {"A", "B"}, attempts[gate] = 0, FailGate(gate)
      PROVE  TypeInv'
  <2>1. /\ spent' \in [Purposes -> Nat] /\ attempts' \in [{"A", "B"} -> {0, 1}]
        /\ ledger' \in Seq(Events)
    BY <1>2, TypeOfCharge, TypeOfLog DEF FailGate, Close, Events
  <2> QED
    BY <1>2, <2>1 DEF TypeInv, FailGate, Close, measured, theories, transfer, Phases, Sound, Assigns
<1>3. CASE FailAGate(theory)
  BY <1>2, <1>3 DEF FailAGate, AGateOpen
<1>4. CASE SubmitBTheory(theory)
  <2>1. /\ theory # None /\ HasProgram(theory, "B") /\ Latent(theory) = Latent(frozen)
        /\ Assigns(frozen)
    BY <1>4 DEF TypeInv, SubmitBTheory, BGateOpen, PassesBGate, ReachesSolver
  <2>2. Sound(theory)
    <3>1. ProgramFor(theory, "B").table \in Tables
      BY <2>1, ProgramLegal DEF Programs
    <3> QED
      BY <2>1, <3>1 DEF Sound, Assigns
  <2>3. /\ spent' \in [Purposes -> Nat] /\ attempts' \in [{"A", "B"} -> {0, 1}]
        /\ ledger' \in Seq(Events)
    BY <1>4, TypeOfCharge, TypeOfLog DEF SubmitBTheory, BGateOpen, Events
  <2>4. challenges' \in Seq(Challenges)
    BY <1>4, ChallengeOrderType DEF SubmitBTheory, Subsets
  <2> QED
    BY <1>4, <2>2, <2>3, <2>4 DEF TypeInv, SubmitBTheory, measured, Phases, Sound, Assigns
<1>5. CASE FailBGate(theory)
  BY <1>2, <1>5 DEF FailBGate, BGateOpen
<1>6. CASE BGateUndecided(theory)
  <2>1. spent' \in [Purposes -> Nat] /\ attempts' \in [{"A", "B"} -> {0, 1}]
    BY <1>6, TypeOfCharge DEF BGateUndecided, BGateOpen
  <2> QED
    BY <1>6, <2>1 DEF TypeInv, BGateUndecided, measured, theories, transfer, Sound, Assigns
<1> QED
  BY <1>1, <1>3, <1>4, <1>5, <1>6

LEMMA TypeOfTransfer ==
  ASSUME TypeInv, CommitPredictions \/ ObserveTransferRaises \/ CloseRun
  PROVE  TypeInv'
<1>1. CASE CommitPredictions
  <2>1. \A i \in DOMAIN challenges : Prediction(challenges[i]) \in Predictions
    <3>1. Sound(bTheory)
      BY <1>1 DEF TypeInv, CommitPredictions, TransferOpen
    <3>2. \A i \in DOMAIN challenges : challenges[i] \in Challenges
      BY DEF TypeInv
    <3> QED
      BY <3>1, <3>2, PredictionType
  <2>2. committed' \in Seq(Predictions)
    <3>1. DOMAIN challenges = 1 .. Len(challenges) /\ Len(challenges) \in Nat
      BY DEF TypeInv
    <3>2. committed' = [i \in 1 .. Len(challenges) |-> Prediction(challenges[i])]
      BY <1>1, <3>1 DEF CommitPredictions
    <3>3. committed' \in [1 .. Len(challenges) -> Predictions]
      BY <2>1, <3>1, <3>2
    <3> QED
      BY <3>1, <3>3
  <2>3. ledger' \in Seq(Events)
    BY <1>1, TypeOfLog DEF CommitPredictions, Events
  <2> QED
    BY <1>1, <2>2, <2>3 DEF TypeInv, CommitPredictions, accounts, theories, Sound, Assigns
<1>2. CASE ObserveTransferRaises
  BY <1>2, CurrentType DEF TypeInv, ObserveTransferRaises, accounts, theories, Sound, Assigns
<1>3. CASE CloseRun
  <2>1. ledger' \in Seq(Events)
    BY <1>3, TypeOfLog DEF CloseRun, Close, Events
  <2> QED
    BY <1>3, <2>1 DEF TypeInv, CloseRun, Close, measured, accounts, theories, Phases, Sound, Assigns
<1> QED
  BY <1>1, <1>2, <1>3

LEMMA TypeStep == TypeInv /\ [Next]_vars => TypeInv'
<1> SUFFICES ASSUME TypeInv, [Next]_vars
             PROVE  TypeInv'
  OBVIOUS
<1> USE DEF measured, accounts, theories, transfer
<1>1. CASE StartEpistemicCycle
  BY <1>1, TypeOfLog DEF TypeInv, StartEpistemicCycle, Sound, Assigns, Events
<1>2. CASE DeclareNoConcept
  BY <1>2, TypeOfLog DEF TypeInv, DeclareNoConcept, Close, Sound, Assigns, Events, Phases
<1>3. CASE OpenBCalibration
  BY <1>3, TypeOfLog DEF TypeInv, OpenBCalibration, Sound, Assigns, Events, Phases
<1>4. ASSUME NEW exp \in Experiments, VisibleExperimentRaises(exp)
      PROVE  TypeInv'
  <2>1. reps' \in [{"A", "B"} \X Entities \X Domain -> Nat]
    BY <1>4, ExperimentType DEF TypeInv, VisibleExperimentRaises, Claim, NextRepetition
  <2> QED
    BY <1>4, <2>1 DEF TypeInv, VisibleExperimentRaises, Sound, Assigns
<1>5. CASE TransferIdTaken
  BY <1>5 DEF TypeInv, TransferIdTaken, Sound, Assigns
<1>6. CASE UNCHANGED vars
  BY <1>6 DEF TypeInv, vars, Sound, Assigns
<1> QED
  BY <1>1, <1>2, <1>3, <1>4, <1>5, <1>6, TypeOfVisible, TypeOfGates, TypeOfTransfer,
     TypeOfOutcome DEF Next

\* Type correctness: in particular a world holds a theory that predicts an outcome for
\* every challenge before it commits a prediction, and every counter counts.
THEOREM Typed == Spec => []TypeInv
<1> QED
  BY TypeInit, TypeStep, PTL DEF Spec

-------------------------------------------------------------------------------
(* The stages of a world.                                                  *)

Opened == {"B_CALIBRATION", "B_TRANSFER"}

\* Nothing of B before B is opened, and all of A paid by then; a gate is attempted
\* when its data are complete, and then there are no more of them.
Staged ==
  /\ phase = "A_DISCOVERY" => attempts["A"] = 0 /\ spent["A_discovery"] <= ADiscoveryBudget
  /\ phase \in {"A_DISCOVERY", "A_FROZEN"} =>
       /\ attempts["B"] = 0
       /\ spent["B_calibration"] = 0 /\ spent["B_transfer_eval"] = 0
  /\ phase \in {"A_FROZEN"} \cup Opened =>
       /\ attempts["A"] = 1 /\ spent["A_discovery"] = ADiscoveryBudget /\ frozen # None
  /\ phase = "B_CALIBRATION" =>
       /\ spent["B_calibration"] <= BCalibrationBudget
       /\ attempts["B"] = 1 => spent["B_calibration"] = BCalibrationBudget
       /\ spent["B_transfer_eval"] = 0
  /\ phase = "B_TRANSFER" =>
       /\ attempts["B"] = 1 /\ spent["B_calibration"] = BCalibrationBudget
       /\ bTheory # None /\ Len(challenges) = BTransferBudget
  /\ phase \in {"A_DISCOVERY", "A_FROZEN", "B_CALIBRATION"} =>
       bTheory = None /\ outcomes = <<>> /\ committed = <<>>
  /\ evaluating => phase = "B_TRANSFER" /\ committed # <<>>

\* A charge touches one gate's attempts and payment.
LEMMA ChargeEffect ==
  ASSUME TypeInv, NEW gate \in {"A", "B"}, attempts[gate] = 0, Charge(gate)
  PROVE  /\ attempts'[gate] = 1
         /\ \A other \in {"A", "B"} : other # gate => attempts'[other] = attempts[other]
         /\ spent'["A_discovery"] = spent["A_discovery"]
         /\ spent'["B_calibration"] = spent["B_calibration"]
         /\ spent'["B_transfer_eval"] = spent["B_transfer_eval"]
         /\ gate = "A" => /\ spent'["A_theory_eval"] = ATheoryEvalBudget
                          /\ spent'["B_theory_eval"] = spent["B_theory_eval"]
         /\ gate = "B" => /\ spent'["B_theory_eval"] = BTheoryEvalBudget
                          /\ spent'["A_theory_eval"] = spent["A_theory_eval"]
BY PurposeNames DEF TypeInv, Charge, Charged

\* A visible experiment is billed to its own paradigm.
LEMMA VisibleEffect ==
  ASSUME TypeInv, NEW exp \in Experiments, RunVisibleExperiment(exp)
  PROVE  /\ exp.paradigm \in {"A", "B"}
         /\ spent'[Purpose(exp.paradigm)] = spent[Purpose(exp.paradigm)] + 1
         /\ \A p \in Purposes : p # Purpose(exp.paradigm) => spent'[p] = spent[p]
BY ExperimentType, PurposeNames DEF TypeInv, RunVisibleExperiment, Purpose

LEMMA StagedInit == Init => Staged
BY PurposeNames, Allocations DEF Init, Staged, Opened

LEMMA StagedGates ==
  ASSUME TypeInv, Staged, NEW theory \in TheoryChoices,
         \/ FreezeATheory(theory) \/ FailAGate(theory)
         \/ SubmitBTheory(theory) \/ FailBGate(theory) \/ BGateUndecided(theory)
  PROVE  Staged'
<1>1. CASE FreezeATheory(theory)
  <2>1. Charge("A") /\ attempts["A"] = 0 /\ theory # None
    BY <1>1 DEF FreezeATheory, AGateOpen, PassesAGate
  <2> QED
    BY <1>1, <2>1, ChargeEffect DEF Staged, FreezeATheory, AGateOpen, transfer, Opened
<1>2. CASE FailAGate(theory)
  BY <1>2, ChargeEffect DEF Staged, FailAGate, FailGate, AGateOpen, Close, transfer, theories, Opened
<1>3. CASE SubmitBTheory(theory)
  <2>1. Charge("B") /\ attempts["B"] = 0 /\ theory # None
    BY <1>3 DEF SubmitBTheory, BGateOpen, PassesBGate, ReachesSolver
  <2>2. Len(challenges') = BTransferBudget
    BY <1>3, ChallengeOrderType DEF SubmitBTheory, Subsets
  <2> QED
    BY <1>3, <2>1, <2>2, ChargeEffect DEF Staged, SubmitBTheory, BGateOpen, Idle, Opened
<1>4. CASE FailBGate(theory)
  BY <1>4, ChargeEffect DEF Staged, FailBGate, FailGate, BGateOpen, Idle, Close, transfer, theories, Opened
<1>5. CASE BGateUndecided(theory)
  <2>1. Charge("B") /\ attempts["B"] = 0
    BY <1>5 DEF BGateUndecided, BGateOpen
  <2> QED
    BY <1>5, <2>1, ChargeEffect DEF Staged, BGateUndecided, BGateOpen, Idle, transfer, theories, Opened
<1> QED
  BY <1>1, <1>2, <1>3, <1>4, <1>5

LEMMA StagedTransfer ==
  ASSUME TypeInv, Staged,
         CommitPredictions \/ ObserveTransfer \/ ObserveTransferRaises \/ CloseRun
  PROVE  Staged'
<1>1. CASE CommitPredictions
  <2>1. phase = "B_TRANSFER" /\ Len(challenges) # 0
    BY <1>1, Allocations DEF CommitPredictions, TransferOpen, Staged
  <2>2. committed' # <<>>
    <3>1. DOMAIN committed' = DOMAIN challenges /\ DOMAIN challenges = 1 .. Len(challenges)
          /\ Len(challenges) \in Nat
      BY <1>1 DEF CommitPredictions, TypeInv
    <3>2. 1 \in DOMAIN committed'
      BY <2>1, <3>1
    <3> QED
      BY <3>2
  <2> QED
    BY <1>1, <2>1, <2>2 DEF Staged, CommitPredictions, accounts, theories, Opened
<1>2. CASE ObserveTransfer
  <2>1. phase = "B_TRANSFER" /\ phase' = phase
    BY <1>2 DEF Staged, ObserveTransfer
  <2>2. \A p \in Purposes : p # "B_transfer_eval" => spent'[p] = spent[p]
    BY <1>2 DEF TypeInv, ObserveTransfer
  <2> QED
    BY <1>2, <2>1, <2>2, PurposeNames DEF Staged, ObserveTransfer, theories, Opened
<1>3. CASE ObserveTransferRaises
  BY <1>3 DEF Staged, ObserveTransferRaises, accounts, theories, Opened
<1>4. CASE CloseRun
  BY <1>4 DEF Staged, CloseRun, Close, accounts, theories, Opened
<1> QED
  BY <1>1, <1>2, <1>3, <1>4

LEMMA StagedStep == TypeInv /\ Staged /\ [Next]_vars => Staged'
<1> SUFFICES ASSUME TypeInv, Staged, [Next]_vars
             PROVE  Staged'
  OBVIOUS
<1> USE DEF accounts, theories, transfer, Opened
<1>1. CASE StartEpistemicCycle
  BY <1>1 DEF Staged, StartEpistemicCycle
<1>2. CASE DeclareNoConcept
  BY <1>2 DEF Staged, DeclareNoConcept, AGateOpen, Close, Idle
<1>3. CASE OpenBCalibration
  BY <1>3, Allocations DEF Staged, OpenBCalibration, Idle
<1>4. ASSUME NEW exp \in Experiments, RunVisibleExperiment(exp)
      PROVE  Staged'
  <2>1. CASE exp.paradigm = "A"
    <3>1. /\ phase = "A_DISCOVERY" /\ spent["A_discovery"] < ADiscoveryBudget
          /\ spent["A_discovery"] \in Nat
      BY <1>4, <2>1, PurposeNames DEF RunVisibleExperiment, Accepted, Permitted, TypeInv
    <3>2. /\ spent'["A_discovery"] = spent["A_discovery"] + 1
          /\ spent'["B_calibration"] = spent["B_calibration"]
          /\ spent'["B_transfer_eval"] = spent["B_transfer_eval"]
      BY <1>4, <2>1, VisibleEffect, PurposeNames DEF Purpose
    <3> QED
      BY <1>4, <3>1, <3>2, Allocations DEF Staged, RunVisibleExperiment
  <2>2. CASE exp.paradigm = "B"
    <3>1. /\ phase = "B_CALIBRATION" /\ spent["B_calibration"] < BCalibrationBudget
          /\ spent["B_calibration"] \in Nat
      BY <1>4, <2>2, PurposeNames DEF RunVisibleExperiment, Accepted, Permitted, TypeInv
    <3>2. /\ spent'["A_discovery"] = spent["A_discovery"]
          /\ spent'["B_calibration"] = spent["B_calibration"] + 1
          /\ spent'["B_transfer_eval"] = spent["B_transfer_eval"]
      BY <1>4, <2>2, VisibleEffect, PurposeNames DEF Purpose
    <3>3. attempts["B"] # 1
      BY <3>1 DEF Staged
    <3> QED
      BY <1>4, <3>1, <3>2, <3>3, Allocations DEF Staged, RunVisibleExperiment
  <2> QED
    BY <1>4, <2>1, <2>2, VisibleEffect
<1>5. ASSUME NEW exp \in Experiments, VisibleExperimentRaises(exp)
      PROVE  Staged'
  BY <1>5 DEF Staged, VisibleExperimentRaises
<1>6. CASE TransferIdTaken
  BY <1>6 DEF Staged, TransferIdTaken
<1>7. CASE UNCHANGED vars
  BY <1>7 DEF Staged, vars
<1> QED
  BY <1>1, <1>2, <1>3, <1>4, <1>5, <1>6, <1>7, StagedGates, StagedTransfer DEF Next

-------------------------------------------------------------------------------
(* The budget.                                                             *)

\* What is paid is what the records show, and gate charges follow attempts.
Counted ==
  /\ spent["A_theory_eval"] = IF attempts["A"] = 1 THEN ATheoryEvalBudget ELSE 0
  /\ spent["B_theory_eval"] = IF attempts["B"] = 1 THEN BTheoryEvalBudget ELSE 0
  /\ spent["B_transfer_eval"] = Len(outcomes)
  /\ spent["A_discovery"] + spent["B_calibration"] = Len(visible)
  /\ \A gate \in {"A", "B"} :
       /\ IsFiniteSet(ObservationsIn(visible, gate))
       /\ Cardinality(ObservationsIn(visible, gate)) = spent[Purpose(gate)]

\* A new observation is one more of its paradigm and none of the other.
LEMMA ObservationsAppend ==
  ASSUME NEW s \in Seq(Observations), NEW o \in Observations, NEW p
  PROVE  /\ o.paradigm = p =>
              /\ ObservationsIn(Append(s, o), p) = ObservationsIn(s, p) \cup {Len(s) + 1}
              /\ Len(s) + 1 \notin ObservationsIn(s, p)
         /\ o.paradigm # p => ObservationsIn(Append(s, o), p) = ObservationsIn(s, p)
<1> DEFINE t == Append(s, o)
<1>1. /\ DOMAIN s = 1 .. Len(s) /\ Len(s) \in Nat
      /\ DOMAIN t = 1 .. Len(s) + 1 /\ t[Len(s) + 1] = o
      /\ \A i \in DOMAIN s : t[i] = s[i]
  OBVIOUS
<1> HIDE DEF t
<1>2. \A i : i \in DOMAIN t <=> i \in DOMAIN s \/ i = Len(s) + 1
  BY <1>1
<1>3. /\ o.paradigm = p =>
           /\ ObservationsIn(t, p) = ObservationsIn(s, p) \cup {Len(s) + 1}
           /\ Len(s) + 1 \notin ObservationsIn(s, p)
      /\ o.paradigm # p => ObservationsIn(t, p) = ObservationsIn(s, p)
  BY <1>1, <1>2 DEF ObservationsIn
<1> QED
  BY <1>3 DEF t

\* What a visible experiment appends.
LEMMA VisibleRecord ==
  ASSUME TypeInv, NEW exp \in Experiments, RunVisibleExperiment(exp)
  PROVE  \E o \in Observations :
           /\ visible' = Append(visible, o)
           /\ o.paradigm = exp.paradigm /\ o.entity = exp.entity /\ o.action = exp.action
           /\ o.rep = reps[RepKey(exp)]
<1>1. PICK y \in Domain :
        visible' = Append(visible, [paradigm |-> exp.paradigm, entity |-> exp.entity,
                                    action |-> exp.action, rep |-> reps[RepKey(exp)],
                                    y |-> y])
  BY DEF RunVisibleExperiment
<1>2. [paradigm |-> exp.paradigm, entity |-> exp.entity, action |-> exp.action,
       rep |-> reps[RepKey(exp)], y |-> y] \in Observations
  BY ExperimentType DEF Observations, TypeInv
<1> QED
  BY <1>1, <1>2

LEMMA CountedInit == Init => Counted
<1> SUFFICES ASSUME Init
             PROVE  Counted
  OBVIOUS
<1>1. \A gate : ObservationsIn(visible, gate) = {}
  BY DEF Init, ObservationsIn
<1>2. /\ IsFiniteSet({}) /\ Cardinality({}) = 0
  BY FS_EmptySet
<1>3. /\ \A p \in Purposes : spent[p] = 0
      /\ \A gate \in {"A", "B"} : Purpose(gate) \in Purposes
  BY PurposeNames DEF Init, Purpose
<1>4. attempts["A"] = 0 /\ attempts["B"] = 0 /\ Len(visible) = 0 /\ Len(outcomes) = 0
  BY DEF Init
<1>5. \A gate \in {"A", "B"} :
        /\ IsFiniteSet(ObservationsIn(visible, gate))
        /\ Cardinality(ObservationsIn(visible, gate)) = spent[Purpose(gate)]
  BY <1>1, <1>2, <1>3, Zenon
<1> QED
  BY <1>3, <1>4, <1>5, PurposeNames DEF Counted

LEMMA CountedVisible ==
  ASSUME TypeInv, Counted, NEW exp \in Experiments, RunVisibleExperiment(exp)
  PROVE  Counted'
<1> DEFINE a == exp.paradigm
<1>1. PICK o \in Observations : visible' = Append(visible, o) /\ o.paradigm = a
  BY VisibleRecord
<1>2. /\ a \in {"A", "B"} /\ spent'[Purpose(a)] = spent[Purpose(a)] + 1
      /\ \A p \in Purposes : p # Purpose(a) => spent'[p] = spent[p]
      /\ \A p \in Purposes : spent[p] \in Nat
  BY VisibleEffect DEF TypeInv
<1>3. attempts' = attempts /\ outcomes' = outcomes
  BY DEF RunVisibleExperiment, transfer
<1>4. Len(visible') = Len(visible) + 1 /\ Len(visible) \in Nat /\ visible \in Seq(Observations)
  BY <1>1 DEF TypeInv
<1> HIDE DEF a
<1>5. ASSUME NEW gate \in {"A", "B"}
      PROVE  /\ IsFiniteSet(ObservationsIn(visible', gate))
             /\ Cardinality(ObservationsIn(visible', gate)) = spent'[Purpose(gate)]
  <2>1. /\ IsFiniteSet(ObservationsIn(visible, gate))
        /\ Cardinality(ObservationsIn(visible, gate)) = spent[Purpose(gate)]
    BY DEF Counted
  <2>2. CASE gate = a
    <3>1. /\ ObservationsIn(visible', gate) = ObservationsIn(visible, gate) \cup {Len(visible) + 1}
          /\ Len(visible) + 1 \notin ObservationsIn(visible, gate)
      BY <1>1, <1>4, <2>2, ObservationsAppend
    <3>2. /\ IsFiniteSet(ObservationsIn(visible', gate))
          /\ Cardinality(ObservationsIn(visible', gate))
               = Cardinality(ObservationsIn(visible, gate)) + 1
      BY <2>1, <3>1, FS_AddElement
    <3> QED
      BY <1>2, <2>1, <2>2, <3>2
  <2>3. CASE gate # a
    <3>1. ObservationsIn(visible', gate) = ObservationsIn(visible, gate)
      BY <1>1, <1>4, <2>3, ObservationsAppend
    <3>2. spent'[Purpose(gate)] = spent[Purpose(gate)]
      BY <1>2, <2>3, PurposeNames DEF Purpose
    <3> QED
      BY <2>1, <3>1, <3>2
  <2> QED
    BY <2>2, <2>3
<1>6. /\ spent'["A_theory_eval"] = spent["A_theory_eval"]
      /\ spent'["B_theory_eval"] = spent["B_theory_eval"]
      /\ spent'["B_transfer_eval"] = spent["B_transfer_eval"]
      /\ spent'["A_discovery"] + spent'["B_calibration"]
           = spent["A_discovery"] + spent["B_calibration"] + 1
  BY <1>2, PurposeNames DEF Purpose
<1> QED
  BY <1>3, <1>4, <1>5, <1>6 DEF Counted

LEMMA CountedCharge ==
  ASSUME TypeInv, Counted, NEW gate \in {"A", "B"}, attempts[gate] = 0, Charge(gate),
         visible' = visible, outcomes' = outcomes
  PROVE  Counted'
<1>1. \A g \in {"A", "B"} : spent'[Purpose(g)] = spent[Purpose(g)]
  BY ChargeEffect DEF Purpose
<1> QED
  BY <1>1, ChargeEffect DEF Counted

LEMMA CountedStep == TypeInv /\ Staged /\ Counted /\ [Next]_vars => Counted'
<1> SUFFICES ASSUME TypeInv, Staged, Counted, [Next]_vars
             PROVE  Counted'
  OBVIOUS
<1> USE DEF measured, accounts, theories, transfer
<1>1. ASSUME visible' = visible, spent' = spent, attempts' = attempts, outcomes' = outcomes
      PROVE  Counted'
  BY <1>1 DEF Counted
<1>2. CASE StartEpistemicCycle \/ DeclareNoConcept \/ OpenBCalibration
  BY <1>1, <1>2 DEF StartEpistemicCycle, DeclareNoConcept, OpenBCalibration
<1>3. CASE CommitPredictions \/ TransferIdTaken \/ ObserveTransferRaises \/ CloseRun
  BY <1>1, <1>3 DEF CommitPredictions, TransferIdTaken, ObserveTransferRaises, CloseRun
<1>4. ASSUME NEW exp \in Experiments, VisibleExperimentRaises(exp)
      PROVE  Counted'
  BY <1>1, <1>4 DEF VisibleExperimentRaises
<1>5. ASSUME NEW theory \in TheoryChoices,
             FreezeATheory(theory) \/ FailAGate(theory)
      PROVE  Counted'
  BY <1>5, CountedCharge DEF FreezeATheory, FailAGate, FailGate, AGateOpen
<1>6. ASSUME NEW theory \in TheoryChoices,
             SubmitBTheory(theory) \/ FailBGate(theory) \/ BGateUndecided(theory)
      PROVE  Counted'
  BY <1>6, CountedCharge DEF SubmitBTheory, FailBGate, BGateUndecided, FailGate, BGateOpen
<1>7. CASE ObserveTransfer
  <2>1. PICK o : outcomes' = Append(outcomes, o)
    BY <1>7 DEF ObserveTransfer
  <2>2. outcomes' \in Seq(Outcomes) /\ outcomes \in Seq(Outcomes)
    BY <1>7, TypeOfOutcome DEF TypeInv
  <2>3. Len(outcomes') = Len(outcomes) + 1
    BY <2>1, <2>2
  <2>4. /\ spent'["B_transfer_eval"] = spent["B_transfer_eval"] + 1
        /\ \A p \in Purposes : p # "B_transfer_eval" => spent'[p] = spent[p]
        /\ spent["B_transfer_eval"] \in Nat
    BY <1>7, PurposeNames DEF ObserveTransfer, TypeInv
  <2>5. \A gate \in {"A", "B"} : spent'[Purpose(gate)] = spent[Purpose(gate)]
    BY <2>4, PurposeNames DEF Purpose
  <2> QED
    BY <1>7, <2>3, <2>4, <2>5, PurposeNames DEF ObserveTransfer, Counted
<1>8. CASE UNCHANGED vars
  BY <1>1, <1>8 DEF vars
<1> QED
  BY <1>2, <1>3, <1>4, <1>5, <1>6, <1>7, <1>8, CountedVisible DEF Next

-------------------------------------------------------------------------------
(* The transfer evaluation.                                                *)

\* Predictions are committed for all the challenges, under ids of their own; outcomes
\* are of the committed predictions in their order; calibration data are not of the
\* held-out entities.
Transferred ==
  /\ committed # <<>> =>
       /\ TransferId(1) \in seenIds
       /\ Len(challenges) = BTransferBudget
       /\ committed = [i \in DOMAIN challenges |-> Prediction(challenges[i])]
  /\ Len(outcomes) <= Len(committed)
  /\ \A i \in DOMAIN outcomes :
       /\ outcomes[i].entity = committed[i].entity
       /\ outcomes[i].action = committed[i].action
       /\ outcomes[i].predicted = committed[i].predicted
  /\ \A i \in DOMAIN visible :
       visible[i].paradigm = "B" => visible[i].entity \in CalibrationEntities

\* What an observation of the evaluation appends.
LEMMA OutcomeRecord ==
  ASSUME TypeInv, ObserveTransfer
  PROVE  \E o \in Outcomes :
           /\ outcomes' = Append(outcomes, o)
           /\ o.entity = Current.entity /\ o.action = Current.action
           /\ o.predicted = Current.predicted /\ o.rep = reps[TransferKey]
<1>1. PICK y \in Domain :
        outcomes' = Append(outcomes, [entity |-> Current.entity, action |-> Current.action,
                                      rep |-> reps[TransferKey],
                                      predicted |-> Current.predicted, y |-> y])
  BY DEF ObserveTransfer
<1>2. Current \in Predictions /\ reps[TransferKey] \in Nat
  BY CurrentType DEF ObserveTransfer
<1>3. [entity |-> Current.entity, action |-> Current.action, rep |-> reps[TransferKey],
       predicted |-> Current.predicted, y |-> y] \in Outcomes
  BY <1>2 DEF Outcomes, Predictions
<1> QED
  BY <1>1, <1>3

LEMMA TransferredInit == Init => Transferred
BY DEF Init, Transferred

\* A step that leaves the evaluation and the visible data alone.
LEMMA TransferredFrame ==
  ASSUME Transferred, visible' = visible, outcomes' = outcomes, committed' = committed,
         challenges' = challenges, bTheory' = bTheory, seenIds \subseteq seenIds'
  PROVE  Transferred'
BY DEF Transferred, Prediction, TransferId

LEMMA TransferredVisible ==
  ASSUME TypeInv, Transferred, NEW exp \in Experiments, RunVisibleExperiment(exp)
  PROVE  Transferred'
<1>1. PICK o \in Observations :
        visible' = Append(visible, o) /\ o.paradigm = exp.paradigm /\ o.entity = exp.entity
  BY VisibleRecord
<1>2. o.paradigm = "B" => o.entity \in CalibrationEntities
  BY <1>1 DEF RunVisibleExperiment, Accepted, Permitted
<1>3. \A i \in DOMAIN visible' :
        visible'[i].paradigm = "B" => visible'[i].entity \in CalibrationEntities
  <2>1. /\ DOMAIN visible' = 1 .. Len(visible) + 1 /\ DOMAIN visible = 1 .. Len(visible)
        /\ Len(visible) \in Nat /\ visible'[Len(visible) + 1] = o
        /\ \A i \in DOMAIN visible : visible'[i] = visible[i]
    BY <1>1 DEF TypeInv
  <2> QED
    BY <1>2, <2>1 DEF Transferred
<1>4. /\ committed' = committed /\ outcomes' = outcomes /\ challenges' = challenges
      /\ bTheory' = bTheory /\ seenIds \subseteq seenIds'
  BY DEF RunVisibleExperiment, Claim, transfer, theories
<1> QED
  BY <1>3, <1>4 DEF Transferred, Prediction, TransferId

LEMMA TransferredCommit ==
  ASSUME TypeInv, Staged, Counted, Transferred, CommitPredictions
  PROVE  Transferred'
<1>1. Len(outcomes) = 0 /\ outcomes \in Seq(Outcomes)
  BY DEF CommitPredictions, TransferOpen, Counted, TypeInv
<1>2. /\ Len(challenges) = BTransferBudget /\ DOMAIN challenges = 1 .. BTransferBudget
  BY DEF CommitPredictions, TransferOpen, Staged, TypeInv
<1>3. 1 \in DOMAIN challenges
  BY <1>2, Allocations
<1>4. TransferId(1) \in seenIds'
  BY <1>3 DEF CommitPredictions
<1>5. committed' \in Seq(Predictions)
  BY TypeOfTransfer DEF TypeInv
<1>6. /\ committed' = [i \in DOMAIN challenges |-> Prediction(challenges[i])]
      /\ outcomes' = outcomes /\ challenges' = challenges /\ bTheory' = bTheory
      /\ visible' = visible
  BY DEF CommitPredictions, theories
<1>7. Len(outcomes') <= Len(committed') /\ DOMAIN outcomes' = {}
  BY <1>1, <1>5, <1>6
<1> QED
  BY <1>2, <1>4, <1>6, <1>7 DEF Transferred, Prediction, TransferId

LEMMA TransferredObserve ==
  ASSUME TypeInv, Transferred, ObserveTransfer
  PROVE  Transferred'
<1>1. PICK o \in Outcomes :
        /\ outcomes' = Append(outcomes, o)
        /\ o.entity = Current.entity /\ o.action = Current.action
        /\ o.predicted = Current.predicted
  BY OutcomeRecord
<1>2. /\ DOMAIN outcomes' = 1 .. Len(outcomes) + 1 /\ DOMAIN outcomes = 1 .. Len(outcomes)
      /\ Len(outcomes) \in Nat /\ Len(outcomes') = Len(outcomes) + 1
      /\ outcomes'[Len(outcomes) + 1] = o
      /\ \A i \in DOMAIN outcomes : outcomes'[i] = outcomes[i]
      /\ Len(committed) \in Nat /\ Len(outcomes) < Len(committed)
  BY <1>1 DEF TypeInv, ObserveTransfer
<1>3. /\ committed' = committed /\ challenges' = challenges /\ bTheory' = bTheory
      /\ visible' = visible /\ seenIds' = seenIds
  BY DEF ObserveTransfer, theories
<1>4. \A i \in DOMAIN outcomes' :
        /\ outcomes'[i].entity = committed[i].entity
        /\ outcomes'[i].action = committed[i].action
        /\ outcomes'[i].predicted = committed[i].predicted
  BY <1>1, <1>2 DEF Transferred, Current
<1> QED
  BY <1>2, <1>3, <1>4 DEF Transferred, Prediction, TransferId

LEMMA TransferredStep ==
  TypeInv /\ Staged /\ Counted /\ Transferred /\ [Next]_vars => Transferred'
<1> SUFFICES ASSUME TypeInv, Staged, Counted, Transferred, [Next]_vars
             PROVE  Transferred'
  OBVIOUS
<1> USE DEF measured, accounts, theories, transfer
<1>1. CASE \/ StartEpistemicCycle \/ DeclareNoConcept \/ OpenBCalibration
           \/ TransferIdTaken \/ ObserveTransferRaises \/ CloseRun
  BY <1>1, TransferredFrame DEF StartEpistemicCycle, DeclareNoConcept, OpenBCalibration,
     TransferIdTaken, ObserveTransferRaises, CloseRun
<1>2. ASSUME NEW exp \in Experiments, VisibleExperimentRaises(exp)
      PROVE  Transferred'
  BY <1>2, TransferredFrame DEF VisibleExperimentRaises, Claim
<1>3. ASSUME NEW theory \in TheoryChoices,
             \/ FreezeATheory(theory) \/ FailAGate(theory)
             \/ FailBGate(theory) \/ BGateUndecided(theory)
      PROVE  Transferred'
  BY <1>3, TransferredFrame DEF FreezeATheory, FailAGate, FailBGate, BGateUndecided, FailGate
<1>4. ASSUME NEW theory \in TheoryChoices, SubmitBTheory(theory)
      PROVE  Transferred'
  <2>1. committed = <<>> /\ committed' = committed /\ visible' = visible /\ outcomes' = outcomes
    BY <1>4 DEF SubmitBTheory, BGateOpen, Staged
  <2> QED
    BY <2>1 DEF Transferred
<1>5. CASE UNCHANGED vars
  BY <1>5, TransferredFrame DEF vars
<1> QED
  BY <1>1, <1>2, <1>3, <1>4, <1>5, TransferredVisible, TransferredCommit,
     TransferredObserve DEF Next

-------------------------------------------------------------------------------
(* The budget of a closed world.                                           *)

Accounted ==
  /\ \A p \in Purposes : spent[p] <= Budget[p]
  /\ phase # "CLOSED" => result = None
  /\ phase = "CLOSED" =>
       /\ \A p \in Purposes : spent[p] \in {0, Budget[p]}
       /\ result.unused = Total(Budget) - Total(spent)
       /\ result.outcome = "d4" <=> result.unused = 0

\* A closed world is not reopened, evaluated or billed.
LEMMA ClosedStays ==
  ASSUME Staged, phase = "CLOSED", [Next]_vars
  PROVE  UNCHANGED vars
<1>1. ~evaluating
  BY DEF Staged
<1>2. ~(StartEpistemicCycle \/ DeclareNoConcept \/ OpenBCalibration)
  BY DEF StartEpistemicCycle, DeclareNoConcept, OpenBCalibration, AGateOpen
<1>3. \A exp \in Experiments : ~(RunVisibleExperiment(exp) \/ VisibleExperimentRaises(exp))
  BY DEF RunVisibleExperiment, VisibleExperimentRaises, Accepted, Permitted
<1>4. \A theory \in TheoryChoices :
        ~(\/ FreezeATheory(theory) \/ FailAGate(theory)
          \/ SubmitBTheory(theory) \/ FailBGate(theory) \/ BGateUndecided(theory))
  BY DEF FreezeATheory, FailAGate, SubmitBTheory, FailBGate, BGateUndecided, AGateOpen, BGateOpen
<1>5. ~(CommitPredictions \/ TransferIdTaken)
  BY DEF CommitPredictions, TransferIdTaken, TransferOpen
<1>6. ~(ObserveTransfer \/ ObserveTransferRaises \/ CloseRun)
  BY <1>1 DEF ObserveTransfer, ObserveTransferRaises, CloseRun
<1> QED
  BY <1>2, <1>3, <1>4, <1>5, <1>6 DEF Next

LEMMA AccountedInit == Init => Accounted
BY PurposeNames, Allocations DEF Init, Accounted

\* A world that closes short of its transfer allocation has some budget left.
LEMMA SomeUnused ==
  ASSUME NEW units \in [Purposes -> Nat],
         \A p \in Purposes : units[p] <= Budget[p], units["B_transfer_eval"] = 0
  PROVE  Total(Budget) - Total(units) # 0
<1>1. /\ units["A_discovery"] \in Nat /\ units["A_theory_eval"] \in Nat
      /\ units["B_calibration"] \in Nat /\ units["B_theory_eval"] \in Nat
      /\ units["A_discovery"] <= ADiscoveryBudget /\ units["A_theory_eval"] <= ATheoryEvalBudget
      /\ units["B_calibration"] <= BCalibrationBudget
      /\ units["B_theory_eval"] <= BTheoryEvalBudget
  BY PurposeNames
<1> QED
  BY <1>1, PurposeNames, Allocations DEF Total

LEMMA AccountedFail ==
  ASSUME TypeInv, Staged, Counted, Accounted, NEW gate \in {"A", "B"}, attempts[gate] = 0,
         FailGate(gate),
         \/ gate = "A" /\ AGateOpen
         \/ gate = "B" /\ BGateOpen
  PROVE  Accounted'
<1>1. /\ Charge(gate) /\ spent' = Charged(gate) /\ phase' = "CLOSED"
      /\ result'.unused = Total(Budget) - Total(spent') /\ result'.outcome # "d4"
  BY DEF FailGate, Charge, Close
<1>2. spent' \in [Purposes -> Nat]
  BY <1>1, TypeOfCharge
<1>3. /\ spent["B_transfer_eval"] = 0 /\ spent["A_discovery"] = ADiscoveryBudget
      /\ spent["B_calibration"] \in {0, BCalibrationBudget}
      /\ spent["A_theory_eval"] \in {0, ATheoryEvalBudget}
      /\ spent["B_theory_eval"] \in {0, BTheoryEvalBudget}
  BY DEF AGateOpen, BGateOpen, Staged, Counted, Opened
<1>4. /\ spent'["B_transfer_eval"] = 0 /\ spent'["A_discovery"] = ADiscoveryBudget
      /\ spent'["B_calibration"] \in {0, BCalibrationBudget}
      /\ spent'["A_theory_eval"] \in {0, ATheoryEvalBudget}
      /\ spent'["B_theory_eval"] \in {0, BTheoryEvalBudget}
  BY <1>1, <1>3, ChargeEffect
<1>5. \A p \in Purposes : spent'[p] \in {0, Budget[p]}
  BY <1>4, PurposeNames
<1>6. \A p \in Purposes : spent'[p] <= Budget[p]
  BY <1>4, PurposeNames, Allocations
<1>7. Total(Budget) - Total(spent') # 0
  BY <1>2, <1>4, <1>6, SomeUnused
<1> QED
  BY <1>1, <1>5, <1>6, <1>7 DEF Accounted

LEMMA AccountedNoConcept ==
  ASSUME TypeInv, Staged, Counted, Accounted, DeclareNoConcept
  PROVE  Accounted'
<1>1. /\ spent["B_transfer_eval"] = 0 /\ spent["A_discovery"] = ADiscoveryBudget
      /\ spent["B_calibration"] = 0 /\ spent["A_theory_eval"] = 0 /\ spent["B_theory_eval"] = 0
  BY DEF DeclareNoConcept, AGateOpen, Staged, Counted
<1>2. /\ spent' = spent /\ phase' = "CLOSED"
      /\ result'.unused = Total(Budget) - Total(spent) /\ result'.outcome # "d4"
  BY DEF DeclareNoConcept, Close, accounts
<1>3. \A p \in Purposes : spent[p] \in {0, Budget[p]}
  BY <1>1, PurposeNames
<1>4. Total(Budget) - Total(spent) # 0
  BY <1>1, SomeUnused DEF Accounted, TypeInv
<1> QED
  BY <1>2, <1>3, <1>4 DEF Accounted

LEMMA AccountedClose ==
  ASSUME TypeInv, Accounted, CloseRun
  PROVE  Accounted'
<1>1. /\ spent' = spent /\ phase' = "CLOSED" /\ result'.outcome = "d4"
      /\ result'.unused = Total(Budget) - Total(spent) /\ Total(spent) = Total(Budget)
  BY DEF CloseRun, Close, accounts
<1>2. /\ spent["A_discovery"] \in Nat /\ spent["A_theory_eval"] \in Nat
      /\ spent["B_calibration"] \in Nat /\ spent["B_theory_eval"] \in Nat
      /\ spent["B_transfer_eval"] \in Nat
      /\ spent["A_discovery"] <= ADiscoveryBudget /\ spent["A_theory_eval"] <= ATheoryEvalBudget
      /\ spent["B_calibration"] <= BCalibrationBudget
      /\ spent["B_theory_eval"] <= BTheoryEvalBudget
      /\ spent["B_transfer_eval"] <= BTransferBudget
  BY PurposeNames DEF TypeInv, Accounted
<1>3. /\ spent["A_discovery"] = ADiscoveryBudget /\ spent["A_theory_eval"] = ATheoryEvalBudget
      /\ spent["B_calibration"] = BCalibrationBudget
      /\ spent["B_theory_eval"] = BTheoryEvalBudget
      /\ spent["B_transfer_eval"] = BTransferBudget
  BY <1>1, <1>2, PurposeNames, Allocations DEF Total
<1>4. \A p \in Purposes : spent[p] = Budget[p]
  BY <1>3, PurposeNames
<1>5. Total(Budget) - Total(spent) = 0
  BY <1>1, <1>2 DEF Total
<1> QED
  BY <1>1, <1>4, <1>5 DEF Accounted

LEMMA AccountedStep ==
  TypeInv /\ Staged /\ Counted /\ Transferred /\ Accounted /\ [Next]_vars => Accounted'
<1> SUFFICES ASSUME TypeInv, Staged, Counted, Transferred, Accounted, [Next]_vars
             PROVE  Accounted'
  OBVIOUS
<1> USE DEF accounts
<1>1. CASE phase = "CLOSED"
  <2>1. UNCHANGED vars
    BY <1>1, ClosedStays
  <2> QED
    BY <2>1 DEF Accounted, vars
<1>2. ASSUME phase # "CLOSED", phase' # "CLOSED", spent' = spent, result' = result
      PROVE  Accounted'
  BY <1>2 DEF Accounted
<1>3. CASE StartEpistemicCycle \/ CommitPredictions \/ TransferIdTaken \/ ObserveTransferRaises
  <2>1. phase # "CLOSED"
    BY <1>3 DEF StartEpistemicCycle, CommitPredictions, TransferIdTaken, TransferOpen,
       ObserveTransferRaises, Staged
  <2> QED
    BY <1>2, <1>3, <2>1 DEF StartEpistemicCycle, CommitPredictions, TransferIdTaken,
       ObserveTransferRaises
<1>4. CASE OpenBCalibration
  BY <1>2, <1>4 DEF OpenBCalibration
<1>5. ASSUME NEW exp \in Experiments, VisibleExperimentRaises(exp)
      PROVE  Accounted'
  BY <1>1, <1>2, <1>5 DEF VisibleExperimentRaises
<1>6. ASSUME NEW exp \in Experiments, RunVisibleExperiment(exp)
      PROVE  Accounted'
  <2>1. spent[Purpose(exp.paradigm)] < Budget[Purpose(exp.paradigm)] /\ phase # "CLOSED"
    BY <1>6, PurposeNames DEF RunVisibleExperiment, Accepted, Permitted, Purpose
  <2>2. /\ spent'[Purpose(exp.paradigm)] = spent[Purpose(exp.paradigm)] + 1
        /\ \A p \in Purposes : p # Purpose(exp.paradigm) => spent'[p] = spent[p]
        /\ Purpose(exp.paradigm) \in Purposes
    BY <1>6, VisibleEffect, PurposeNames DEF Purpose
  <2>3. \A p \in Purposes : spent[p] \in Nat /\ Budget[p] \in Nat
    BY PurposeNames, Allocations DEF TypeInv
  <2>4. \A p \in Purposes : spent'[p] <= Budget[p]
    BY <2>1, <2>2, <2>3 DEF Accounted
  <2>5. phase' # "CLOSED" /\ result' = None
    BY <1>6, <2>1 DEF RunVisibleExperiment, Accounted
  <2> QED
    BY <2>4, <2>5 DEF Accounted
<1>7. ASSUME NEW theory \in TheoryChoices, FailAGate(theory) \/ FailBGate(theory)
      PROVE  Accounted'
  BY <1>7, AccountedFail DEF FailAGate, FailBGate, AGateOpen, BGateOpen
<1>8. ASSUME NEW theory \in TheoryChoices,
             FreezeATheory(theory) \/ SubmitBTheory(theory) \/ BGateUndecided(theory)
      PROVE  Accounted'
  <2>1. PICK gate \in {"A", "B"} : Charge(gate) /\ attempts[gate] = 0
    BY <1>8 DEF FreezeATheory, SubmitBTheory, BGateUndecided, AGateOpen, BGateOpen
  <2>2. \A p \in Purposes : spent'[p] <= Budget[p]
    BY <2>1, ChargeEffect, PurposeNames, Allocations DEF Accounted
  <2>3. phase # "CLOSED" /\ phase' # "CLOSED" /\ result' = result
    BY <1>8 DEF FreezeATheory, SubmitBTheory, BGateUndecided, AGateOpen, BGateOpen
  <2> QED
    BY <2>2, <2>3 DEF Accounted
<1>9. CASE ObserveTransfer
  <2>1. /\ spent'["B_transfer_eval"] = spent["B_transfer_eval"] + 1
        /\ \A p \in Purposes : p # "B_transfer_eval" => spent'[p] = spent[p]
    BY <1>9, PurposeNames DEF ObserveTransfer, TypeInv
  <2>2. Len(outcomes) < Len(committed) /\ Len(committed) = BTransferBudget
    <3>1. committed # <<>> /\ Len(challenges) = BTransferBudget
      BY <1>9 DEF ObserveTransfer, Staged, Transferred
    <3>2. DOMAIN committed = DOMAIN challenges
      BY <3>1 DEF Transferred
    <3>3. Len(committed) = Len(challenges)
      BY <3>2 DEF TypeInv
    <3> QED
      BY <1>9, <3>1, <3>3 DEF ObserveTransfer
  <2>3. spent'["B_transfer_eval"] <= BTransferBudget
    BY <2>1, <2>2, Allocations DEF Counted, TypeInv
  <2>4. \A p \in Purposes : spent'[p] <= Budget[p]
    BY <2>1, <2>3, PurposeNames DEF Accounted
  <2>5. phase # "CLOSED" /\ phase' = phase /\ result' = result
    BY <1>9 DEF ObserveTransfer, Staged
  <2> QED
    BY <2>4, <2>5 DEF Accounted
<1>10. CASE UNCHANGED vars
  BY <1>10 DEF vars, Accounted
<1> QED
  BY <1>3, <1>4, <1>5, <1>6, <1>7, <1>8, <1>9, <1>10, AccountedNoConcept,
     AccountedClose DEF Next

\* The world's invariant so far.
Books == Staged /\ Counted /\ Transferred /\ Accounted

LEMMA BooksHold == Spec => []Books
<1>1. Init => Books
  BY StagedInit, CountedInit, TransferredInit, AccountedInit DEF Books
<1>2. TypeInv /\ Books /\ [Next]_vars => Books'
  BY StagedStep, CountedStep, TransferredStep, AccountedStep DEF Books
<1> QED
  BY <1>1, <1>2, Typed, PTL DEF Spec

\* No purpose is overspent and a closed world has used each allocation whole or not at
\* all; the unused units of its result are what its own records leave.
THEOREM AccountsHold == Spec => []BudgetAccounts
<1>1. ASSUME TypeInv, Books
      PROVE  BudgetAccounts
  <2>1. \A p \in Purposes : spent[p] <= Budget[p]
    BY <1>1 DEF Books, Accounted
  <2>2. ASSUME result # None
        PROVE  /\ \A p \in Purposes : spent[p] \in {0, Budget[p]}
               /\ result.unused = Total(Budget) - Total(spent)
               /\ result.outcome = "d4" <=> result.unused = 0
    BY <1>1, <2>2 DEF Books, Accounted
  <2>3. Total(spent) = Len(visible) + Len(outcomes) + attempts["A"] * ATheoryEvalBudget
                         + attempts["B"] * BTheoryEvalBudget
    <3>1. /\ spent["A_theory_eval"] = attempts["A"] * ATheoryEvalBudget
          /\ spent["B_theory_eval"] = attempts["B"] * BTheoryEvalBudget
      <4>1. attempts["A"] \in {0, 1} /\ attempts["B"] \in {0, 1}
        BY <1>1 DEF TypeInv
      <4>2. \A n \in Nat : 1 * n = n /\ 0 * n = 0
        OBVIOUS
      <4> QED
        BY <1>1, <4>1, <4>2, Allocations DEF Books, Counted
    <3>2. \A p \in Purposes : spent[p] \in Nat
      BY <1>1 DEF TypeInv
    <3>3. /\ spent["B_transfer_eval"] = Len(outcomes)
          /\ spent["A_discovery"] + spent["B_calibration"] = Len(visible)
      BY <1>1 DEF Books, Counted
    <3>4. /\ spent["A_discovery"] \in Nat /\ spent["A_theory_eval"] \in Nat
          /\ spent["B_calibration"] \in Nat /\ spent["B_theory_eval"] \in Nat
          /\ spent["B_transfer_eval"] \in Nat
      BY <3>2, PurposeNames
    <3>5. \A a, x, c, y, m \in Nat : a + x + c + y + m = (a + c) + m + x + y
      OBVIOUS
    <3>6. Total(spent) = (spent["A_discovery"] + spent["B_calibration"]) + spent["B_transfer_eval"]
                            + spent["A_theory_eval"] + spent["B_theory_eval"]
      BY <3>4, <3>5 DEF Total
    <3> QED
      BY <3>1, <3>3, <3>6, Zenon
  <2>4. /\ Len(visible) \in Nat /\ Len(outcomes) \in Nat
        /\ attempts["A"] * ATheoryEvalBudget \in Nat /\ attempts["B"] * BTheoryEvalBudget \in Nat
        /\ Total(Budget) \in Nat
    <3>1. attempts["A"] \in Nat /\ attempts["B"] \in Nat
      BY <1>1 DEF TypeInv
    <3> QED
      BY <1>1, <3>1, Allocations, PurposeNames DEF TypeInv, Total
  <2> QED
    BY <2>1, <2>2, <2>3, <2>4 DEF BudgetAccounts
<1> QED
  BY <1>1, Typed, BooksHold, PTL

-------------------------------------------------------------------------------
(* No measurement is repeated.                                             *)

Keys == {"A", "B"} \X Entities \X Domain
SealedKey(o) == <<"B", o.entity, o.action>>

\* Every repetition already used is below its counter.
Measured ==
  /\ IsFiniteSet(Measurements)
  /\ MeasuredOnce
  /\ \A o \in Range(visible) : o.rep < reps[RepKey(o)]
  /\ \A o \in Range(outcomes) : o.rep < reps[SealedKey(o)]

LEMMA RangeAppend ==
  ASSUME NEW S, NEW s \in Seq(S), NEW x \in S
  PROVE  Range(Append(s, x)) = Range(s) \cup {x}
<1> DEFINE t == Append(s, x)
<1>1. /\ DOMAIN s = 1 .. Len(s) /\ Len(s) \in Nat
      /\ DOMAIN t = 1 .. Len(s) + 1 /\ t[Len(s) + 1] = x
      /\ \A i \in DOMAIN s : t[i] = s[i]
  OBVIOUS
<1> HIDE DEF t
<1>2. \A i : i \in DOMAIN t <=> i \in DOMAIN s \/ i = Len(s) + 1
  BY <1>1
<1>3. Range(t) = Range(s) \cup {x}
  BY <1>1, <1>2 DEF Range
<1> QED
  BY <1>3 DEF t

LEMMA RecordKeys ==
  ASSUME TypeInv
  PROVE  /\ \A o \in Range(visible) : o \in Observations /\ RepKey(o) \in Keys
         /\ \A o \in Range(outcomes) : o \in Outcomes /\ SealedKey(o) \in Keys
<1>1. /\ \A o \in Range(visible) : o \in Observations
      /\ \A o \in Range(outcomes) : o \in Outcomes
  BY DEF TypeInv, Range
<1>2. \A o \in Observations : RepKey(o) \in Keys
  BY DEF Observations, RepKey, Keys
<1>3. \A o \in Outcomes : SealedKey(o) \in Keys
  BY TransferNumbers DEF Outcomes, SealedKey, Keys
<1> QED
  BY <1>1, <1>2, <1>3

\* The counters only grow.
LEMMA CountersGrow ==
  ASSUME TypeInv, NEW key \in Keys, reps' = NextRepetition(key)
  PROVE  /\ \A k \in Keys : reps[k] \in Nat /\ reps'[k] \in Nat /\ reps'[k] >= reps[k]
         /\ reps'[key] = reps[key] + 1
BY DEF TypeInv, NextRepetition, Keys

LEMMA MeasuredInit == Init => Measured
<1> SUFFICES ASSUME Init
             PROVE  Measured
  OBVIOUS
<1>1. Range(visible) = {} /\ Range(outcomes) = {} /\ Len(visible) = 0 /\ Len(outcomes) = 0
  BY DEF Init, Range
<1>2. Measurements = {}
  BY <1>1 DEF Measurements
<1> QED
  BY <1>1, <1>2, FS_EmptySet DEF Measured, MeasuredOnce

\* A measurement under the counter's present value is a new one.
LEMMA MeasuredAdds ==
  ASSUME TypeInv, Measured, NEW p \in {"A", "B"}, NEW e \in Entities, NEW a \in Domain
  PROVE  <<p, e, a, reps[<<p, e, a>>]>> \notin Measurements
<1>1. reps[<<p, e, a>>] \in Nat
  BY DEF TypeInv
<1>2. ASSUME NEW o \in Range(visible),
             <<p, e, a, reps[<<p, e, a>>]>> = <<o.paradigm, o.entity, o.action, o.rep>>
      PROVE  FALSE
  <2>1. RepKey(o) = <<p, e, a>> /\ o.rep = reps[<<p, e, a>>]
    BY <1>2 DEF RepKey
  <2> QED
    BY <1>1, <2>1 DEF Measured
<1>3. ASSUME NEW o \in Range(outcomes),
             <<p, e, a, reps[<<p, e, a>>]>> = <<"B", o.entity, o.action, o.rep>>
      PROVE  FALSE
  <2>1. SealedKey(o) = <<p, e, a>> /\ o.rep = reps[<<p, e, a>>]
    BY <1>3 DEF SealedKey
  <2> QED
    BY <1>1, <2>1 DEF Measured
<1> QED
  BY <1>2, <1>3 DEF Measurements

LEMMA MeasuredFrame ==
  ASSUME TypeInv, Measured, visible' = visible, outcomes' = outcomes,
         \/ reps' = reps
         \/ \E key \in Keys : reps' = NextRepetition(key)
  PROVE  Measured'
<1>1. \A k \in Keys : reps[k] \in Nat /\ reps'[k] \in Nat /\ reps'[k] >= reps[k]
  <2>1. CASE reps' = reps
    BY <2>1 DEF TypeInv, Keys
  <2>2. ASSUME NEW key \in Keys, reps' = NextRepetition(key)
        PROVE  \A k \in Keys : reps[k] \in Nat /\ reps'[k] \in Nat /\ reps'[k] >= reps[k]
    BY <2>2, CountersGrow
  <2> QED
    BY <2>1, <2>2
<1>2. \A o \in Range(visible) : o.rep < reps'[RepKey(o)]
  <2>1. \A o \in Range(visible) : o.rep \in Nat
    BY RecordKeys DEF Observations
  <2> QED
    BY <1>1, <2>1, RecordKeys DEF Measured
<1>3. \A o \in Range(outcomes) : o.rep < reps'[SealedKey(o)]
  <2>1. \A o \in Range(outcomes) : o.rep \in Nat
    BY RecordKeys DEF Outcomes
  <2> QED
    BY <1>1, <2>1, RecordKeys DEF Measured
<1> QED
  BY <1>2, <1>3 DEF Measured, MeasuredOnce, Measurements, RepKey, SealedKey

LEMMA MeasuredVisible ==
  ASSUME TypeInv, Measured, NEW exp \in Experiments, RunVisibleExperiment(exp)
  PROVE  Measured'
<1>1. PICK o \in Observations :
        /\ visible' = Append(visible, o)
        /\ o.paradigm = exp.paradigm /\ o.entity = exp.entity /\ o.action = exp.action
        /\ o.rep = reps[RepKey(exp)]
  BY VisibleRecord
<1>2. RepKey(o) = RepKey(exp) /\ RepKey(o) \in Keys /\ reps' = NextRepetition(RepKey(o))
  BY <1>1, ExperimentType DEF RepKey, Keys, RunVisibleExperiment, Claim
<1>3. /\ \A k \in Keys : reps[k] \in Nat /\ reps'[k] \in Nat /\ reps'[k] >= reps[k]
      /\ reps'[RepKey(o)] = reps[RepKey(o)] + 1
  BY <1>2, CountersGrow
<1>4. Range(visible') = Range(visible) \cup {o} /\ outcomes' = outcomes
  BY <1>1, RangeAppend DEF TypeInv, RunVisibleExperiment, transfer
<1> DEFINE m == <<o.paradigm, o.entity, o.action, o.rep>>
<1>5. Measurements' = Measurements \cup {m}
  BY <1>4 DEF Measurements
<1>6. m \notin Measurements
  <2>1. o.paradigm \in {"A", "B"} /\ o.entity \in Entities /\ o.action \in Domain
    BY DEF Observations
  <2>2. m = <<o.paradigm, o.entity, o.action, reps[<<o.paradigm, o.entity, o.action>>]>>
    BY <1>1, <1>2 DEF RepKey
  <2> QED
    BY <2>1, <2>2, MeasuredAdds
<1> HIDE DEF m
<1>7. /\ IsFiniteSet(Measurements')
      /\ Cardinality(Measurements') = Cardinality(Measurements) + 1
  BY <1>5, <1>6, FS_AddElement DEF Measured
<1>8. Len(visible') = Len(visible) + 1 /\ Len(visible) \in Nat /\ Len(outcomes) \in Nat
  BY <1>1 DEF TypeInv
<1>9. MeasuredOnce'
  BY <1>4, <1>7, <1>8 DEF Measured, MeasuredOnce
<1>10. \A r \in Range(visible') : r.rep < reps'[RepKey(r)]
  <2>1. \A r \in Range(visible) : r.rep \in Nat /\ RepKey(r) \in Keys
    BY RecordKeys DEF Observations
  <2>2. \A r \in Range(visible) : r.rep < reps'[RepKey(r)]
    BY <1>3, <2>1 DEF Measured
  <2>3. o.rep < reps'[RepKey(o)]
    BY <1>1, <1>2, <1>3
  <2> QED
    BY <1>4, <2>2, <2>3
<1>11. \A r \in Range(outcomes) : r.rep < reps'[SealedKey(r)]
  <2>1. \A r \in Range(outcomes) : r.rep \in Nat /\ SealedKey(r) \in Keys
    BY RecordKeys DEF Outcomes
  <2> QED
    BY <1>3, <2>1 DEF Measured
<1> QED
  BY <1>4, <1>7, <1>9, <1>10, <1>11 DEF Measured, RepKey, SealedKey

LEMMA MeasuredSealed ==
  ASSUME TypeInv, Measured, ObserveTransfer
  PROVE  Measured'
<1>1. PICK o \in Outcomes :
        /\ outcomes' = Append(outcomes, o)
        /\ o.entity = Current.entity /\ o.action = Current.action
        /\ o.rep = reps[TransferKey]
  BY OutcomeRecord
<1>2. SealedKey(o) = TransferKey /\ SealedKey(o) \in Keys /\ reps' = NextRepetition(SealedKey(o))
  BY <1>1, CurrentType DEF SealedKey, TransferKey, Keys, ObserveTransfer
<1>3. /\ \A k \in Keys : reps[k] \in Nat /\ reps'[k] \in Nat /\ reps'[k] >= reps[k]
      /\ reps'[SealedKey(o)] = reps[SealedKey(o)] + 1
  BY <1>2, CountersGrow
<1>4. Range(outcomes') = Range(outcomes) \cup {o} /\ visible' = visible
  BY <1>1, RangeAppend DEF TypeInv, ObserveTransfer
<1> DEFINE m == <<"B", o.entity, o.action, o.rep>>
<1>5. Measurements' = Measurements \cup {m}
  BY <1>4 DEF Measurements
<1>6. m \notin Measurements
  <2>1. o.entity \in Entities /\ o.action \in Domain
    BY TransferNumbers DEF Outcomes
  <2>2. m = <<"B", o.entity, o.action, reps[<<"B", o.entity, o.action>>]>>
    BY <1>1, <1>2 DEF SealedKey
  <2> QED
    BY <2>1, <2>2, MeasuredAdds
<1> HIDE DEF m
<1>7. /\ IsFiniteSet(Measurements')
      /\ Cardinality(Measurements') = Cardinality(Measurements) + 1
  BY <1>5, <1>6, FS_AddElement DEF Measured
<1>8. Len(outcomes') = Len(outcomes) + 1 /\ Len(visible) \in Nat /\ Len(outcomes) \in Nat
  BY <1>1 DEF TypeInv
<1>9. MeasuredOnce'
  BY <1>4, <1>7, <1>8 DEF Measured, MeasuredOnce
<1>10. \A r \in Range(outcomes') : r.rep < reps'[SealedKey(r)]
  <2>1. \A r \in Range(outcomes) : r.rep \in Nat /\ SealedKey(r) \in Keys
    BY RecordKeys DEF Outcomes
  <2>2. \A r \in Range(outcomes) : r.rep < reps'[SealedKey(r)]
    BY <1>3, <2>1 DEF Measured
  <2>3. o.rep < reps'[SealedKey(o)]
    BY <1>1, <1>2, <1>3
  <2> QED
    BY <1>4, <2>2, <2>3
<1>11. \A r \in Range(visible) : r.rep < reps'[RepKey(r)]
  <2>1. \A r \in Range(visible) : r.rep \in Nat /\ RepKey(r) \in Keys
    BY RecordKeys DEF Observations
  <2> QED
    BY <1>3, <2>1 DEF Measured
<1> QED
  BY <1>4, <1>7, <1>9, <1>10, <1>11 DEF Measured, RepKey, SealedKey

LEMMA MeasuredStep == TypeInv /\ Measured /\ [Next]_vars => Measured'
<1> SUFFICES ASSUME TypeInv, Measured, [Next]_vars
             PROVE  Measured'
  OBVIOUS
<1> USE DEF measured, accounts, theories, transfer
<1>1. CASE \/ StartEpistemicCycle \/ DeclareNoConcept \/ OpenBCalibration
           \/ CommitPredictions \/ TransferIdTaken \/ CloseRun \/ UNCHANGED vars
  BY <1>1, MeasuredFrame DEF StartEpistemicCycle, DeclareNoConcept, OpenBCalibration,
     CommitPredictions, TransferIdTaken, CloseRun, vars
<1>2. ASSUME NEW theory \in TheoryChoices,
             \/ FreezeATheory(theory) \/ FailAGate(theory) \/ SubmitBTheory(theory)
             \/ FailBGate(theory) \/ BGateUndecided(theory)
      PROVE  Measured'
  BY <1>2, MeasuredFrame DEF FreezeATheory, FailAGate, SubmitBTheory, FailBGate,
     BGateUndecided, FailGate
<1>3. ASSUME NEW exp \in Experiments, VisibleExperimentRaises(exp)
      PROVE  Measured'
  BY <1>3, MeasuredFrame, ExperimentType DEF VisibleExperimentRaises, Claim, Keys
<1>4. CASE ObserveTransferRaises
  BY <1>4, MeasuredFrame, CurrentType DEF ObserveTransferRaises, Keys
<1> QED
  BY <1>1, <1>2, <1>3, <1>4, MeasuredVisible, MeasuredSealed DEF Next

\* No two measurements share the four things their noise is a function of, however
\* often a call raised after it took a repetition.
THEOREM NoiseIsFresh == Spec => []MeasuredOnce
<1>1. Measured => MeasuredOnce
  BY DEF Measured
<1> QED
  BY <1>1, MeasuredInit, MeasuredStep, Typed, PTL DEF Spec

-------------------------------------------------------------------------------
(* Held-out outcomes.                                                      *)

Commits == Logged("transfer_predictions_committed")
Seals == Logged("sealed_transfer_observation")

\* There is one commitment, before any sealed observation; once it is there the first
\* transfer id is taken, which refuses another.
CommitLogged ==
  /\ Commits # {} => TransferId(1) \in seenIds
  /\ \A i, j \in Commits : i = j
  /\ committed # <<>> => Commits # {}
  /\ \A i \in Seals : \E j \in Commits : j < i

LEMMA LoggedAppend ==
  ASSUME TypeInv, NEW event \in Events, Log(event)
  PROVE  /\ Len(ledger) \in Nat
         /\ \A e : Logged(e) \subseteq 1 .. Len(ledger)
         /\ Logged(event)' = Logged(event) \cup {Len(ledger) + 1}
         /\ \A e : e # event => Logged(e)' = Logged(e)
<1>1. /\ DOMAIN ledger = 1 .. Len(ledger) /\ Len(ledger) \in Nat
      /\ DOMAIN ledger' = 1 .. Len(ledger) + 1 /\ ledger'[Len(ledger) + 1] = event
      /\ \A i \in DOMAIN ledger : ledger'[i] = ledger[i]
  BY DEF TypeInv, Log
<1>2. \A i : i \in DOMAIN ledger' <=> i \in DOMAIN ledger \/ i = Len(ledger) + 1
  BY <1>1
<1> QED
  BY <1>1, <1>2 DEF Logged

LEMMA CommitLoggedInit == Init => CommitLogged
BY DEF Init, CommitLogged, Commits, Seals, Logged

\* A step that logs neither event, or nothing.
LEMMA CommitLoggedFrame ==
  ASSUME TypeInv, CommitLogged, committed' = committed, seenIds \subseteq seenIds',
         \/ ledger' = ledger
         \/ \E event \in Events :
              /\ Log(event)
              /\ event \notin {"transfer_predictions_committed", "sealed_transfer_observation"}
  PROVE  CommitLogged'
<1>1. Commits' = Commits /\ Seals' = Seals
  <2>1. CASE ledger' = ledger
    BY <2>1 DEF Commits, Seals, Logged
  <2>2. ASSUME NEW event \in Events, Log(event),
               event \notin {"transfer_predictions_committed", "sealed_transfer_observation"}
        PROVE  Commits' = Commits /\ Seals' = Seals
    BY <2>2, LoggedAppend DEF Commits, Seals
  <2> QED
    BY <2>1, <2>2
<1> QED
  BY <1>1 DEF CommitLogged, TransferId

LEMMA CommitLoggedCommit ==
  ASSUME TypeInv, Staged, CommitLogged, CommitPredictions
  PROVE  CommitLogged'
<1>1. 1 \in DOMAIN challenges
  BY Allocations DEF CommitPredictions, TransferOpen, Staged, TypeInv
<1>2. TransferId(1) \notin seenIds /\ TransferId(1) \in seenIds'
  BY <1>1 DEF CommitPredictions, Free
<1>3. Commits = {} /\ Seals = {}
  BY <1>2 DEF CommitLogged
<1>4. Commits' = {Len(ledger) + 1} /\ Seals' = {}
  BY <1>3, LoggedAppend DEF CommitPredictions, Commits, Seals, Events
<1> QED
  BY <1>2, <1>4 DEF CommitLogged, TransferId

LEMMA CommitLoggedSeal ==
  ASSUME TypeInv, Staged, CommitLogged, ObserveTransfer
  PROVE  CommitLogged'
<1>1. /\ Commits # {} /\ Commits' = Commits /\ Commits \subseteq 1 .. Len(ledger)
      /\ Seals' = Seals \cup {Len(ledger) + 1} /\ Len(ledger) \in Nat
  BY LoggedAppend DEF ObserveTransfer, Staged, CommitLogged, Commits, Seals, Events
<1>2. \E j \in Commits : j < Len(ledger) + 1
  <2>1. PICK j \in Commits : j \in 1 .. Len(ledger)
    BY <1>1
  <2>2. j < Len(ledger) + 1
    BY <1>1, <2>1
  <2> QED
    BY <2>1, <2>2
<1>3. committed' = committed /\ seenIds' = seenIds
  BY DEF ObserveTransfer
<1> QED
  BY <1>1, <1>2, <1>3 DEF CommitLogged, TransferId

LEMMA CommitLoggedStep == TypeInv /\ Staged /\ CommitLogged /\ [Next]_vars => CommitLogged'
<1> SUFFICES ASSUME TypeInv, Staged, CommitLogged, [Next]_vars
             PROVE  CommitLogged'
  OBVIOUS
<1> USE DEF measured, accounts, theories, transfer, Events
<1>1. CASE \/ StartEpistemicCycle \/ DeclareNoConcept \/ OpenBCalibration \/ CloseRun
  BY <1>1, CommitLoggedFrame DEF StartEpistemicCycle, DeclareNoConcept, OpenBCalibration,
     CloseRun, Close
<1>2. CASE TransferIdTaken \/ ObserveTransferRaises \/ UNCHANGED vars
  BY <1>2, CommitLoggedFrame DEF TransferIdTaken, ObserveTransferRaises, vars
<1>3. ASSUME NEW exp \in Experiments,
             RunVisibleExperiment(exp) \/ VisibleExperimentRaises(exp)
      PROVE  CommitLogged'
  BY <1>3, CommitLoggedFrame DEF RunVisibleExperiment, VisibleExperimentRaises, Claim
<1>4. ASSUME NEW theory \in TheoryChoices,
             \/ FreezeATheory(theory) \/ FailAGate(theory) \/ SubmitBTheory(theory)
             \/ FailBGate(theory) \/ BGateUndecided(theory)
      PROVE  CommitLogged'
  BY <1>4, CommitLoggedFrame DEF FreezeATheory, FailAGate, SubmitBTheory, FailBGate,
     BGateUndecided, FailGate, Close
<1> QED
  BY <1>1, <1>2, <1>3, <1>4, CommitLoggedCommit, CommitLoggedSeal DEF Next

\* Predictions are committed once and before any sealed outcome, outcomes are those of
\* the committed predictions, and no visible B experiment touched their entities.
THEOREM OutcomesAreHeldOut == Spec => []CommittedBeforeMeasured
<1>1. ASSUME TypeInv, Books, CommitLogged
      PROVE  CommittedBeforeMeasured
  <2>1. Cardinality(Commits) <= 1
    <3>1. CASE Commits = {}
      BY <3>1, FS_EmptySet
    <3>2. ASSUME NEW j \in Commits
          PROVE  Cardinality(Commits) <= 1
      <4>1. Commits = {j}
        BY <1>1 DEF CommitLogged
      <4>2. Cardinality({j}) = 1
        BY FS_Singleton
      <4> QED
        BY <4>1, <4>2
    <3> QED
      BY <3>1, <3>2
  <2>2. ASSUME NEW i \in DOMAIN outcomes
        PROVE  /\ committed[i] = Prediction(challenges[i])
               /\ <<outcomes[i].entity, outcomes[i].action, outcomes[i].predicted>>
                    = <<committed[i].entity, committed[i].action, committed[i].predicted>>
               /\ \A o \in Range(visible) : o.paradigm = "B" => o.entity # outcomes[i].entity
    <3>1. i \in DOMAIN committed
      BY <1>1 DEF TypeInv, Books, Transferred
    <3>2. committed[i] = Prediction(challenges[i])
      BY <1>1, <3>1 DEF Books, Transferred
    <3>3. outcomes[i].entity \in TransferEntities
      <4>1. outcomes \in Seq(Outcomes)
        BY <1>1 DEF TypeInv
      <4>2. outcomes[i] \in Outcomes
        BY <4>1
      <4> QED
        BY <4>2 DEF Outcomes
    <3>4. \A o \in Range(visible) : o.paradigm = "B" => o.entity \in CalibrationEntities
      BY <1>1 DEF Books, Transferred, Range
    <3> QED
      BY <1>1, <3>2, <3>3, <3>4 DEF Books, Transferred, TransferEntities
  <2> QED
    BY <1>1, <2>1, <2>2 DEF CommittedBeforeMeasured, CommitLogged, Commits, Seals
<1>2. TypeInv /\ Books /\ CommitLogged /\ [Next]_vars => CommitLogged'
  BY CommitLoggedStep DEF Books
<1> QED
  BY <1>1, <1>2, CommitLoggedInit, Typed, BooksHold, PTL DEF Spec

-------------------------------------------------------------------------------
(* One attempt.                                                            *)

\* What an attempted gate was judged on, and what it froze, is final.
THEOREM AttemptsAreFinal == Spec => NoRejectionSampling
<1>1. ASSUME TypeInv, Books, [Next]_vars, NEW gate \in {"A", "B"}, attempts[gate] > 0
      PROVE  /\ attempts'[gate] = attempts[gate]
             /\ ObservationsIn(visible', gate) = ObservationsIn(visible, gate)
             /\ gate = "A" => frozen' = frozen
             /\ gate = "B" => bTheory' = bTheory
  <2> DEFINE Goal == /\ attempts'[gate] = attempts[gate]
                     /\ ObservationsIn(visible', gate) = ObservationsIn(visible, gate)
                     /\ gate = "A" => frozen' = frozen
                     /\ gate = "B" => bTheory' = bTheory
  <2> USE DEF measured, accounts, theories, transfer
  <2>1. CASE \/ StartEpistemicCycle \/ DeclareNoConcept \/ OpenBCalibration
             \/ CommitPredictions \/ TransferIdTaken
             \/ ObserveTransfer \/ ObserveTransferRaises \/ CloseRun \/ UNCHANGED vars
    <3>1. attempts' = attempts /\ visible' = visible /\ frozen' = frozen /\ bTheory' = bTheory
      BY <2>1 DEF StartEpistemicCycle, DeclareNoConcept, OpenBCalibration, CommitPredictions,
         TransferIdTaken, ObserveTransfer, ObserveTransferRaises, CloseRun, vars
    <3> QED
      BY <3>1
  <2>2. attempts["A"] \in {0, 1} /\ attempts["B"] \in {0, 1}
    BY <1>1 DEF TypeInv
  <2>3. ASSUME NEW exp \in Experiments, VisibleExperimentRaises(exp)
        PROVE  Goal
    BY <2>3 DEF VisibleExperimentRaises
  <2>4. ASSUME NEW exp \in Experiments, RunVisibleExperiment(exp)
        PROVE  Goal
    <3>1. exp.paradigm # gate
      <4>1. \/ phase = "A_DISCOVERY" /\ exp.paradigm = "A"
            \/ /\ phase = "B_CALIBRATION" /\ exp.paradigm = "B"
               /\ spent["B_calibration"] < BCalibrationBudget
               /\ spent["B_calibration"] \in Nat
        BY <1>1, <2>4, PurposeNames DEF RunVisibleExperiment, Accepted, Permitted, TypeInv
      <4> QED
        BY <1>1, <2>2, <4>1, Allocations DEF Books, Staged
    <3>2. PICK o \in Observations : visible' = Append(visible, o) /\ o.paradigm = exp.paradigm
      BY <1>1, <2>4, VisibleRecord
    <3>3. ObservationsIn(visible', gate) = ObservationsIn(visible, gate)
      BY <1>1, <3>1, <3>2, ObservationsAppend DEF TypeInv
    <3> QED
      BY <2>4, <3>3 DEF RunVisibleExperiment
  <2>5. ASSUME NEW theory \in TheoryChoices, FreezeATheory(theory) \/ FailAGate(theory)
        PROVE  Goal
    <3>1. Charge("A") /\ attempts["A"] = 0 /\ visible' = visible /\ bTheory' = bTheory
      BY <2>5 DEF FreezeATheory, FailAGate, FailGate, AGateOpen
    <3>2. gate = "B" /\ attempts'["B"] = attempts["B"]
      BY <1>1, <3>1, ChargeEffect
    <3> QED
      BY <3>1, <3>2
  <2>6. ASSUME NEW theory \in TheoryChoices,
               SubmitBTheory(theory) \/ FailBGate(theory) \/ BGateUndecided(theory)
        PROVE  Goal
    <3>1. Charge("B") /\ attempts["B"] = 0 /\ visible' = visible /\ frozen' = frozen
      BY <2>6 DEF SubmitBTheory, FailBGate, BGateUndecided, FailGate, BGateOpen
    <3>2. gate = "A" /\ attempts'["A"] = attempts["A"]
      BY <1>1, <3>1, ChargeEffect
    <3> QED
      BY <3>1, <3>2
  <2> QED
    BY <1>1, <2>1, <2>3, <2>4, <2>5, <2>6 DEF Next
<1>2. TypeInv /\ Books /\ [Next]_vars =>
        [\A gate \in {"A", "B"} : attempts[gate] > 0 =>
           /\ attempts'[gate] = attempts[gate]
           /\ ObservationsIn(visible', gate) = ObservationsIn(visible, gate)
           /\ gate = "A" => frozen' = frozen
           /\ gate = "B" => bTheory' = bTheory]_vars
  BY <1>1
<1> QED
  BY <1>2, Typed, BooksHold, PTL DEF Spec, NoRejectionSampling

-------------------------------------------------------------------------------
(* The result.                                                             *)

\* The fits recorded at the gates are those of the raw observations, and the B theory
\* keeps the frozen latent variable and explanation and is no relabeling of it.
FitRecorded ==
  /\ fit \in [{"A", "B"} -> Nat]
  /\ phase \in {"A_FROZEN"} \cup Opened => fit["A"] = Correct(frozen, "A", visible)
  /\ phase = "B_TRANSFER" =>
       /\ fit["B"] = Correct(bTheory, "B", visible)
       /\ Latent(bTheory) = Latent(frozen)
       /\ SameExplanation(bTheory, frozen)
       /\ ~Isomorphic(ProgramFor(bTheory, "A"), ProgramFor(bTheory, "B"), Latent(bTheory))

LEMMA CorrectType ==
  ASSUME TypeInv, Books, NEW gate \in {"A", "B"}, NEW theory
  PROVE  Correct(theory, gate, visible) \in Nat
<1> DEFINE S == {i \in ObservationsIn(visible, gate) :
                   Predict(theory, gate, visible[i].entity, visible[i].action)
                     = visible[i].y}
<1>1. IsFiniteSet(ObservationsIn(visible, gate))
  BY DEF Books, Counted
<1>2. S \in SUBSET ObservationsIn(visible, gate)
  OBVIOUS
<1>3. Correct(theory, gate, visible) = Cardinality(S)
  BY DEF Correct
<1> HIDE DEF S
<1>4. IsFiniteSet(S)
  BY <1>1, <1>2, FS_Subset
<1> QED
  BY <1>3, <1>4, FS_CardinalityType

\* Observations of the other paradigm do not touch a score.
LEMMA CorrectAppend ==
  ASSUME TypeInv, NEW o \in Observations, NEW p, o.paradigm # p, NEW theory
  PROVE  Correct(theory, p, Append(visible, o)) = Correct(theory, p, visible)
<1>1. ObservationsIn(Append(visible, o), p) = ObservationsIn(visible, p)
  BY ObservationsAppend DEF TypeInv
<1>2. \A i \in ObservationsIn(visible, p) : Append(visible, o)[i] = visible[i]
  BY DEF TypeInv, ObservationsIn
<1> QED
  BY <1>1, <1>2 DEF Correct

\* Theories with the same latent variable and A explanation score alike on A.
LEMMA CorrectShared ==
  ASSUME NEW theory, NEW other, Latent(theory) = Latent(other), SameExplanation(theory, other)
  PROVE  Correct(theory, "A", visible) = Correct(other, "A", visible)
<1>1. \A e, a : Predict(theory, "A", e, a) = Predict(other, "A", e, a)
  BY DEF Predict, SameExplanation
<1> QED
  BY <1>1 DEF Correct

LEMMA FitInit == Init => FitRecorded
BY DEF Init, FitRecorded, Opened

LEMMA FitFrame ==
  ASSUME FitRecorded, fit' = fit, visible' = visible, frozen' = frozen, bTheory' = bTheory,
         phase' \in {phase, "CLOSED"} \/ (phase = "A_FROZEN" /\ phase' = "B_CALIBRATION")
  PROVE  FitRecorded'
BY DEF FitRecorded, Opened

LEMMA FitStep == TypeInv /\ Books /\ FitRecorded /\ [Next]_vars => FitRecorded'
<1> SUFFICES ASSUME TypeInv, Books, FitRecorded, [Next]_vars
             PROVE  FitRecorded'
  OBVIOUS
<1> USE DEF measured, accounts, theories, transfer
<1>1. CASE \/ StartEpistemicCycle \/ DeclareNoConcept \/ OpenBCalibration
           \/ CommitPredictions \/ TransferIdTaken
           \/ ObserveTransfer \/ ObserveTransferRaises \/ CloseRun \/ UNCHANGED vars
  BY <1>1, FitFrame DEF StartEpistemicCycle, DeclareNoConcept, OpenBCalibration, Close,
     CommitPredictions, TransferIdTaken, ObserveTransfer, ObserveTransferRaises, CloseRun, vars
<1>2. ASSUME NEW exp \in Experiments, VisibleExperimentRaises(exp)
      PROVE  FitRecorded'
  BY <1>2, FitFrame DEF VisibleExperimentRaises
<1>3. ASSUME NEW exp \in Experiments, RunVisibleExperiment(exp)
      PROVE  FitRecorded'
  <2>1. PICK o \in Observations : visible' = Append(visible, o) /\ o.paradigm = exp.paradigm
    BY <1>3, VisibleRecord
  <2>2. /\ phase' = phase /\ fit' = fit /\ frozen' = frozen
        /\ \/ phase = "A_DISCOVERY"
           \/ phase = "B_CALIBRATION" /\ exp.paradigm = "B"
    BY <1>3 DEF RunVisibleExperiment, Accepted, Permitted
  <2>3. phase = "B_CALIBRATION" => Correct(frozen, "A", visible') = Correct(frozen, "A", visible)
    BY <2>1, <2>2, CorrectAppend
  <2> QED
    BY <2>2, <2>3 DEF FitRecorded, Opened
<1>4. ASSUME NEW theory \in TheoryChoices,
             FailAGate(theory) \/ FailBGate(theory) \/ BGateUndecided(theory)
      PROVE  FitRecorded'
  BY <1>4, FitFrame DEF FailAGate, FailBGate, BGateUndecided, FailGate, Close
<1>5. ASSUME NEW theory \in TheoryChoices, FreezeATheory(theory)
      PROVE  FitRecorded'
  <2>1. /\ fit' = [fit EXCEPT !["A"] = Correct(theory, "A", visible)]
        /\ frozen' = theory /\ phase' = "A_FROZEN" /\ visible' = visible
    BY <1>5 DEF FreezeATheory
  <2>2. Correct(theory, "A", visible) \in Nat
    BY CorrectType
  <2> QED
    BY <2>1, <2>2 DEF FitRecorded, Opened
<1>6. ASSUME NEW theory \in TheoryChoices, SubmitBTheory(theory)
      PROVE  FitRecorded'
  <2>1. /\ fit' = [fit EXCEPT !["B"] = Correct(theory, "B", visible)]
        /\ bTheory' = theory /\ frozen' = frozen /\ phase' = "B_TRANSFER"
        /\ phase = "B_CALIBRATION" /\ visible' = visible
    BY <1>6 DEF SubmitBTheory, BGateOpen
  <2>2. /\ Latent(theory) = Latent(frozen) /\ SameExplanation(theory, frozen)
        /\ ~Isomorphic(ProgramFor(theory, "A"), ProgramFor(theory, "B"), Latent(theory))
    BY <1>6 DEF SubmitBTheory, PassesBGate, ReachesSolver
  <2>3. Correct(theory, "B", visible) \in Nat
    BY CorrectType
  <2> QED
    BY <2>1, <2>2, <2>3 DEF FitRecorded, Opened
<1> QED
  BY <1>1, <1>2, <1>3, <1>4, <1>5, <1>6 DEF Next

\* At the close, the recorded numbers are those of the B theory on the raw data.
LEMMA QualifiesIsRaw ==
  ASSUME TypeInv, Books, FitRecorded, CloseRun
  PROVE  Qualifies <=>
           /\ Fits(bTheory, "A", visible)
           /\ Fits(bTheory, "B", visible)
           /\ AtLeast(Cardinality({i \in DOMAIN outcomes : outcomes[i].y =
                        Predict(bTheory, "B", outcomes[i].entity, outcomes[i].action)}),
                      BTransferBudget, TransferNum, TransferDen)
<1>1. phase = "B_TRANSFER"
  BY DEF CloseRun, Books, Staged
<1>2. /\ Cardinality(ObservationsIn(visible, "A")) = ADiscoveryBudget
      /\ Cardinality(ObservationsIn(visible, "B")) = BCalibrationBudget
  BY <1>1 DEF Books, Staged, Counted, Purpose, Opened
<1>3. /\ fit["A"] = Correct(bTheory, "A", visible)
      /\ fit["B"] = Correct(bTheory, "B", visible)
  BY <1>1, CorrectShared DEF FitRecorded, Opened
<1>4. /\ Fits(bTheory, "A", visible)
           <=> AtLeast(fit["A"], ADiscoveryBudget, FitNum, FitDen)
      /\ Fits(bTheory, "B", visible)
           <=> AtLeast(fit["B"], BCalibrationBudget, FitNum, FitDen)
  <2>1. ADiscoveryBudget > 0 /\ BCalibrationBudget > 0
    BY Allocations
  <2> QED
    BY <1>2, <1>3, <2>1 DEF Fits
<1>5. \A i \in DOMAIN outcomes :
        outcomes[i].predicted
          = Predict(bTheory, "B", outcomes[i].entity, outcomes[i].action)
  <2> SUFFICES ASSUME NEW i \in DOMAIN outcomes
               PROVE  outcomes[i].predicted
                        = Predict(bTheory, "B", outcomes[i].entity, outcomes[i].action)
    OBVIOUS
  <2>1. i \in DOMAIN committed /\ committed # <<>>
    BY DEF TypeInv, Books, Transferred
  <2>2. i \in DOMAIN challenges /\ committed[i] = Prediction(challenges[i])
    BY <2>1 DEF Books, Transferred
  <2> QED
    BY <2>2 DEF Books, Transferred, Prediction
<1>6. Hits = Cardinality({i \in DOMAIN outcomes : outcomes[i].y =
               Predict(bTheory, "B", outcomes[i].entity, outcomes[i].action)})
  <2>1. {i \in DOMAIN outcomes : outcomes[i].predicted = outcomes[i].y}
          = {i \in DOMAIN outcomes : outcomes[i].y =
               Predict(bTheory, "B", outcomes[i].entity, outcomes[i].action)}
    BY <1>5
  <2> QED
    BY <2>1 DEF Hits
<1> QED
  BY <1>4, <1>6 DEF Qualifies

LEMMA QualifiedStep ==
  TypeInv /\ Books /\ FitRecorded /\ QualifiedFromRaw /\ [Next]_vars => QualifiedFromRaw'
<1> SUFFICES ASSUME TypeInv, Books, FitRecorded, QualifiedFromRaw, [Next]_vars
             PROVE  QualifiedFromRaw'
  OBVIOUS
<1>1. CASE phase = "CLOSED"
  <2>1. UNCHANGED vars
    BY <1>1, ClosedStays DEF Books
  <2> QED
    BY <2>1 DEF QualifiedFromRaw, vars, theories, measured, transfer
<1>2. CASE CloseRun
  <2>1. /\ visible' = visible /\ outcomes' = outcomes /\ bTheory' = bTheory
        /\ frozen' = frozen /\ result'.qualifies = Qualifies /\ phase = "B_TRANSFER"
    BY <1>2 DEF CloseRun, Close, measured, theories, Books, Staged
  <2>2. /\ Latent(bTheory) = Latent(frozen)
        /\ ~Isomorphic(ProgramFor(bTheory, "A"), ProgramFor(bTheory, "B"), Latent(bTheory))
    BY <2>1 DEF FitRecorded
  <2> QED
    BY <1>2, <2>1, <2>2, QualifiesIsRaw DEF QualifiedFromRaw
<1>3. ASSUME result' = result, phase # "CLOSED"
      PROVE  QualifiedFromRaw'
  BY <1>3 DEF QualifiedFromRaw, Books, Accounted
<1>4. ASSUME result'.outcome # "d4"
      PROVE  QualifiedFromRaw'
  BY <1>4 DEF QualifiedFromRaw
<1>5. CASE \/ StartEpistemicCycle \/ OpenBCalibration \/ CommitPredictions \/ TransferIdTaken
           \/ ObserveTransfer \/ ObserveTransferRaises \/ UNCHANGED vars
  BY <1>1, <1>3, <1>5 DEF StartEpistemicCycle, OpenBCalibration, CommitPredictions,
     TransferIdTaken, ObserveTransfer, ObserveTransferRaises, vars
<1>6. CASE DeclareNoConcept
  BY <1>4, <1>6 DEF DeclareNoConcept, Close
<1>7. ASSUME NEW exp \in Experiments,
             RunVisibleExperiment(exp) \/ VisibleExperimentRaises(exp)
      PROVE  QualifiedFromRaw'
  BY <1>1, <1>3, <1>7 DEF RunVisibleExperiment, VisibleExperimentRaises
<1>8. ASSUME NEW theory \in TheoryChoices, FailAGate(theory) \/ FailBGate(theory)
      PROVE  QualifiedFromRaw'
  BY <1>4, <1>8 DEF FailAGate, FailBGate, FailGate, Close
<1>9. ASSUME NEW theory \in TheoryChoices,
             FreezeATheory(theory) \/ SubmitBTheory(theory) \/ BGateUndecided(theory)
      PROVE  QualifiedFromRaw'
  BY <1>1, <1>3, <1>9 DEF FreezeATheory, SubmitBTheory, BGateUndecided
<1> QED
  BY <1>2, <1>5, <1>6, <1>7, <1>8, <1>9 DEF Next

\* A D4 result says of its theory what a new scoring of the raw observations would.
THEOREM ResultIsRaw == Spec => []QualifiedFromRaw
<1>1. Init => QualifiedFromRaw
  BY DEF Init, QualifiedFromRaw
<1> QED
  BY <1>1, FitInit, FitStep, QualifiedStep, Typed, BooksHold, PTL DEF Spec
===============================================================================
