------------------------------- MODULE V0Theory -------------------------------
(***************************************************************************)
(* Theories of the V0 protocol, from archimedes_v0/ast_schema.py,          *)
(* theory_eval.py and smt_isomorphism.py: what makes a Theory AST legal,   *)
(* what it predicts, how it is scored against observations, and when two   *)
(* programs are the same law under another labelling.                      *)
(*                                                                         *)
(* A program is what the broker asks of its expression: the table of its   *)
(* values over latent labels and interventions (every expression of the    *)
(* schema is total on the domain once its variables are the two allowed    *)
(* ones), its variables, its operators and its depth.  Two programs that   *)
(* agree in all of these are taken for the same expression.                *)
(***************************************************************************)
EXTENDS Integers, Sequences, FiniteSets, Functions

CONSTANTS
  NumEntities,           \* NUM_ENTITIES, 16 in the code
  DomainSize,            \* DOMAIN_SIZE, 8: interventions and outcomes
  MinCardinality,        \* MIN_LATENT_CARDINALITY, 2
  MaxCardinality,        \* MAX_LATENT_CARDINALITY, 4
  MinEntitiesPerState,   \* MIN_ENTITIES_PER_LATENT_STATE, 2
  MaxExpressionDepth,    \* MAX_EXPRESSION_DEPTH, 6
  Operators,             \* the kinds operator_signature reports
  LatentNames,           \* names a latent variable may have
  TheoryIds,             \* theory_id values
  FitNum, FitDen,        \* D4_VISIBLE_FIT_ACCURACY_MIN = FitNum / FitDen
  None                   \* Python's None

Entities == 0 .. NumEntities - 1
Domain == 0 .. DomainSize - 1

ASSUME TheoryConstants ==
  /\ {NumEntities, DomainSize, MinCardinality, MaxCardinality, MinEntitiesPerState,
      MaxExpressionDepth, FitNum, FitDen} \subseteq Nat \ {0}
  /\ MinCardinality <= MaxCardinality
  /\ MaxCardinality <= DomainSize
  /\ FitNum <= FitDen

-------------------------------------------------------------------------------
(* Schema.                                                                 *)

Labels(latent) == 0 .. latent.cardinality - 1

Latents ==
  [name : LatentNames, cardinality : MinCardinality .. MaxCardinality,
   assignments : UNION {[S -> 0 .. MaxCardinality - 1] : S \in SUBSET Entities}]

\* LatentVariable.assignments_in_domain: every label is used, by enough entities.
LegalLatent(latent) ==
  /\ latent \in Latents
  /\ Range(latent.assignments) = Labels(latent)
  /\ \A q \in Labels(latent) :
       Cardinality({e \in DOMAIN latent.assignments : latent.assignments[e] = q})
         >= MinEntitiesPerState

\* A table does not depend on a latent that is not a variable of the program; nor, in
\* the environment of an evaluation, on one that has the intervention's name.
Tables == [(0 .. MaxCardinality - 1) \X Domain -> Domain]
Programs ==
  [paradigm : {"A", "B"}, table : Tables, variables : SUBSET (LatentNames \cup {"x", "u"}),
   operators : SUBSET Operators, depth : Nat]

\* TheoryAST; a value that fails the schema is None.
LegalTheory(theory) ==
  /\ theory.theory_id \in TheoryIds
  /\ theory.programs \in Seq(Programs) /\ Len(theory.programs) <= 2
  /\ theory.latent_variables \in Seq(Latents) /\ Len(theory.latent_variables) <= 4
  /\ \A i \in DOMAIN theory.latent_variables : LegalLatent(theory.latent_variables[i])

-------------------------------------------------------------------------------
(* Evaluation.                                                             *)

ProgramsFor(theory, paradigm) ==
  {i \in DOMAIN theory.programs : theory.programs[i].paradigm = paradigm}

\* program_for raises unless there is exactly one.
HasProgram(theory, paradigm) == Cardinality(ProgramsFor(theory, paradigm)) = 1
ProgramFor(theory, paradigm) ==
  theory.programs[CHOOSE i \in ProgramsFor(theory, paradigm) : TRUE]

ActionName(paradigm) == IF paradigm = "A" THEN "x" ELSE "u"

\* validate_program_structure: it uses the latent and the intervention, nothing
\* else, and combines them with some operator.
WellStructured(program, latent) ==
  /\ program.variables = {latent.name, ActionName(program.paradigm)}
  /\ program.operators # {}

Latent(theory) == theory.latent_variables[1]

Predict(theory, paradigm, entity, action) ==
  ProgramFor(theory, paradigm).table[<<Latent(theory).assignments[entity], action>>]

\* score_observations: the observations of the paradigm, and those predicted.
ObservationsIn(observations, paradigm) ==
  {i \in DOMAIN observations : observations[i].paradigm = paradigm}

Correct(theory, paradigm, observations) ==
  Cardinality({i \in ObservationsIn(observations, paradigm) :
    Predict(theory, paradigm, observations[i].entity, observations[i].action)
      = observations[i].y})

AtLeast(correct, total, num, den) == correct * den >= num * total

Fits(theory, paradigm, observations) ==
  LET total == Cardinality(ObservationsIn(observations, paradigm))
  IN  /\ total > 0
      /\ AtLeast(Correct(theory, paradigm, observations), total, FitNum, FitDen)

-------------------------------------------------------------------------------
(* Structural isomorphism.                                                 *)

\* What the solver is asked: relabelings of the latent states, the interventions
\* and the outcomes that turn one truth table into the other.
Isomorphic(a, b, latent) ==
  \E labels \in Bijection(Labels(latent), Labels(latent)),
     actions, outputs \in Bijection(Domain, Domain) :
    \A q \in Labels(latent), x \in Domain :
      outputs[a.table[<<q, x>>]] = b.table[<<labels[q], actions[x]>>]

-------------------------------------------------------------------------------
(* The two gates, without their charge.                                    *)

\* What freeze_a_theory asks of a submission.
PassesAGate(theory, observations) ==
  /\ theory # None
  /\ Len(theory.latent_variables) = 1
  /\ DOMAIN Latent(theory).assignments = Entities
  /\ HasProgram(theory, "A") /\ Len(theory.programs) = 1
  /\ WellStructured(ProgramFor(theory, "A"), Latent(theory))
  /\ ProgramFor(theory, "A").depth <= MaxExpressionDepth
  /\ Fits(theory, "A", observations)

\* A variant with a plausible bug: the programs' operators are compared instead of
\* the programs.
SameOperators(theory, frozen) ==
  ProgramFor(theory, "A").operators = ProgramFor(frozen, "A").operators

\* The A explanation is the frozen one.
SameExplanation(theory, frozen) == ProgramFor(theory, "A") = ProgramFor(frozen, "A")

\* What submit_b_theory asks before it calls the solver.
ReachesSolver(theory, frozen, observations) ==
  /\ theory # None
  /\ theory.theory_id = frozen.theory_id
  /\ Len(theory.latent_variables) = 1
  /\ Latent(theory) = Latent(frozen)
  /\ HasProgram(theory, "A") /\ HasProgram(theory, "B")
  /\ SameExplanation(theory, frozen)
  /\ WellStructured(ProgramFor(theory, "B"), Latent(frozen))
  /\ ProgramFor(theory, "B").depth <= MaxExpressionDepth
  /\ Fits(theory, "B", observations)
  /\ ProgramFor(theory, "A").operators \cap ProgramFor(theory, "B").operators = {}

PassesBGate(theory, frozen, observations) ==
  /\ ReachesSolver(theory, frozen, observations)
  /\ ~Isomorphic(ProgramFor(theory, "A"), ProgramFor(theory, "B"), Latent(frozen))
===============================================================================
