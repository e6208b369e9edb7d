------------------------------ MODULE MCV0Broker ------------------------------
(* Instance of V0Broker for TLC: four entities, two of them for calibration, *)
(* interventions and outcomes of one bit, two latent labels.                 *)
EXTENDS V0Broker

\* Entities 0 and 2 are calibrated, 1 and 3 are held out.
MCCalibrationEntities == {0, 2}

Table(f(_, _)) == [p \in {0, 1} \X Domain |-> f(p[1], p[2])]
Program(paradigm, table, ops) ==
  [paradigm |-> paradigm, table |-> table, operators |-> ops, depth |-> 2,
   variables |-> {"q", ActionName(paradigm)}]

Xor(q, x) == (q + x) % 2
Xnor(q, x) == (q + x + 1) % 2
And(q, x) == q * x

Flip(q, x) == (x + 1) % 2

Law == Program("A", Table(Xor), {"xor"})
OtherLaw == Program("A", Table(Xnor), {"xor"})

MCLatent == [name |-> "q", cardinality |-> 2, assignments |-> [e \in Entities |-> e \div 2]]
OtherLatent == [MCLatent EXCEPT !.assignments = [e \in Entities |-> e % 2]]
NamedX == [MCLatent EXCEPT !.name = "x"]
Partial == [MCLatent EXCEPT !.assignments = [e \in {0, 1, 2} |-> e \div 2]]

\* With a latent variable named like the intervention, one variable is both.
LatentFree == [Program("A", Table(Flip), {"xor"}) EXCEPT !.variables = {"x"}]
OfNamedX == [Program("B", Table(And), {"and"}) EXCEPT !.variables = {"x", "u"}]

Theory(latents, programs) ==
  [theory_id |-> "T", latent_variables |-> latents, programs |-> programs]

\* For the A gate: a legal theory, one without an assignment for every entity, one
\* that is too deep, one with two latent variables.
ATheories ==
  {Theory(<<MCLatent>>, <<Law>>), Theory(<<Partial>>, <<Law>>),
   Theory(<<MCLatent>>, <<[Law EXCEPT !.depth = 3]>>),
   Theory(<<MCLatent, MCLatent>>, <<Law>>), Theory(<<NamedX>>, <<LatentFree>>)}

\* For the B gate: a separate law; the A law under another name of its values; the
\* operators of the A law; and changes of the frozen explanation and its concept.
BTheories ==
  {Theory(<<MCLatent>>, <<Law, Program("B", Table(And), {"and"})>>),
   Theory(<<MCLatent>>, <<Law, Program("B", Table(Xnor), {"and"})>>),
   Theory(<<MCLatent>>, <<Law, Program("B", Table(And), {"xor"})>>),
   Theory(<<MCLatent>>, <<OtherLaw, Program("B", Table(And), {"and"})>>),
   Theory(<<OtherLatent>>, <<Law, Program("B", Table(And), {"and"})>>),
   Theory(<<NamedX>>, <<LatentFree, OfNamedX>>)}

MCTheoryChoices == ATheories \cup BTheories \cup {None}

Exp(id, paradigm, entity, action) ==
  [id |-> id, paradigm |-> paradigm, entity |-> entity, action |-> action,
   consistent |-> TRUE]

\* A pair measured twice, an id reused across the paradigms, an experiment on a
\* held-out entity, and one whose id is the broker's own.
MCExperiments ==
  {Exp(11, "A", 0, 0), Exp(12, "A", 0, 0), Exp(13, "A", 3, 1),
   Exp(14, "B", 0, 1), Exp(15, "B", 0, 1), Exp(12, "B", 2, 1),
   Exp(16, "B", 1, 1), Exp(2, "B", 2, 1)}
===============================================================================
