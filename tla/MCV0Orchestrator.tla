--------------------------- MODULE MCV0Orchestrator ---------------------------
(* Instance of V0Orchestrator for TLC: two A rounds, of two experiments and *)
(* of one, and one B round of two; the world and the theories of MCV0Broker.*)
EXTENDS V0Orchestrator, MCV0Broker

MCABatchSizes == <<2, 1>>
MCBBatchSizes == <<2>>

\* All lists of one or two of these experiments: a pair measured twice, ids used in
\* two batches or twice in one, the broker's own id, a held-out entity, and an
\* experiment with a prediction that is not about its targets.
Selected ==
  {Exp(11, "A", 0, 0), Exp(12, "A", 0, 0), Exp(13, "A", 3, 1), Exp(14, "B", 0, 1),
   Exp(13, "B", 2, 1), Exp(2, "B", 2, 1), Exp(16, "B", 1, 1),
   [Exp(15, "B", 0, 1) EXCEPT !.consistent = FALSE]}
MCBatches == {<<e>> : e \in Selected} \cup (Selected \X Selected)
===============================================================================
