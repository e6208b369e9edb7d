--------------------------- MODULE MCV1Orchestrator ---------------------------
(* Instance of V1Orchestrator for TLC: two rounds, both interfaces, and the *)
(* batches and partitions of MCV1Broker.                                    *)
EXTENDS V1Orchestrator

Hypothesis(k, groups) ==
  [group_count |-> k, entity_group |-> [e \in Entities |-> groups[e + 1]]]

\* A partition the gate can cover, one it cannot, and an illegal one.
MCCommitChoices ==
  {Hypothesis(2, <<0, 0, 0, 1, 1>>), Hypothesis(2, <<0, 1, 1, 0, 0>>),
   Hypothesis(2, <<0, 0, 0, 0, 1>>)}

\* Every batch gives entities 0 and 1 a value for one action; ids may be reused.
MCBatches ==
  {[i \in 1 .. 2 |-> [id |-> ids[i], entity |-> i - 1, action |-> a]] :
     ids \in {<<1, 2>>, <<3, 4>>, <<3, 2>>}, a \in Actions}
===============================================================================
