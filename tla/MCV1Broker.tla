------------------------------ MODULE MCV1Broker ------------------------------
(* Instance of V1Broker for TLC: five entities, two actions, two groups of  *)
(* three and two.  The gate needs two eligible cells, B calibration stops   *)
(* in the middle of its second pass and B transfer in the middle of its own.*)
EXTENDS V1Broker

\* Interventions that can give the group {0, 1, 2} support in both its cells.
Probes == {<<0, 0>>, <<1, 0>>, <<0, 1>>, <<1, 1>>}

\* Ids matter only for reuse: two disjoint batches, and one whose second id
\* belongs to the first of them.
MCBatches ==
  {<<[id |-> ids[1], entity |-> p[1], action |-> p[2]],
     [id |-> ids[2], entity |-> q[1], action |-> q[2]]>> :
     ids \in {<<1, 2>>, <<3, 4>>, <<3, 2>>},
     <<p, q>> \in {pq \in Probes \X Probes : pq[1][1] + 2 * pq[1][2] <= pq[2][1] + 2 * pq[2][2]}}

Hypothesis(k, groups) ==
  [group_count |-> k, entity_group |-> [e \in Entities |-> groups[e + 1]]]

\* Labels in both orders, a partition that separates the probed entities, so that
\* the gate cannot cover it, one whose second group is a singleton, and one
\* outside the range of group_count.
MCCommitChoices ==
  {Hypothesis(2, <<0, 0, 0, 1, 1>>), Hypothesis(2, <<1, 1, 0, 1, 0>>),
   Hypothesis(2, <<0, 1, 1, 0, 0>>), Hypothesis(2, <<0, 0, 0, 0, 1>>),
   Hypothesis(3, <<0, 0, 1, 1, 2>>)}

\* Two batches for the runs in which observe may raise once: each gives entities 0
\* and 1 a value for one action, and submitting it again reuses its ids.
FaultyBatches ==
  {[i \in 1 .. 2 |-> [id |-> 2 * a + i, entity |-> i - 1, action |-> a]] : a \in Actions}
===============================================================================
