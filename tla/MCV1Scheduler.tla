----------------------------- MODULE MCV1Scheduler ----------------------------
(* Instances of V1Scheduler for TLC.                                        *)
EXTENDS V1Scheduler

\* Every canonical partition of the entities of a small instance.
AllPartitions ==
  {p \in UNION {[group_count : {k}, entity_group : [Entities -> 0 .. k - 1]] :
                  k \in MinGroups .. MaxGroups} :
     LegalHypothesis(p) /\ Canonicalize(p) = p}

\* With the real sizes: one partition for each way to cut the sixteen entities
\* into consecutive groups.  The loops look at a group's members only in order,
\* so every profile of group sizes is among them.
Cuts(k) == {s \in [1 .. k -> MinEntitiesPerGroup .. NumEntities] :
              \A i \in 1 .. k - 1 : s[i] + MinEntitiesPerGroup <= s[i + 1]}
Contiguous(k, s) ==
  [group_count |-> k,
   entity_group |-> [e \in Entities |-> Cardinality({i \in 1 .. k - 1 : s[i] <= e})]]
SizeProfiles ==
  {p \in UNION {{Contiguous(k, s) : s \in Cuts(k - 1)} : k \in MinGroups .. MaxGroups} :
     LegalHypothesis(p)}
===============================================================================
