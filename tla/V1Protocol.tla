------------------------------ MODULE V1Protocol ------------------------------
(***************************************************************************)
(* The trusted, deterministic computations of archimedes_v0/v1_protocol.py:*)
(* partition legality and canonical labels, the reduction of the discovery *)
(* observations, the sealed A-gate challenges, the two B schedules, the B  *)
(* lookup, the frozen transfer predictions and the score.                  *)
(*                                                                         *)
(* Public entities and actions are integers, so that "sorted by entity id" *)
(* is <.  A cell is the integer group * NumActions + action, so canonical  *)
(* cell order (group first, then action) is < too.  A loop that walks cells*)
(* in order and stops at a budget yields the first elements of a set of    *)
(* integers; V1Scheduler runs the same loops step by step and checks that  *)
(* they produce these sequences.                                           *)
(***************************************************************************)
EXTENDS Integers, Sequences, FiniteSets

CONSTANTS
  NumEntities,          \* len(ENTITIES), 16 in the code
  NumActions,           \* len(ACTIONS), 8; also the size of the outcome domain
  MinGroups,            \* MIN_GROUPS
  MaxGroups,            \* MAX_GROUPS
  MinEntitiesPerGroup,  \* MIN_ENTITIES_PER_GROUP
  AGateBudget,          \* A_GATE_BUDGET
  BCalibrationBudget,   \* B_CALIBRATION_BUDGET
  BTransferBudget,      \* B_TRANSFER_BUDGET
  None                  \* Python's None

Entities == 0 .. NumEntities - 1
Actions == 0 .. NumActions - 1

(* The arithmetic the frozen constants satisfy (16, 8, 2, 4, 2, 4, 32, 32):*)
(* pass 0 of calibration fits, later passes can fill it, and enough pairs  *)
(* remain to give every cell a transfer slot.                              *)
ASSUME ProtocolConstants ==
  /\ {NumEntities, NumActions, MinGroups, MaxGroups, AGateBudget,
      BCalibrationBudget, BTransferBudget} \subseteq Nat \ {0}
  /\ MinGroups <= MaxGroups
  /\ MinEntitiesPerGroup \in Nat /\ MinEntitiesPerGroup >= 2
  /\ MaxGroups * MinEntitiesPerGroup <= NumEntities
  /\ MaxGroups * NumActions <= BCalibrationBudget
  /\ BCalibrationBudget <= NumActions * (NumEntities - MaxGroups)
  /\ MaxGroups * NumActions <= BTransferBudget
  /\ BTransferBudget <= NumActions * NumEntities - BCalibrationBudget
  /\ None \notin Actions

-------------------------------------------------------------------------------
(* The records the computations exchange.  An observation keeps what its   *)
(* readers use: the list it is in gives its paradigm and its stage.        *)

Observations == [entity : Entities, action : Actions, rep : Nat, y : Actions]
Slots == [entity : Entities, action : Actions, group : Nat]
Challenges == [entity : Entities, action : Actions, group : Nat, predicted : Actions]
Statuses == {"defined", "inconsistent", "missing"}
LookupCells ==
  {cell \in [status : Statuses, predicted : Actions \cup {None}] :
     cell.status = "defined" <=> cell.predicted \in Actions}
Predictions == [entity : Entities, action : Actions, group : Nat,
                status : Statuses, predicted : Actions \cup {None}]

-------------------------------------------------------------------------------
(* Partitions.  A hypothesis and a canonical partition are both records    *)
(* [group_count, entity_group].                                            *)

GroupsOf(p) == 0 .. p.group_count - 1

MembersOf(p, g) == {e \in Entities : p.entity_group[e] = g}

Partitions ==
  {p \in [group_count : MinGroups .. MaxGroups, entity_group : [Entities -> Nat]] :
     \A e \in Entities : p.entity_group[e] \in GroupsOf(p)}

ASSUME NoneIsNoPartition == None \notin Partitions

\* PartitionHypothesis.validate_partition and the bounds of its fields.
LegalHypothesis(h) ==
  /\ h.group_count \in MinGroups .. MaxGroups
  /\ \A e \in Entities : h.entity_group[e] \in GroupsOf(h)
  /\ \A g \in GroupsOf(h) : Cardinality(MembersOf(h, g)) >= MinEntitiesPerGroup

\* The first entity, in id order, of each group.
Leaders(h) ==
  {d \in Entities : \A e \in 0 .. d - 1 : h.entity_group[e] # h.entity_group[d]}

\* Groups are relabelled in the order of their first members.
Canonicalize(h) ==
  [group_count |-> h.group_count,
   entity_group |-> [e \in Entities |->
     Cardinality({d \in Leaders(h) :
                    \A m \in MembersOf(h, h.entity_group[e]) : d < m})]]

\* The element of a finite set of integers with exactly i smaller elements, and
\* the first n elements in order, or all of them when there are fewer.
NthOf(S, i) == CHOOSE e \in S : Cardinality({d \in S : d < e}) = i
FirstOf(S, n) ==
  [i \in 1 .. (IF Cardinality(S) < n THEN Cardinality(S) ELSE n) |-> NthOf(S, i - 1)]

-------------------------------------------------------------------------------
(* Cells in canonical order.                                               *)

NumCells(p) == p.group_count * NumActions
CellsOf(p) == 0 .. NumCells(p) - 1
CellOf(g, a) == g * NumActions + a
GroupOfCell(c) == c \div NumActions
ActionOfCell(c) == c % NumActions

-------------------------------------------------------------------------------
(* Discovery observations and the empirical A gate.                        *)

\* Indices of the observations of one exact (entity, action) pair.
ObservationsOf(obs, e, a) ==
  {i \in DOMAIN obs : obs[i].entity = e /\ obs[i].action = a}

Votes(obs, e, a, v) == Cardinality({i \in ObservationsOf(obs, e, a) : obs[i].y = v})

\* The values of maximal frequency of a pair; the pair is reduced iff it is one.
Modes(obs, e, a) ==
  {v \in Actions : /\ Votes(obs, e, a, v) > 0
                   /\ \A w \in Actions : Votes(obs, e, a, w) <= Votes(obs, e, a, v)}

\* Members of the cell's group with a reduced value for its action, and the
\* members among them that vote for v.
Support(p, obs, c) ==
  {e \in MembersOf(p, GroupOfCell(c)) : Cardinality(Modes(obs, e, ActionOfCell(c))) = 1}
Backers(p, obs, c, v) ==
  {e \in Support(p, obs, c) : Modes(obs, e, ActionOfCell(c)) = {v}}

\* Values backed by a strict majority of at least two distinct entities.
EmpiricalCell(p, obs, c) ==
  {v \in Actions : /\ Cardinality(Support(p, obs, c)) >= 2
                   /\ 2 * Cardinality(Backers(p, obs, c, v)) > Cardinality(Support(p, obs, c))}

\* A variant with a plausible bug: no member is excluded.
AnyMember(p, obs, c) == MembersOf(p, GroupOfCell(c))

\* Group members never observed with the cell's action during discovery.
HeldOut(p, obs, c) ==
  {e \in MembersOf(p, GroupOfCell(c)) : ObservationsOf(obs, e, ActionOfCell(c)) = {}}

\* construct_a_gate_challenges: one challenge per eligible cell, in cell order,
\* on the first held-out member, until the gate budget is used.
GateChallenges(p, obs) ==
  LET eligible == {c \in CellsOf(p) : EmpiricalCell(p, obs, c) # {} /\ HeldOut(p, obs, c) # {}}
      cells == FirstOf(eligible, AGateBudget)
  IN  [i \in DOMAIN cells |->
         [entity |-> NthOf(HeldOut(p, obs, cells[i]), 0),
          action |-> ActionOfCell(cells[i]),
          group |-> GroupOfCell(cells[i]),
          predicted |-> NthOf(EmpiricalCell(p, obs, cells[i]), 0)]]
-------------------------------------------------------------------------------
(* B schedules.  Round r of a traversal visits every cell once, so a visit *)
(* is an integer, r * NumCells(p) + c.                                     *)

Visits(p) == 0 .. NumEntities * NumCells(p) - 1

\* A variant with a plausible bug: the two loops are nested the other way.
VisitByCell(p, n) == [round |-> n % NumEntities, cell |-> n \div NumEntities]

Visit(p, n) == [round |-> n \div NumCells(p), cell |-> n % NumCells(p)]

Slot(e, c) == [entity |-> e, action |-> ActionOfCell(c), group |-> GroupOfCell(c)]

PairsOf(slots) == {<<slots[i].entity, slots[i].action>> : i \in DOMAIN slots}

\* A variant with a plausible bug: the last member is not spared.
CalibratableToTheLast(r, size) == r < size

\* Member r of a group of this size may be calibrated: pass 0 takes the first
\* member of every cell, the later passes spare the last one.
Calibratable(r, size) == r = 0 \/ r < size - 1

\* build_b_calibration_schedule.
CalibrationSchedule(p) ==
  LET members(n) == MembersOf(p, GroupOfCell(Visit(p, n).cell))
      visits == FirstOf({n \in Visits(p) : Calibratable(Visit(p, n).round, Cardinality(members(n)))},
                        BCalibrationBudget)
  IN  [i \in DOMAIN visits |->
         Slot(NthOf(members(visits[i]), Visit(p, visits[i]).round), Visit(p, visits[i]).cell)]

\* A variant with a plausible bug: calibrated pairs are not excluded.
AllMembers(p, calibration, c) == MembersOf(p, GroupOfCell(c))

\* Members of a cell whose exact pair was not used for calibration.
RemainingMembers(p, calibration, c) ==
  {e \in MembersOf(p, GroupOfCell(c)) :
     <<e, ActionOfCell(c)>> \notin PairsOf(calibration)}

\* build_b_transfer_schedule, for a calibration schedule that leaves every cell
\* a member (the code raises otherwise).
TransferSchedule(p, calibration) ==
  LET remaining == [c \in CellsOf(p) |-> RemainingMembers(p, calibration, c)]
      visits == FirstOf({n \in Visits(p) : Visit(p, n).round < Cardinality(remaining[Visit(p, n).cell])},
                        BTransferBudget)
  IN  [i \in DOMAIN visits |->
         LET v == Visit(p, visits[i]) IN Slot(NthOf(remaining[v.cell], v.round), v.cell)]

\* The assertions of _validate_schedule, which both builders end with.
ValidSchedule(slots, p, expected) ==
  /\ Len(slots) = expected
  /\ \A i, j \in DOMAIN slots :
       i # j => \/ slots[i].entity # slots[j].entity
                \/ slots[i].action # slots[j].action
  /\ \A i \in DOMAIN slots :
       /\ slots[i].entity \in Entities /\ slots[i].action \in Actions
       /\ p.entity_group[slots[i].entity] = slots[i].group

-------------------------------------------------------------------------------
(* Lookup, frozen predictions and score.                                   *)

\* The calibration outcomes of one cell.
CellOutcomes(slots, ys, c) ==
  {ys[i] : i \in {j \in DOMAIN slots : CellOf(slots[j].group, slots[j].action) = c}}

\* Variants with plausible bugs: an inconsistent cell is rescued by a value; it
\* keeps a value that nobody should read.
RescuedLookupCell(outcomes) ==
  IF outcomes = {} THEN [status |-> "missing", predicted |-> None]
  ELSE [status |-> "defined", predicted |-> NthOf(outcomes, 0)]
LeftoverLookupCell(outcomes) ==
  IF outcomes = {} THEN [status |-> "missing", predicted |-> None]
  ELSE [status |-> IF Cardinality(outcomes) = 1 THEN "defined" ELSE "inconsistent",
        predicted |-> NthOf(outcomes, 0)]

\* One cell of build_b_lookup: a value only when every outcome agrees.
LookupCell(outcomes) ==
  IF outcomes = {} THEN [status |-> "missing", predicted |-> None]
  ELSE IF Cardinality(outcomes) = 1
       THEN [status |-> "defined", predicted |-> NthOf(outcomes, 0)]
       ELSE [status |-> "inconsistent", predicted |-> None]

BLookup(slots, ys, p) == [c \in CellsOf(p) |-> LookupCell(CellOutcomes(slots, ys, c))]

InconsistentCells(lookup) == {c \in DOMAIN lookup : lookup[c].status = "inconsistent"}

\* build_transfer_predictions: the slot, with what its cell predicts.  A slot
\* whose cell is not "defined" is a forced failure.
TransferPredictions(slots, lookup) ==
  [i \in DOMAIN slots |->
     LET cell == lookup[CellOf(slots[i].group, slots[i].action)]
     IN  [entity |-> slots[i].entity, action |-> slots[i].action,
          group |-> slots[i].group, status |-> cell.status,
          predicted |-> IF cell.status = "defined" THEN cell.predicted ELSE None]]

\* score_transfer: the number of exact, unforced predictions.
Score(predictions, ys) ==
  Cardinality({i \in DOMAIN ys : /\ predictions[i].status = "defined"
                                 /\ predictions[i].predicted = ys[i]})
===============================================================================
