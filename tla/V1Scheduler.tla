----------------------------- MODULE V1Scheduler ------------------------------
(***************************************************************************)
(* The loops of build_b_calibration_schedule and build_b_transfer_schedule *)
(* (archimedes_v0/v1_protocol.py), one iteration per step, for any legal   *)
(* canonical partition.  V1Protocol states their results in closed form;   *)
(* here they are computed as the code computes them, with its breaks and   *)
(* its error exits.                                                        *)
(***************************************************************************)
EXTENDS V1Protocol

CONSTANT LegalPartitions  \* the canonical partitions to schedule; bounds the model

ASSUME SchedulerConstants ==
  \A p \in LegalPartitions : LegalHypothesis(p) /\ Canonicalize(p) = p

VARIABLES
  partition,     \* the argument; never changes
  pc,            \* which loop is running, or how it ended
  cell,          \* index of the inner loop over cells
  member_index,  \* the round
  added,         \* whether the round has selected anything
  selected,      \* calibration slots so far
  transfer       \* transfer slots so far

vars == <<partition, pc, cell, member_index, added, selected, transfer>>

Init ==
  /\ partition \in LegalPartitions
  /\ pc = "pass_0"
  /\ cell = 0
  /\ member_index = 0
  /\ added = FALSE
  /\ selected = <<>>
  /\ transfer = <<>>

Members == MembersOf(partition, GroupOfCell(cell))

-------------------------------------------------------------------------------
(* Calibration.                                                            *)

\* Pass 0 takes the first member of every cell, with no budget check.
Pass0 ==
  /\ pc = "pass_0"
  /\ cell < NumCells(partition)
  /\ selected' = Append(selected, Slot(NthOf(Members, 0), cell))
  /\ cell' = cell + 1
  /\ UNCHANGED <<partition, pc, member_index, added, transfer>>

Pass0End ==
  /\ pc = "pass_0"
  /\ cell = NumCells(partition)
  /\ pc' = "calibrate"
  /\ cell' = 0
  /\ member_index' = 1
  /\ UNCHANGED <<partition, added, selected, transfer>>

\* A variant with a plausible bug: every member may be calibrated.
SparesNone(size) == member_index < size

\* The last member of a cell is spared.
SparesLast(size) == member_index < size - 1

\* A variant with a plausible bug: a cell without a member for the round is tried
\* again.
RetriesCell(taken) == IF taken THEN cell + 1 ELSE cell

NextCell(taken) == cell + 1

CalibrateCell ==
  /\ pc = "calibrate"
  /\ Len(selected) < BCalibrationBudget
  /\ cell < NumCells(partition)
  /\ IF SparesLast(Cardinality(Members))
     THEN /\ selected' = Append(selected, Slot(NthOf(Members, member_index), cell))
          /\ added' = TRUE
     ELSE UNCHANGED <<selected, added>>
  /\ cell' = NextCell(SparesLast(Cardinality(Members)))
  /\ UNCHANGED <<partition, pc, member_index, transfer>>

\* What a round that reached its last cell does next: another round when it added
\* a slot, the error exit otherwise.
CalibrateRound ==
  /\ pc = "calibrate"
  /\ Len(selected) < BCalibrationBudget
  /\ cell = NumCells(partition)
  /\ pc' = IF added THEN "calibrate" ELSE "cannot_fill"
  /\ cell' = 0
  /\ member_index' = member_index + 1
  /\ added' = FALSE
  /\ UNCHANGED <<partition, selected, transfer>>

\* A full schedule breaks both loops and is validated; the transfer builder then
\* checks that every cell has a member left.
CalibrateEnd ==
  /\ pc = "calibrate"
  /\ Len(selected) >= BCalibrationBudget
  /\ pc' = IF ~ValidSchedule(selected, partition, BCalibrationBudget) THEN "invalid"
           ELSE IF \E c \in CellsOf(partition) : RemainingMembers(partition, selected, c) = {}
                THEN "cell_consumed" ELSE "transfer"
  /\ cell' = 0
  /\ member_index' = 0
  /\ added' = FALSE
  /\ UNCHANGED <<partition, selected, transfer>>

-------------------------------------------------------------------------------
(* Transfer.                                                               *)

\* A variant with a plausible bug: a cell with a single member left is passed over.
SkipsSingles(remaining) ==
  member_index < Cardinality(remaining) /\ Cardinality(remaining) > 1

StillRemains(remaining) == member_index < Cardinality(remaining)

TransferCell ==
  /\ pc = "transfer"
  /\ Len(transfer) < BTransferBudget
  /\ cell < NumCells(partition)
  /\ LET remaining == RemainingMembers(partition, selected, cell)
     IN  /\ IF StillRemains(remaining)
            THEN /\ transfer' = Append(transfer, Slot(NthOf(remaining, member_index), cell))
                 /\ added' = TRUE
            ELSE UNCHANGED <<transfer, added>>
         /\ cell' = NextCell(StillRemains(remaining))
  /\ UNCHANGED <<partition, pc, member_index, selected>>

TransferRound ==
  /\ pc = "transfer"
  /\ Len(transfer) < BTransferBudget
  /\ cell = NumCells(partition)
  /\ pc' = IF added THEN "transfer" ELSE "cannot_fill"
  /\ cell' = 0
  /\ member_index' = member_index + 1
  /\ added' = FALSE
  /\ UNCHANGED <<partition, selected, transfer>>

TransferEnd ==
  /\ pc = "transfer"
  /\ Len(transfer) = BTransferBudget
  /\ pc' = IF /\ ValidSchedule(transfer, partition, BTransferBudget)
              /\ PairsOf(transfer) \cap PairsOf(selected) = {}
           THEN "done" ELSE "invalid"
  /\ UNCHANGED <<partition, cell, member_index, added, selected, transfer>>

Failures == {"cannot_fill", "cell_consumed", "invalid"}

\* The builders have returned or raised.
Returned == pc \in Failures \cup {"done"} /\ UNCHANGED vars

Next ==
  \/ Pass0 \/ Pass0End \/ CalibrateCell \/ CalibrateRound \/ CalibrateEnd
  \/ TransferCell \/ TransferRound \/ TransferEnd \/ Returned

\* Nothing but the loops themselves decides whether they go on.
Spec == Init /\ [][Next]_vars /\ WF_vars(Next)
-------------------------------------------------------------------------------
(* Properties.                                                             *)

\* Every legal partition can be scheduled: none of the error exits is reached,
\* and none of the assertions of the validation fails.
NeverRaises == pc \notin Failures

\* In the middle of the calibration loop already, the last member of every cell
\* is uncalibrated, so a transfer member is left whenever the loop stops.
LastMemberSpared ==
  \A c \in CellsOf(partition) :
    LET members == MembersOf(partition, GroupOfCell(c))
    IN  <<NthOf(members, Cardinality(members) - 1), ActionOfCell(c)>> \notin PairsOf(selected)

\* How many slots of a schedule belong to a cell.
Share(slots, c) ==
  Cardinality({i \in DOMAIN slots : CellOf(slots[i].group, slots[i].action) = c})

\* Neither schedule gives a cell one more slot before every cell that can take it
\* has had as many: coverage of the cells is as even as their sizes allow.
EvenRounds ==
  \A c, d \in CellsOf(partition) :
    LET capacity(x) == Cardinality(MembersOf(partition, GroupOfCell(x))) - 1
        left(x) == Cardinality(RemainingMembers(partition, selected, x))
    IN  /\ Share(selected, c) > Share(selected, d) + 1 => Share(selected, d) = capacity(d)
        /\ Share(transfer, c) > Share(transfer, d) + 1 => Share(transfer, d) = left(d)

\* The loops compute the closed forms that the broker's model uses.
ComputesClosedForm ==
  pc = "done" => /\ selected = CalibrationSchedule(partition)
                 /\ transfer = TransferSchedule(partition, selected)

\* At the end every cell has been calibrated and is tested out of sample.
EveryCellTested ==
  pc = "done" => \A c \in CellsOf(partition) : Share(selected, c) > 0 /\ Share(transfer, c) > 0

\* The builders return: no partition makes the rounds go on forever.
Terminates == <>(pc \in Failures \cup {"done"})
===============================================================================
