\* Every canonical partition of seven entities into two or three groups.
CONSTANTS
  NumEntities = 7
  NumActions = 2
  MinGroups = 2
  MaxGroups = 3
  MinEntitiesPerGroup = 2
  AGateBudget = 1
  BCalibrationBudget = 7
  BTransferBudget = 6
  None = None
  LegalPartitions <- AllPartitions
SPECIFICATION Spec
INVARIANT LastMemberSpared
INVARIANT EvenRounds
INVARIANT ComputesClosedForm
PROPERTY Terminates
