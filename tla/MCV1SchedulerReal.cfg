\* The frozen constants, for every profile of group sizes.
CONSTANTS
  NumEntities = 16
  NumActions = 8
  MinGroups = 2
  MaxGroups = 4
  MinEntitiesPerGroup = 2
  AGateBudget = 4
  BCalibrationBudget = 32
  BTransferBudget = 32
  None = None
  LegalPartitions <- SizeProfiles
SPECIFICATION Spec
INVARIANT NeverRaises
INVARIANT EveryCellTested
