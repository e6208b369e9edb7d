\* A second candidate after the runtime raised inside the gate.
CONSTANTS
  NumEntities = 5
  NumActions = 2
  MinGroups = 2
  MaxGroups = 2
  MinEntitiesPerGroup = 2
  AGateBudget = 2
  BCalibrationBudget = 4
  BTransferBudget = 4
  None = None
  ADiscoveryBudget = 4
  ABatchSize = 2
  ExperimentIds = {1, 2, 3, 4}
  MaxFaults = 1
  Batches <- FaultyBatches
  CommitChoices <- MCCommitChoices
SPECIFICATION Spec
PROPERTY OneCommit
