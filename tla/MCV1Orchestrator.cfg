\* One arm of one world under both interfaces; observe may raise once.
CONSTANTS
  NumEntities = 5
  NumActions = 2
  MinGroups = 2
  MaxGroups = 2
  MinEntitiesPerGroup = 2
  AGateBudget = 2
  BCalibrationBudget = 4
  BTransferBudget = 4
  None = None
  ADiscoveryBudget = 4
  ABatchSize = 2
  ExperimentIds = {1, 2, 3, 4}
  MaxFaults = 1
  Batches <- MCBatches
  CommitChoices <- MCCommitChoices
  Rounds = 2
SPECIFICATION OSpec
INVARIANT TrustedIdsNeverReused
PROPERTY ReturnsOrRaises
PROPERTY OneCommit
