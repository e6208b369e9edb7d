\* A run whose observe may raise once, anywhere.
CONSTANTS
  NumEntities = 5
  NumActions = 2
  MinGroups = 2
  MaxGroups = 2
  MinEntitiesPerGroup = 2
  AGateBudget = 2
  BCalibrationBudget = 5
  BTransferBudget = 4
  None = None
  ADiscoveryBudget = 4
  ABatchSize = 2
  ExperimentIds = {1, 2, 3, 4}
  MaxFaults = 1
  Batches <- FaultyBatches
  CommitChoices <- MCCommitChoices
SPECIFICATION Spec
INVARIANT MeasuredOnce
INVARIANT BBehindPerfectGate
INVARIANT ScoreIsUnanimity
INVARIANT LedgerAccountsForBudget
PROPERTY FrozenForever
