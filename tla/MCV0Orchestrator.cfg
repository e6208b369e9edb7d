\* One arm of one V0 world; observe or the solver may raise once.
CONSTANTS
  NumEntities = 4
  DomainSize = 2
  MinCardinality = 2
  MaxCardinality = 2
  MinEntitiesPerState = 1
  MaxExpressionDepth = 2
  Operators = {"xor", "and"}
  LatentNames = {"q", "x"}
  TheoryIds = {"T"}
  FitNum = 1
  FitDen = 2
  None = None
  CalibrationEntities <- MCCalibrationEntities
  ADiscoveryBudget = 3
  ATheoryEvalBudget = 1
  BCalibrationBudget = 2
  BTheoryEvalBudget = 1
  ChallengesPerEntity = 1
  MaxEpistemicCycles = 3
  TransferNum = 1
  TransferDen = 2
  ExperimentIds = {2, 11, 12, 13, 14, 15, 16}
  Experiments <- Selected
  TheoryChoices <- MCTheoryChoices
  MaxFaults = 1
  ABatchSizes <- MCABatchSizes
  BBatchSizes <- MCBBatchSizes
  Batches <- MCBatches
SPECIFICATION OSpec
INVARIANT RunOutcome
INVARIANT NeverRefused
PROPERTY ReturnsOrRaises
