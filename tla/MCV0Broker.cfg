\* Every sequence of calls on one world, with one uncaught exception anywhere.
\* A world whose transfer evaluation cannot be repeated has no further step.
CONSTANTS
  NumEntities = 4
  DomainSize = 2
  MinCardinality = 2
  MaxCardinality = 2
  MinEntitiesPerState = 1
  MaxExpressionDepth = 2
  Operators = {"xor", "and"}
  LatentNames = {"q", "x"}
  TheoryIds = {"T"}
  FitNum = 1
  FitDen = 2
  None = None
  CalibrationEntities <- MCCalibrationEntities
  ADiscoveryBudget = 2
  ATheoryEvalBudget = 1
  BCalibrationBudget = 2
  BTheoryEvalBudget = 1
  ChallengesPerEntity = 1
  MaxEpistemicCycles = 1
  TransferNum = 1
  TransferDen = 2
  ExperimentIds = {2, 11, 12, 13, 14, 15, 16}
  Experiments <- MCExperiments
  TheoryChoices <- MCTheoryChoices
  MaxFaults = 1
SPECIFICATION Spec
CHECK_DEADLOCK FALSE
INVARIANT MeasuredOnce
INVARIANT BudgetAccounts
INVARIANT QualifiedFromRaw
INVARIANT CommittedBeforeMeasured
PROPERTY NoRejectionSampling
