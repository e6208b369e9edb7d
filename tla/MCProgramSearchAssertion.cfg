CONSTANTS
  DomainSize = 3
  SkeletonDepth = 4
  QCardinality = 2
  LatentFirst = TRUE
  Shapes <- MCShapes
  Engines = {"skeleton", "exact_first", "finite", "cegis", "lexscore", "feasible_first"}
  Models <- MCModels
  Programs <- MCPrograms
  Space <- MCSpace
  Decode <- MCDecode
  Root <- MCRoot
  Nodes <- MCNodes
  Depth <- MCDepth
  Preorder <- MCPreorder
  Serial <- MCSerial
  AllPoints <- TruthPoints
  Jobs <- MCDistinctJobs
  None = None

SPECIFICATION Spec
INVARIANT AssertionsHold
CHECK_DEADLOCK FALSE
