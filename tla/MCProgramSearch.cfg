CONSTANTS
  DomainSize = 3
  SkeletonDepth = 4
  QCardinality = 2
  LatentFirst = TRUE
  Shapes <- MCShapes
  Engines = {"skeleton", "exact_first", "finite", "cegis", "lexscore", "feasible_first"}
  Models <- MCModels
  Programs <- MCPrograms
  Space <- MCSpace
  Decode <- MCDecode
  Root <- MCRoot
  Nodes <- MCNodes
  Depth <- MCDepth
  Preorder <- MCPreorder
  Serial <- MCSerial
  AllPoints <- TruthPoints
  Jobs <- MCJobs
  None = None

SPECIFICATION Spec
INVARIANTS
  TypeOK
  CompleteIsOptimal
  NeverRaises
  PreorderMinimal
  UnsatOnlyWhenSpent
PROPERTIES
  Terminates
  ImplementsContract
CHECK_DEADLOCK FALSE
