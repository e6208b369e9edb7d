CONSTANTS
  Tokens <- MCTokens
  CausalWorlds = 2
  NullWorlds = 3
  ScoreMax = 1
  Alpha <- MCAlpha
  MinAdvantage <- MCMinAdvantage
  KillRate <- MCKillRate
  Draws <- MCDraws
  ModelCalls = 2
  KillAt = 2
  RatioBound <- MCRatioBound
  None = None

SPECIFICATION Spec
INVARIANTS
  InfrastructureIsNoVerdict
  EarlyStopDecides
  KilledStaysLocked
  UsageAttributed
  SuccessIsEarned
CHECK_DEADLOCK FALSE
