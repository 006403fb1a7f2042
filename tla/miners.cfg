SPECIFICATION MCSpec
CONSTANTS
  w1 = w1
  w2 = w2
  w3 = w3
  c1 = c1
  g1 = g1
  Workers <- ThreeWorkers
  MaxPerThread = 3
  SlowSolves = TRUE
  None = None
  CliMiners <- OneCliMiner
  GpuMiners <- OneGpuMiner
  MAX_SESSIONS = 2
  MAX_HEIGHT = 2
  ROUND_TIMEOUT_SLOTS = 1
  ROUND_STALL = 2
  ADVANCE_COOLDOWN = 1
  MAX_BLOCKS = 1
  MAX_ROUNDS = 1
  BASE = 4
  Leaf = {0, 1, 2, 3, 4, 5, 6, 7}
  K = 3
  Bit = {1, 2}
  MAX_PER_BUCKET = 4
  MAX_ROWS = 12
  MAX_SOLUTIONS = 3
INVARIANTS
  NoSolutionLost
  WinIsReported
  SolvesLikeTheVerifier
  ScalesExactly
PROPERTIES
  CallReturns
  WindsDown
  StalledRoundsClose
CHECK_DEADLOCK FALSE
