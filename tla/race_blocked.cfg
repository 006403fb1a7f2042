SPECIFICATION FairSpec
CONSTANTS
  w1 = w1
  w2 = w2
  w3 = w3
  Workers <- ThreeWorkers
  MaxPerThread = 1
  SlowSolves = FALSE
  None = None
PROPERTIES
  SendIsBestEffort
CHECK_DEADLOCK FALSE
