SPECIFICATION Spec
CONSTANTS
  m1 = m1
  none = none
  Miners <- MCMiners
  NoBlock = none
  PAGE = 2
  BATCH_SIZE = 2
  Faults <- MCCrashes
  Paced = TRUE
  MAX_CHAIN = 4
  MAX_FAULTS = 1
INVARIANTS
  NeverCountedTwice
CHECK_DEADLOCK FALSE
