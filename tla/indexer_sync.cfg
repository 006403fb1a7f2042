SPECIFICATION FairSpec
CONSTANTS
  m1 = m1
  none = none
  Miners <- MCMiners
  NoBlock = none
  PAGE = 2
  BATCH_SIZE = 2
  Faults <- FaultKinds
  Paced = TRUE
  MAX_CHAIN = 3
  MAX_FAULTS = 2
INVARIANTS
  CountedExactlyOnce
  NothingSkipped
PROPERTIES
  CursorNeverBackwards
  EveryBlockIndexed
CHECK_DEADLOCK FALSE
