SPECIFICATION Spec
CONSTANTS
  MAX_SIGS = 6
  RECENT = 2
  PAGE_BLOCKS = 2
  SIGS_LIMIT = 1
  MAX_BATCHES = 2
INVARIANTS
  ExhaustedMeansComplete
CHECK_DEADLOCK FALSE
