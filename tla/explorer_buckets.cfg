SPECIFICATION Spec
CONSTANTS
  Miners = {m1, m2}
  MINUTE = 2
  BUCKET_COUNT = 2
  TOP = 2
  MAX_NOW = 7
  MAX_RECORDS = 3
INVARIANTS
  StampsAreStarts
CHECK_DEADLOCK FALSE
