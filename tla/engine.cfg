SPECIFICATION Spec
CONSTANTS
  k1 = k1
  Slots = {k1}
  GPU = GPU
  MAX_LANES = 2
  MAX_SESSIONS = 2
  MAX_HEIGHT = 1
INVARIANTS
  OneSubmission
  GpuTurns
  CreditsAreReal
  NoWinForgotten
PROPERTIES
  QuietAfterStop
CHECK_DEADLOCK FALSE
