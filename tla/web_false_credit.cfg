SPECIFICATION Spec
CONSTANTS
  MAX_SESSIONS = 1
  MAX_HEIGHT = 1
INVARIANTS
  ReportedWasMined
CHECK_DEADLOCK FALSE
