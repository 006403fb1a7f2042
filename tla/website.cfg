SPECIFICATION MCSpec
CONSTANTS
  None = None
  Tabs = {t1, t2}
  Keys = {a, b}
  Jobs = {j1, j2}
  MAX_PAYMENTS = 2
  MAX_MOUNTS = 2
  Requests = {r1, r2}
  TTL = 2
  EMPTY_TTL = 1
  EDGE_FRESH = 1
  EDGE_STALE = 1
  LATENCY = 1
  MAX_BLOCKS = 1
  Calls = {c1, c2}
  CACHE_TTL = 2
  RATE_WINDOW = 3
  RATE_MAX = 3
  UPSTREAM_MAX = 2
  MAX_SIGS = 6
  RECENT = 2
  PAGE_BLOCKS = 2
  SIGS_LIMIT = 1
  MAX_BATCHES = 2
  Miners = {m1, m2, m3}
  MINUTE = 2
  BUCKET_COUNT = 2
  TOP = 2
  MAX_NOW = 7
  MAX_RECORDS = 3
INVARIANTS
  InstalledWasSaved
  UnlockedIsStored
  VerdictIsTrue
  MinesOnItsOwnRpc
  ServedAge
  RowsAreBacked
  AnswerAge
  PagesJoin
  ViewsAgree
PROPERTIES
  VerdictComes
CHECK_DEADLOCK FALSE
