SPECIFICATION MCSpec
CONSTANTS
  m1 = m1
  m2 = m2
  nobody = nobody
  INITIAL_BLOCK_REWARD_BASE = 2
  HALVING_INTERVAL_BLOCKS = 2
  RETARGET_INTERVAL_BLOCKS = 3
  RETARGET_TARGET_SECONDS = 1
  TARGET_MAX = 3
  MINEABLE_BASE = 8
  ROUND_TIMEOUT_SLOTS = 1
  U64_MAX = 12
  TOTAL_SUPPLY_BASE = 9
  Miners <- MCMiners
  NoWinner = nobody
  Challenge <- MCOneChallenge
  Entropy <- MCOneEntropy
  Hash = {0, 2}
  DeriveNextChallenge <- MCConstantChallenge
  MAX_SLOT = 3
  TS_STEPS <- MCClock
  MAX_PENDING = 2
INVARIANTS
  NeverExhausted
  OneWinnerPerRound
  EmptyRoundsArePaced
PROPERTIES
  ImplementsEmission
  ImplementsRounds
  RenouncedIsFinal
  RoundsKeepClosing
