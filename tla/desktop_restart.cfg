SPECIFICATION MCSpec
CONSTANTS
  w1 = w1
  w2 = w2
  Wallets <- MCOneWallet
  NoWallet = NoWallet
  Unreadable = Unreadable
  MAX_SESSIONS = 3
  MAX_BLOCKS = 2
  MAX_CALLS = 1
  MAX_STARTS = 0
INVARIANTS
  AtMostOneMiner
CHECK_DEADLOCK FALSE
