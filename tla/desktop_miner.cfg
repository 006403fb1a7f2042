SPECIFICATION MCSpec
CONSTANTS
  w1 = w1
  w2 = w2
  Wallets <- MCWallets
  NoWallet = NoWallet
  Unreadable = Unreadable
  MAX_SESSIONS = 2
  MAX_BLOCKS = 2
  MAX_CALLS = 2
  MAX_STARTS = 2
INVARIANTS
  EveryMinerCanBeStopped
  StatsAreOfThisSession
  UnlockedIsOnDisk
PROPERTIES
  StopIsObeyed
  BackedUpIsStored
  DashboardCatchesUp
CHECK_DEADLOCK FALSE
