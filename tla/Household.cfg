CONSTANTS
  d1 = d1
  d2 = d2
  w1 = w1
  w2 = w2
  w3 = w3
  Desktops <- MCDesktops
  Own <- MCOwn
  NoWallet = NoWallet
  NoOne = NoOne
  MaxCrashes = 2
  DiskFails = TRUE
  SlowNetwork = FALSE
SPECIFICATION Spec
INVARIANTS
  HouseInv
  PaysItsOwner
  StatusTells
PROPERTIES
  RunsWhatIsSaved
CHECK_DEADLOCK FALSE
