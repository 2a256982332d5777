CONSTANTS
  Cores = 4
  Present = 1
  Idle = 3
  Little = 2
  ThreadCounts = {2, 4}
  Ceilings <- MCCeilings
  WaitingPresets = {"ghost", "polite"}
  GhostCeiling = 2
  WidenAfter = 2
  Memory = 4
  Margin = 1
  Footprint = 2
  StallTicks = 2
  Quiet = 2
  Faults = FALSE
  Resizes = FALSE
INIT Init
NEXT Next
INVARIANT
  ControllerSafe
PROPERTY
  MemoryStopsHold
