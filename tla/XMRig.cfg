CONSTANTS
  MaxLaunches = 3
  LaunchFails = TRUE
  Crashes = TRUE
SPECIFICATION EngineSpec
INVARIANTS
  EngineKept
PROPERTIES
  ReapedNotSignalled
  ImplementsMiner
