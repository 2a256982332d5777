SPECIFICATION Spec
CONSTANTS
  Setups <- MCSetups
  MaxLaunches = 2
  MaxSettings = 2
INVARIANTS SupervisorSafe RelayUnderP2Pool
PROPERTIES WaitEndsWithProcess SettingsFollowed ShutdownReturns
CHECK_DEADLOCK FALSE
