CONSTANTS
  MaxLaunches = 2
  LaunchFails = TRUE
  Crashes = TRUE
  FullShare = 2
  Ceiling = 2
  GhostCeiling = 1
  Forecast = {"calm", "present", "busy", "short"}
  Users = {u1}
SPECIFICATION Spec
INVARIANT
  SchedulerSafe
PROPERTIES
  SnoozeEnds
  MinesWhenAllowed
  DisplayAgrees
