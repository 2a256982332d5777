CONSTANTS
  Levels = {"polite", "full"}
  Default = "polite"
  Patient = {"polite"}
  Conns = {"node", "hub"}
  Items = {"full", "snooze", "settings"}
  Forms <- MCForms
  Files <- MCFiles
  Desktops <- MCDesktops
  MaxEvents = 2
  MaxRuns = 1
  Absent = Absent
  Torn = Torn
  None = None
SPECIFICATION Spec
INVARIANTS
  DesktopInv
  LaunchAccepts
  SettledAgree
PROPERTY
  DisplaysSettle
CHECK_DEADLOCK FALSE
