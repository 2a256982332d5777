CONSTANTS
  Hashrates = {1}
  Capacity = 2
  LedgerSpan = 2
  Windows = {1, 2, 6}
  MaxClock = 3
  MaxSamples = 3
  MaxSaves = 2
  MaxSteps = 1
  MaxLives = 2
  Absent = Absent
  Torn = Torn
  Heights = {1, 2, 3}
  payoutsKept = 2
  Shared = 1
  Stats = {"pool"}
  Needed = {"pool"}
  MaxLines = 1
  MaxTurns = 2
  MaxEnds = 1
  MaxMoves = 1
SPECIFICATION Spec
INVARIANT
  LedgerSafe
PROPERTIES
  FileKeeps
  PayoutsKept
  HouseholdSettles
CHECK_DEADLOCK FALSE
