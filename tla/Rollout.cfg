CONSTANTS
  MaxPair = 3
  Probation = 2
  MaxTroubles = 1
  Reverts = FALSE
SPECIFICATION Spec
INVARIANT
  RolloutSafe
PROPERTIES
  ProvenFirst
  DudSetAside
