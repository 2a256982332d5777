CONSTANTS
  Full = 2
  PoolRatio = 2
  Grace = 2
  StallAfter = 3
SPECIFICATION Spec
INVARIANT
  HoldsInv
PROPERTIES
  HoldSettles
  IslandSettles
