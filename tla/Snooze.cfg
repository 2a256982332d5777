CONSTANTS
  Users = {u1}
  MaxNow = 3
  Inodes = {i1, i2, i3, i4, i5}
  SaveFails = TRUE
  Overlap = FALSE
SPECIFICATION SnoozeSpec
SYMMETRY SnoozeSymmetry
INVARIANT
  SnoozeSafe
PROPERTY
  NeverBackEarly
