SPECIFICATION Spec
CONSTANTS
  DefaultLimit = 1
  MaxLimit = 2
  Limits <- MCLimits
  Offsets <- MCOffsets
  MaxSubmits = 4
INVARIANT WalkComplete
CHECK_DEADLOCK FALSE
