SPECIFICATION Spec
CONSTANTS
  Order <- MCOneStream
  Capacity = 2
  Depths = {1}
  JoinTimesOut = TRUE
  MaxNow = 3
  MaxFaults = 0
INVARIANT Ascending
CHECK_DEADLOCK FALSE
