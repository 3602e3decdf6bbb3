SPECIFICATION Spec
CONSTANTS
  Order <- MCOneStream
  Capacity = 2
  Depths = {1, 2}
  JoinTimesOut = TRUE
  MaxNow = 3
  MaxFaults = 2
INVARIANTS RecorderInv
CHECK_DEADLOCK FALSE
