SPECIFICATION Spec
CONSTANTS
  Arrival <- MCArrival
  Modes = {"open"}
  Endpoints = {"url"}
  Duration = 1
  Tolerance = 0
  MaxNow = 2
  MaxSent = 2
INVARIANT NoThreadLeft
CHECK_DEADLOCK FALSE
