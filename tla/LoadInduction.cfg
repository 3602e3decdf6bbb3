SPECIFICATION Spec
CONSTANTS
  Arrival <- MCArrival
  Modes <- BothModes
  Endpoints <- AnyEndpoint
  Duration = 1
  Tolerance = 0
  MaxNow = 2
  MaxSent = 3
INVARIANTS LoadInv
CHECK_DEADLOCK FALSE
