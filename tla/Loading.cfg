SPECIFICATION FairSpec
CONSTANTS
  Arrival <- MCArrival
  Modes <- BothModes
  Endpoints <- AnyEndpoint
  Duration = 1
  Tolerance = 0
  MaxNow = 2
  MaxSent = 3
INVARIANTS Accounted ReportAccounts
PROPERTIES OfferedRegardless RunEnds
CHECK_DEADLOCK FALSE
