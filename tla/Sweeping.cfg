SPECIFICATION Spec
CONSTANTS
  Commands <- AllLines
  Repeats = 1
  MaxInvocations = 2
  MaxFaults = 3
  InterruptedAt <- Everywhere
  Shared = {1}
INVARIANTS ReportTruthful MeasuredAsNamed DebtHeld QuietRestore
PROPERTIES CustodyKept
CHECK_DEADLOCK FALSE
