SPECIFICATION Spec
CONSTANTS
  Commands <- AllLines
  Repeats = 1
  MaxInvocations = 2
  MaxFaults = 3
  InterruptedAt <- Everywhere
  Shared = {1}
INVARIANTS NoSamplerLeft
CHECK_DEADLOCK FALSE
