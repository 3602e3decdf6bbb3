SPECIFICATION SerialSpec
CONSTANTS
  p1 = p1
  p2 = p2
  factory = factory
  capped = capped
  Guards = {p1}
  NoPid = NoPid
  Caps = {factory, capped}
  NoCap = NoCap
  DefaultCap = factory
  MaxFaults = 2
  Ignored = {"SIGINT"}
  Killable = {}
  Signalled = {p1}
  SnapshotReads = {"limit"}
  Switches <- NoRecovery
  IdentityReads = {TRUE}
  PidProbes = {"exact"}
  OperatorCaps = {}
  Corruptible = FALSE
INVARIANTS IntentNamed
CHECK_DEADLOCK FALSE
