SPECIFICATION Spec
CONSTANTS
  p1 = p1
  p2 = p2
  factory = factory
  capped = capped
  Guards = {p1}
  NoPid = NoPid
  Caps = {factory, capped}
  NoCap = NoCap
  DefaultCap = factory
  MaxFaults = 0
  Ignored = {}
  Killable = {p1}
  Signalled = {}
  SnapshotReads = {"limit"}
  Switches <- NoSwitch
  IdentityReads = {TRUE}
  PidProbes = {"exact"}
  OperatorCaps = {}
  Corruptible = FALSE
INVARIANTS Evidence
