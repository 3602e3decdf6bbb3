SPECIFICATION SerialSpec
CONSTANTS
  p1 = p1
  p2 = p2
  factory = factory
  capped = capped
  Guards = {p1}
  NoPid = NoPid
  Caps = {factory, capped}
  NoCap = NoCap
  DefaultCap = factory
  MaxFaults = 2
  Ignored = {}
  Killable = {p1}
  Signalled = {p1}
  SnapshotReads = {"limit", "none"}
  Switches <- AllSwitches
  IdentityReads = {TRUE, FALSE}
  PidProbes = {"exact", "reused"}
  OperatorCaps = {factory, capped}
  Corruptible = TRUE
INVARIANTS Evidence IInv
PROPERTIES UnreadableKept
