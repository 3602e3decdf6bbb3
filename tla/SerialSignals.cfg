SPECIFICATION SerialSpec
CONSTANTS
  p1 = p1
  p2 = p2
  factory = factory
  capped = capped
  Guards = {p1, p2}
  NoPid = NoPid
  Caps = {factory, capped}
  NoCap = NoCap
  DefaultCap = factory
  MaxFaults = 1
  Ignored = {}
  Killable = {p1}
  Signalled = {p1}
  SnapshotReads = {"limit"}
  Switches <- NoForce
  IdentityReads = {TRUE}
  PidProbes = {"exact"}
  OperatorCaps = {}
  Corruptible = TRUE
INVARIANTS TypeOK Evidence IntentNamed Recoverable ArmedMeansHeld SnapshotIsStock IInv
PROPERTIES UnreadableKept
