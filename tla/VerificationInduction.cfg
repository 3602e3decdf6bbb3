SPECIFICATION Spec
CONSTANTS
  Requests <- AllRequests
  Left <- MCLeft
  Cards <- AnyCard
  Boosts = {190, 196}
  Floor = 21
  PowerMin = 50
  PowerMax = 180
  PowerDefault = 170
  Draw <- MCDraw
  Top <- MCTop
  MaxFaults = 2
  Tolerance = 12
  BaselineMargin = 4
  ClockMargin = 4
  BindMargin = 5
  EnforceMargin = 2
INVARIANTS TypeOK ValueInv PhaseInv OwingInv CapInv ForceInv LeftInv MeasuredInv VerdictInv
CHECK_DEADLOCK FALSE
