SPECIFICATION Spec
CONSTANTS
  Requests <- PowerRequests
  Left <- MCLeft
  Cards <- Healthy
  Boosts = {190}
  Floor = 21
  PowerMin = 50
  PowerMax = 180
  PowerDefault = 170
  Draw <- MCDraw
  Top <- MCTop
  MaxFaults = 0
  Tolerance = 12
  BaselineMargin = 4
  ClockMargin = 4
  BindMargin = 5
  EnforceMargin = 2
INVARIANT FailureIsReal
CHECK_DEADLOCK FALSE
