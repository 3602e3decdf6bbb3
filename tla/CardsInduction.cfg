SPECIFICATION FairSpec
CONSTANTS
  c1 = c1
  c2 = c2
  c3 = c3
  Cards = {c1, c2}
  NoCard = NoCard
  Order <- TwoCards
  Watts = {1, 2}
  Default = 2
  MaxRuns = 2
  MaxMoves = 1
  MaxFaults = 1
INVARIANTS CardInv
CHECK_DEADLOCK FALSE
