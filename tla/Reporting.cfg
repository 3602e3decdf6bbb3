SPECIFICATION Spec
CONSTANTS
  Points <- MCPoints
  Repeats = 2
  Loads <- MCLoads
  Warms <- MCWarms
  Budgets <- MCBudgets
  Slack <- MCSlack
  MinStock = 2
  Noise <- MCNoise
  MaxFaults = 1
INVARIANTS FiguresAreTrue PartialNamesNothing SuggestionSaves RelaxingHelps
CHECK_DEADLOCK FALSE
