CONSTANTS
  MaxTicks = 2
  MaxSymbols = 2
  MaxGaps = 1
  MaxTrades = 2
  MaxCrashes = 1
SPECIFICATION Spec
INVARIANTS ReplayTypeOK ReplayIsComplete PositionsAreAccounted WindowClosesPositions
CHECK_DEADLOCK FALSE
