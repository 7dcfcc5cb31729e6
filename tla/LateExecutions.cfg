CONSTANTS
  ProtectedPages = {"dashboard", "monitoring"}
  Home = "dashboard"
  MaxLogins = 1
  MaxRows = 2
  MaxMoves = 1
  FetchSize = 1
  MaxInFlight = 2
  MaxActions = 1
  Prices = {1, 2}
  Sides = {"buy", "short"}
  MaxDialogActions = 1
  Pipelines <- MCPipelines
  MaxRuns = 2
  MaxBacktestActions = 2
  Brokers = 2
  HistoryDays = 3
  Amounts <- MCAmounts
SPECIFICATION TradingSpec
INVARIANTS ExecutionsAreOfSelected
CHECK_DEADLOCK FALSE
