CONSTANTS
  ProtectedPages = {"dashboard", "monitoring"}
  Home = "dashboard"
  MaxLogins = 2
  MaxRows = 2
  MaxMoves = 1
  FetchSize = 1
  MaxInFlight = 2
  MaxActions = 2
  Prices = {1, 2}
  Sides = {"buy", "short"}
  MaxDialogActions = 2
  Pipelines <- MCPipelines
  MaxRuns = 2
  MaxBacktestActions = 2
  Brokers = 2
  HistoryDays = 3
  Amounts <- MCAmounts
SPECIFICATION TradingSpec
INVARIANTS TradingTypeOK SessionIsKept NoDuplicates AnnouncedIsDone PnLMatchesPrices DecisionIsTrue BacktestsAreShown FiguresAreDrawn
CHECK_DEADLOCK FALSE
