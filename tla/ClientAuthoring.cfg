CONSTANTS
  Agents = {"bias_agent", "trade_manager_agent"}
  Texts = {"blank", "text"}
  NoText = "blank"
  Tools = {"rsi"}
  Signals = {"golden_cross"}
  BrokerTypes = {"alpaca_broker"}
  Options = {"scanner"}
  NoBroker = none
  Pipelines = {p1, p2}
  NoId = none
  p1 = p1
  p2 = p2
  none = none
  MaxEdits = 3
  MaxPipelines = 2
  MaxPipelineCalls = 5
  MaxPipelineMoves = 3
  MaxScanners = 2
  MaxScannerCalls = 5
  MaxScannerMoves = 4
  Tickers = {t1}
  t1 = t1
  Strategies = {"s1", "s2"}
  MyStrategies = {"s1"}
  Titles = {"a", "b"}
  MaxStrategyCalls = 3
  MaxStrategyMoves = 3
  Names = {"ann", "bob"}
  Timezones = {"tz1", "tz2"}
  Chats = {"c1"}
  Phones = {"p1"}
  MaxSettingsMoves = 2
SPECIFICATION AuthoringSpec
INVARIANTS AuthoringTypeOK SavedIsShown StoredIsSound ShownIsStored
PROPERTIES EditorKeepsToItsScanner TypingIsKept
CHECK_DEADLOCK FALSE
