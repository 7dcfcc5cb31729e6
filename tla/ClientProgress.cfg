CONSTANTS
  MaxRows = 1
  MaxMoves = 3
  FetchSize = 1
  MaxInFlight = 2
  MaxActions = 1
  MaxDetailRequests = 2
  MaxDetailActions = 2
  Zones <- MCZones
  Hours = {3, 4}
  CandleHours = {3, 4}
  MaxReportActions = 1
  MaxVersion = 2
  DashboardSlots = 1
  MaxMonths = 1
  MaxDashboardMoves = 2
  MaxDashboardFails = 1
SPECIFICATION ProgressSpec
INVARIANTS ProgressTypeOK
PROPERTIES DueIsShown PagesAreTrue DashboardCatchesUp
CHECK_DEADLOCK FALSE
