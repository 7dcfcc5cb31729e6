CONSTANTS
  Workers = {w1, w2}
  Limit = TRUE
  Legs = TRUE
  TradeIds = FALSE
  SwallowedCalls = {}
  EmergencyExits = FALSE
  UserOps = {"cancel"}
  ErrorLimit = 1
  MaxRetries = 2
  MaxQueued = 1
  MaxFaults = 1
SPECIFICATION Spec
SYMMETRY Symmetry
INVARIANTS TypeOK RetryIsScheduled
PROPERTIES ExecutedIsOver
CHECK_DEADLOCK FALSE
