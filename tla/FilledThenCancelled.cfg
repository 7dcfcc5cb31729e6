CONSTANTS
  Workers = {w1}
  Limit = TRUE
  Legs = TRUE
  TradeIds = FALSE
  SwallowedCalls = {}
  EmergencyExits = FALSE
  UserOps = {}
  ErrorLimit = 1
  MaxRetries = 2
  MaxQueued = 2
  MaxFaults = 0
SPECIFICATION Spec
PROPERTY CancelledWasNeverFilled
CHECK_DEADLOCK FALSE
