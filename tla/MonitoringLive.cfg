CONSTANTS
  Workers = {w1}
  Limit = FALSE
  Legs = FALSE
  TradeIds = TRUE
  SwallowedCalls = {"get_position", "get_orders"}
  EmergencyExits = TRUE
  UserOps = {"close", "resume", "reconcile"}
  ErrorLimit = 1
  MaxRetries = 2
  MaxQueued = 1
  MaxFaults = 1
SPECIFICATION FairSpec
PROPERTIES NoFalseReconciliation EndedStaysEnded EndedTradeIsBooked ChainIsRestarted
CHECK_DEADLOCK FALSE
