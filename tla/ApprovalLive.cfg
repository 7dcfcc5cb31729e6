CONSTANTS
  Execs = {e1}
  Responders = {r1, r2}
  Workers = {w1}
  Modes = {"live", "paper"}
  RequireApproval = TRUE
  ApprovalModes = {"live"}
  MaxRetries = 1
  MaxCrashes = 1
  NoOne = NoOne
SPECIFICATION FairSpec
PROPERTIES WaitEnds RunningEnds
CHECK_DEADLOCK FALSE
