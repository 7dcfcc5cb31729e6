CONSTANTS
  Execs = {e1}
  Responders = {r1, r2}
  Workers = {w1, w2}
  Modes = {"live", "paper"}
  RequireApproval = TRUE
  ApprovalModes = {"live"}
  MaxRetries = 1
  MaxCrashes = 2
  NoOne = NoOne
SPECIFICATION Spec
SYMMETRY Symmetry
INVARIANTS TypeOK OneOrderPerGrant AwaitingIsTracked
PROPERTIES SettledStaysSettled ImplementsPermission
CHECK_DEADLOCK FALSE
