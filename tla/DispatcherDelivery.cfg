CONSTANTS
  Instances = {i1, i2}
  Pipelines = {p1}
  Rows = {x1}
  MaxSignals = 3
  MaxQueued = 1
  MaxFaults = 1
  NoOffset = NoOffset
  Nobody = Nobody
SPECIFICATION FairSpec
INVARIANTS TypeOK CommittedIsAccounted RepeatedByAssignment
PROPERTIES SignalsAreAccounted
CHECK_DEADLOCK FALSE
