CONSTANTS
  Instances = {i1}
  Pipelines = {p1, p2}
  Rows = {x1, x2}
  MaxSignals = 1
  MaxQueued = 1
  MaxFaults = 0
  NoOffset = NoOffset
  Nobody = Nobody
SPECIFICATION Spec
SYMMETRY Symmetry
INVARIANT SymbolMonitoredOnce
CHECK_DEADLOCK FALSE
