SPECIFICATION Spec
CONSTANTS
  a = a
  b = b
  Free = Free
  Gone = Gone
  Replicas <- MCReplicas
  Calls = 1
  MaxRuns = 1
  MaxChildren = 2
  MaxAsks = 1
  MaxSignals = 0
  MaxCancels = 1
  MaxStops = 1
  MaxFaults = 1
CHECK_DEADLOCK FALSE
SYMMETRY Symmetry
INVARIANTS TypeOK WakeOnItsWay OneChildPerCall PlacesCounted CancelTakesChildren
