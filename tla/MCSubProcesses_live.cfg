SPECIFICATION FairSpec
CONSTANTS
  a = a
  b = b
  Free = Free
  Gone = Gone
  Replicas <- MCReplicas
  Calls = 1
  MaxRuns = 1
  MaxChildren = 2
  MaxAsks = 1
  MaxSignals = 1
  MaxCancels = 0
  MaxStops = 1
  MaxFaults = 0
CHECK_DEADLOCK FALSE
PROPERTIES RunningGoesOn ParentGoesOn
