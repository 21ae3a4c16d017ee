SPECIFICATION Spec
CONSTANTS
  a = a
  b = b
  p = p
  q = q
  bus = bus
  broker = broker
  NoRow = NoRow
  Gone = Gone
  Replicas <- MCReplicas
  Keys <- MCKeys
  Sinks <- MCSinks
  UseLease = FALSE
  Batch = 2
  MaxMsgs = 2
  MaxCrashes = 1
  MaxFaults = 1
CHECK_DEADLOCK FALSE
SYMMETRY Interchangeable
INVARIANTS TypeOK NotLeftBehind
PROPERTY InOrderNoneSkipped
