SPECIFICATION FairSpec
CONSTANTS
  a = a
  b = b
  p = p
  q = q
  bus = bus
  broker = broker
  NoRow = NoRow
  Gone = Gone
  Replicas <- MCReplicas
  Keys <- OneKey
  Sinks <- MCSinks
  UseLease = TRUE
  Batch = 1
  MaxMsgs = 1
  MaxCrashes = 1
  MaxFaults = 1
CHECK_DEADLOCK FALSE
PROPERTY Delivered
