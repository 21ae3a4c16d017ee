SPECIFICATION FairSpec
CONSTANTS
  a = a
  b = b
  p = p
  q = q
  bus = bus
  broker = broker
  NoRow = NoRow
  Gone = Gone
  Replicas <- OneReplica
  Keys <- MCKeys
  Sinks <- MCSinks
  UseLease = FALSE
  Batch = 1
  MaxMsgs = 1
  MaxCrashes = 0
  MaxFaults = 0
CHECK_DEADLOCK FALSE
PROPERTY DrainEnds
