SPECIFICATION FairSpec
CONSTANTS
  a = a
  b = b
  NoThread = NoThread
  NoRow = NoRow
  Gone = Gone
  Replicas <- MCReplicas
  Threads <- RunsAndCancel
  Pieces = 1
  MaxSteps = 1
  MaxExec = 3
  MaxWaits = 0
  MaxAnswers = 0
  MaxCancels = 0
  MaxSignals = 0
  MaxCrashes = 0
  MaxStalls = 0
  MaxFaults = 0
CHECK_DEADLOCK FALSE
PROPERTY RunProgresses
