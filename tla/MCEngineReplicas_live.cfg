SPECIFICATION FairSpec
CONSTANTS
  a = a
  b = b
  NoThread = NoThread
  NoRow = NoRow
  Gone = Gone
  Replicas <- MCReplicas
  Threads <- RunsAndCancel
  Pieces = 1
  MaxSteps = 5
  MaxExec = 5
  MaxWaits = 0
  MaxAnswers = 0
  MaxCancels = 1
  MaxSignals = 1
  MaxCrashes = 1
  MaxStalls = 0
  MaxFaults = 0
CHECK_DEADLOCK FALSE
PROPERTIES RunProgresses CancelReturns
