SPECIFICATION Spec
CONSTANTS
  a = a
  b = b
  NoThread = NoThread
  NoRow = NoRow
  Gone = Gone
  Replicas <- MCReplicas
  Threads <- RunsAndCancel
  Pieces = 2
  MaxSteps = 3
  MaxExec = 3
  MaxWaits = 0
  MaxAnswers = 0
  MaxCancels = 0
  MaxSignals = 0
  MaxCrashes = 2
  MaxStalls = 0
  MaxFaults = 0
CHECK_DEADLOCK FALSE
PROPERTY CutNotRerun
