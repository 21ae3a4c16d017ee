SPECIFICATION Spec
CONSTANTS
  a = a
  b = b
  NoThread = NoThread
  NoRow = NoRow
  Gone = Gone
  Replicas <- MCReplicas
  Threads <- RunsCancelSubmit
  Pieces = 2
  MaxSteps = 2
  MaxExec = 3
  MaxWaits = 1
  MaxAnswers = 2
  MaxCancels = 1
  MaxSignals = 0
  MaxCrashes = 1
  MaxStalls = 0
  MaxFaults = 1
CHECK_DEADLOCK FALSE
INVARIANTS DroppedWritesNothing
PROPERTY OneExecutorLife
