SPECIFICATION Spec
CONSTANTS
  w1 = w1
  w2 = w2
  NoWorker = NoWorker
  NoJob = NoJob
  Workers <- MCWorkers
  MaxJobs = 2
  MaxChunks = 0
  MaxAsks = 0
  MaxStops = 1
  MaxStalls = 1
  MaxFaults = 1
CHECK_DEADLOCK FALSE
SYMMETRY EitherWorker
INVARIANT NoMissedWake
PROPERTY JobLives
