SPECIFICATION FairSpec
CONSTANTS
  w1 = w1
  w2 = w2
  NoWorker = NoWorker
  NoJob = NoJob
  Workers <- OneWorker
  MaxJobs = 1
  MaxChunks = 2
  MaxAsks = 2
  MaxStops = 1
  MaxStalls = 1
  MaxFaults = 2
CHECK_DEADLOCK FALSE
INVARIANTS TypeOK ResultWhole NoMissedWake
PROPERTIES JobLives CancelEnds AbandonedEnds LostRunStops
