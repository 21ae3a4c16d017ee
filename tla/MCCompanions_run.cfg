SPECIFICATION FairSpec
CONSTANTS
  a = a
  b = b
  Free = Free
  Replicas <- MCReplicas
  Superseding = {2}
  MaxEvents = 3
  MaxUpsets = 1
CHECK_DEADLOCK FALSE
INVARIANTS OneCompanion NothingLost
PROPERTIES StaysCancelled LooksAtEvery
