SPECIFICATION Spec
CONSTANTS
  Conditions <- MCConditions
  Agents <- MCAgents
  Goal <- MCGoal
  Starts <- MCStarts
  MaxFailures = 1
  MaxSteps = 12
  MaxExpansions = 27
  MaxEvents = 2
  MaxMoves = 1
  MaxItems = 1
  MaxUnblocks = 1
  MaxFaults = 1
CHECK_DEADLOCK FALSE
INVARIANTS TypeOK CheapestPlan ExpandedOnce BlockedForGood LimitNotReached NotForgotten
