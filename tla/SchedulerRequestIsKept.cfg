CONSTANTS
  t1 = t1
  Task <- MCTask
  Horizon = 2
  EveryUpdate = FALSE
  Tries = 2
  MaxPlan = 2
  MaxRequests = 1
  MaxChanges = 1
  MaxFaults = 0
SPECIFICATION Spec
INVARIANT RequestIsKept
CHECK_DEADLOCK FALSE
