CONSTANTS
  t1 = t1
  Task <- MCTask
  Horizon = 2
  EveryUpdate = FALSE
  Tries = 2
  MaxPlan = 2
  MaxRequests = 2
  MaxChanges = 1
  MaxFaults = 1
SPECIFICATION FairSpec
INVARIANT TypeOK
INVARIANT PlansOwnTheirTime
INVARIANT PlanIsCurrent
PROPERTY OutdatedPlanIsGivenUp
PROPERTY ComesToRest
PROPERTY TasksCatchUp
CHECK_DEADLOCK FALSE
