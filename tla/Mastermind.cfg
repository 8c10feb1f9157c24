CONSTANTS
  o1 = o1
  o2 = o2
  Observations <- MCObservations
  None = None
  MaxFaults = 1
SPECIFICATION FairSpec
INVARIANT TypeOK
INVARIANT CacheIsFresh
PROPERTY OneObservationAtATime
PROPERTY CacheCatchesUp
PROPERTY StartedEnds
