CONSTANTS
  c1 = c1
  c2 = c2
  expose = expose
  get_state = get_state
  get_permitted_methods = get_permitted_methods
  reset_error = reset_error
  secret = secret
  ghost = ghost
  Nobody = Nobody
  Calls <- MCCalls
  Methods <- MCMethods
  Asks <- MCAsks
  Published <- MCPublished
  Slow <- MCSlow
  Denied <- MCDenied
  Modular <- MCModular
  GetPermitted = get_permitted_methods
  Reset = reset_error
  MaxErrors = 1
  MaxFaults = 1
SPECIFICATION FairSpec
INVARIANTS
  TypeOK
  PendingIsListed
  RunsOnlyOpened
PROPERTIES
  CallsAreAtMostOnce
  CallsEnd
CHECK_DEADLOCK FALSE
