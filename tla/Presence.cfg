CONSTANTS
  camera = camera
  dome = dome
  None = None
  Full = Full
  Empty = Empty
  Jids <- MCJids
  Publishers <- MCCamera
  Wanted <- MCCamera
  Attempts = 1
  MaxPresences = 2
  MaxRequests = 2
  MaxFaults = 1
SPECIFICATION Spec
INVARIANTS
  TypeOK
  PendingHasDiscovery
  ListedHasState
  CachedProxyIsFed
  CallbacksAreOwned
  PublishersAreHeard
CHECK_DEADLOCK FALSE
