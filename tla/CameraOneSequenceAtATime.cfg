CONSTANTS
  c1 = c1
  c2 = c2
  r1 = r1
  r2 = r2
  Clients <- MCClients
  Runs <- MCRuns
  None = None
  MaxCount = 2
  MaxCalls = 3
  MaxFaults = 1
SPECIFICATION Spec
INVARIANT OneSequenceAtATime
CHECK_DEADLOCK FALSE
