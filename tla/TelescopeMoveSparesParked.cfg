CONSTANTS
  c1 = c1
  c2 = c2
  weather = weather
  refresh = refresh
  Task <- MCTask
  Weather = weather
  Refresh = refresh
  Asks <- MCAsks
  MaxCalls = 2
  MaxFaults = 0
SPECIFICATION Spec
PROPERTY MoveSparesParked
CHECK_DEADLOCK FALSE
