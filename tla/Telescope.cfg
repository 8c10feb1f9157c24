CONSTANTS
  c1 = c1
  c2 = c2
  weather = weather
  refresh = refresh
  Task <- MCTask
  Weather = weather
  Refresh = refresh
  Asks <- MCAsks
  MaxCalls = 2
  MaxFaults = 1
SPECIFICATION FairSpec
INVARIANT TypeOK
INVARIANT ParkedAtRestIsStill
PROPERTY OneMotionAtATime
CHECK_DEADLOCK FALSE
PROPERTY BadWeatherParks
PROPERTY CallsEnd
