CONSTANTS
  c1 = c1
  c2 = c2
  weather = weather
  Task <- MCTask
  Weather = weather
  Top = 2
  MaxCalls = 3
  MaxFaults = 1
SPECIFICATION FairSpec
INVARIANT TypeOK
INVARIANT LineIsOrdered
INVARIANT MotionIsVisible
INVARIANT ParkedAtRestIsClosed
PROPERTY OneMotionAtATime
PROPERTY BadWeatherClosesRoof
PROPERTY CallsReturn
