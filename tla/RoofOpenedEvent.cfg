CONSTANTS
  c1 = c1
  c2 = c2
  weather = weather
  Task <- MCTask
  Weather = weather
  Top = 2
  MaxCalls = 2
  MaxFaults = 0
SPECIFICATION Spec
INVARIANT OpenedEventMeansOpen
