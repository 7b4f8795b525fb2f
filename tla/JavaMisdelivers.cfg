CONSTANTS
  Amounts = {4}
  Contents = {1, 5}
  Destinations = {2, 3}
  MaxRuns = 4
  MaxFds = 4
  NoLine = NoLine
SPECIFICATION Spec
INVARIANT ReachesItsTarget
CHECK_DEADLOCK FALSE
