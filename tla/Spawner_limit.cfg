\* No stops: the wait at the limit alone breaks the limit.
CONSTANTS
  DevidNum = 4
  Limit = 2
  MaxStops = 0
SPECIFICATION Spec
INVARIANT AtMostLimit
