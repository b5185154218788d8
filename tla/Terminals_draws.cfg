\* Values below, inside and above every range; up to two lines of ts.conf.
CONSTANTS
  Lo <- MCLo
  Hi <- MCHi
  Default <- MCDefault
  ASYNC_NUM = 2
  V_TERM_NUM = 3
  IP_TERM_NUM = 5
  TermCap = 6
  Values = {0, 1, 3, 5, 7}
  MaxLines = 2
SPECIFICATION FairSpec
INVARIANTS
  ConfigInRange
  TotalInConfig
  PackageConsistent
  MarksInArrays
  MarksAreFirst
  ScreensInRange
  CrashNeedsEqualBounds
PROPERTY GenTermInfoReturns
