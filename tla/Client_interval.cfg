\* Violated by the code: see the findings in README.md.
CONSTANTS
  Asks = {"IDENTIFY", "ETHINFO", "END"}
  TermIDs = {1}
  TermNums = {3}
  ScreenNums = {1}
  MaxAsks = 2
SPECIFICATION Spec
INVARIANT SleepIsServerInterval
