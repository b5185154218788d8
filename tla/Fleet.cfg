\* Four devices, at most two children: the limit is met and passed.
CONSTANTS
  DevidNum = 4
  Limit = 2
  MaxStops = 2
SPECIFICATION FairFleet
INVARIANTS
  CounterAccount
  ForkedInOrder
  AllForkCompleted
  LimitHoldsUntilFirstWait
  ParentIsParent
  HealthyFleetWaits
PROPERTIES
  QuitFleetFinishes
