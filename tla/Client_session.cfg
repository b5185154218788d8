\* Three requests out of seven types, two terminals, up to two screens.
CONSTANTS
  Asks = {"IDENTIFY", "CFGINFO", "ETHINFO", "TERMINFO", "SUBTERMINFO_1", "END",
          "SYNCINFO"}
  TermIDs = {1, 2}
  TermNums = {3, 4}
  ScreenNums = {1, 2}
  MaxAsks = 3
SPECIFICATION FairSpec
INVARIANTS
  EveryRequestAccounted
  RowMatchesServer
  NothingHeld
PROPERTIES
  ImplementsDialogue
  EveryRequestSettled
  EverySessionEnds
