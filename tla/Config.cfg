\* All files of up to seven characters over five.
CONSTANTS
  Letters = {"a", "b"}
  MaxFile = 7
  KEY_LEN = 2
  VALUE_LEN = 2
  DEBUG_NUM = 2
  Fields <- MCFields
  Debug <- MCDebug
SPECIFICATION FairSpec
INVARIANTS
  TypeOK
  KeysStartLines
  ConfigMatchesFile
PROPERTY ParseEnds
