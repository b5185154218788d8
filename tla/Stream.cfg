\* Headers of two bytes, bodies of up to two, the first of them converted.
CONSTANTS
  HEADER_LEN = 2
  IDEN_LEN = 2
  Swapped = {1}
  AnswerLens = {1, 3}
  MaxMsgs = 3
SPECIFICATION FairSpec
INVARIANTS
  PackagesWhole
  IdenIsLatest
PROPERTIES
  ImplementsChannel
  EverythingArrives
