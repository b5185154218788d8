CONSTANTS
  BASE = 4
  ByteXor <- MCByteXor
  TABLE_LEN = 5
  POS_MOD = 3
  secret <- MCSecret
  TOKEN_LEN = 2
  plainText <- MCPlainText
  Digits = {"1", "2"}
  BUF_LEN = 18
  Numbers = 2
  MinVersion <- MCMinVersion
  MainVersions <- MCMainVersions
  SubVersions = {0, 1, 2}
  RandomNums <- MCRandomNums
  Fields <- MCFields
  FIELDS_LEN = 2
  Interfaces <- MCInterfaces
  CpuLines <- MCCpuLines
  MemFiles <- MCMemFiles
SPECIFICATION Spec
INVARIANTS
  TypeOK
  VersionVerdict
  TokenVerdict
  ServerReadsBack
  CountersOfInterface
  SysInfoFromProc
