\* The numbers of the source. Violated by the code: see README.md.
CONSTANTS
  Lo <- SourceLo
  Hi <- SourceHi
  Default <- SourceDefault
  ASYNC_NUM = 8
  V_TERM_NUM = 16
  IP_TERM_NUM = 254
  TermCap = 270
  Values = {10}
  MaxLines = 2
SPECIFICATION Spec
INVARIANT NoDivideByZero
