\* Two children; records that fit the buffer, fill it, and exceed it twice.
CONSTANTS
  Children = {c1, c2}
  Lengths = {1, 2, 5}
  Cap = 2
  MaxRecs = 2
SPECIFICATION Spec
INVARIANTS
  LogKeepsRecords
  ShortRecordsWhole
  TornAtFullBuffers
