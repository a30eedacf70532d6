SPECIFICATION Spec
CONSTANTS
  Absent = Absent
  Null = Null
  Bad = Bad
  Unfit = Unfit
  Garbled = Garbled
  UsPerMs = 2
  AddrBits = 4
  a = a
  b = b
  w = w
  l = l
  x = x
  Replica = {a, b}
  Req = {w, l, x}
  Id = {1, 2, 3, 4}
  InitialTable <- MCTable
  InitVersion <- MCInitVersion
  Environment <- MCEnvironment
  Traffic <- MCTraffic
  CallsOf <- MCCallsOf
  Alone <- MCAlone
  Walkers <- MCReaders
  RateLimitMax = 1
  DbErrors = {"lost"}
  MaxFault = 1
INVARIANTS TypeOK CurrentPagesAreFresh WaitersHaveATimer
  WalkDeliversOnce RepliesHaveCauses LimiterMatchesConfig
SYMMETRY MCSymmetry
CHECK_DEADLOCK FALSE
