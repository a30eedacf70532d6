SPECIFICATION Spec
CONSTANTS
  Absent = Absent
  Null = Null
  Bad = Bad
  Unfit = Unfit
  Garbled = Garbled
  UsPerMs = 2
  AddrBits = 4
  a = a
  b = b
  w = w
  l = l
  x = x
  Replica = {a, b}
  Req = {w, l}
  Id = {1, 2, 3}
  InitialTable <- MCTable
  InitVersion = Absent
  Environment <- MCOneEnvironment
  Traffic <- MCOneEnvironment
  CallsOf <- MCFirstCalls
  Alone = {}
  Walkers = {l}
  RateLimitMax = 1
  DbErrors = {"lost"}
  MaxFault = 0
INVARIANT CurrentPagesAreFresh
SYMMETRY MCFirstSymmetry
CHECK_DEADLOCK FALSE
