\* A boot with a rebuild of two batches; two clients for one slot or
\* for two, whose snapshots may come from one read.
SPECIFICATION Spec
CONSTANTS
  Absent = Absent
  a = a
  b = b
  u = u
  v = v
  w = w
  c = c
  d = d
  Instance = {a, b}
  User = {u, v, w}
  Client = {c, d}
  InitialTable <- MCTable
  InitialCaches <- MCCaches
  TopN = 2
  BatchSize = 1
  MaxCommit = 1
  MaxFault = 1
  MaxConn <- MCMaxConn
  MaxPending = 2
  MaxPublish = 2
  Streamers = {a, b}
  Restless = {c}
INVARIANTS BootTypeOK RebuildsExclusive ReadyMeansCovered SlotsAreAccounted
PROPERTIES BootEnds SlotsComeBack StalledClientsAreCutOff ClientsSeeLastTop
CHECK_DEADLOCK FALSE
