SPECIFICATION FairSpec
CONSTANTS
  p1 = p1
  p2 = p2
  p3 = p3
  NoProc = NoProc
  Procs = {p1, p2, p3}
  MaxRows <- SomeRows
  Loaders = {p1, p2, p3}
  Splitting <- SplitSecond
  Mortal = {p1, p2}
  MaxPowerCuts = 1
INVARIANTS
  TypeOK
  RowsUnbroken
  AckedDurable
  LoadMissesNothing
  UnreadableHasCause
PROPERTIES
  AtomicAppends
  NobodyWaitsForever
