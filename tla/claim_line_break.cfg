SPECIFICATION Spec
CONSTANTS
  p1 = p1
  p2 = p2
  p3 = p3
  NoProc = NoProc
  Procs = {p1, p2}
  MaxRows <- OneRow
  Loaders = {p1, p2}
  Splitting <- SplitFirst
  Mortal = {}
  MaxPowerCuts = 0
INVARIANTS
  OneObjectPerLine
