SPECIFICATION Spec
CONSTANTS
  r1 = r1
  r2 = r2
  r3 = r3
  r4 = r4
  Runs = {r1, r2, r3, r4}
  Sessions = {1, 2, 3}
  Cwds = {"a", "b"}
  Lines <- SharedIndex
  Overlap = TRUE
  Mortal = {r1}
  MaxTime = 1
INVARIANTS
  TypeOK
PROPERTIES
  ContinueNotStale
