SPECIFICATION FairSpec
CONSTANTS
  Limit = 2
  MaxCalls = 2
  Mortal = TRUE
INVARIANTS
  TypeOK
  ResultTruthful
  CommandReaped
PROPERTIES
  CommandReturns
