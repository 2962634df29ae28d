SPECIFICATION Spec
CONSTANTS
  ArgsUsed <- EveryArgs
  MaxLines = 2
  MaxEvents = 2
  Patient = FALSE
  Fragile = TRUE
INVARIANTS
  TypeOK
  RunsOnWholeInput
  OutputMatchesExit
CHECK_DEADLOCK FALSE
