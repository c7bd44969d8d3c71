SPECIFICATION Spec
CONSTANTS
  Results <- AllResults
  InitDelay = 500
  MaxDelay = 10000
  StopWhenever = TRUE
  StartWhenever = FALSE
INVARIANTS AssertsHold
CHECK_DEADLOCK FALSE
