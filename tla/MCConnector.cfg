SPECIFICATION FairSpec
CONSTANTS
  Results <- AllResults
  InitDelay = 500
  MaxDelay = 10000
  StopWhenever = FALSE
  StartWhenever = FALSE
INVARIANTS TypeOK AssertsHold AttemptsAgree
PROPERTIES ImplementsAttempt EventuallyConnected
CHECK_DEADLOCK FALSE
