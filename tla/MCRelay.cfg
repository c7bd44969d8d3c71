SPECIFICATION FairSpec
CONSTANTS
  Up <- UpData
  Down <- DownData
  FreeWhenever = FALSE
INVARIANTS TypeOK TunnelAgrees NothingLost
PROPERTIES ImplementsPipe LeaverIsReleased
CHECK_DEADLOCK FALSE
