SPECIFICATION FairSpec
CONSTANTS
  Owners <- BothOwners
  MarkOps <- PauseOps
  HighWater = 2
  SndBuf = 2
  MaxData = 4
  MaxSend = 3
  MaxIn = 2
INVARIANTS TypeOK StreamIntact AssertsHold
PROPERTIES ImplementsConnection SilentAfterDown ClosingCompletes
CHECK_DEADLOCK FALSE
