SPECIFICATION Spec
CONSTANTS
  Owners <- BothOwners
  MarkOps <- NoOps
  HighWater = 2
  SndBuf = 2
  MaxData = 4
  MaxSend = 3
  MaxIn = 2
INVARIANTS DrainedIsQuiet
CHECK_DEADLOCK FALSE
