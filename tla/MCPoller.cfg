SPECIFICATION Spec
CONSTANTS
  Event = {e1, e2, e3}
  MaxFd = 2
  Fd <- MCFd
  MuteBeforeUse = FALSE
SYMMETRY ObjectSymmetry
INVARIANTS TypeOK TableAgrees AssertsHold
PROPERTIES ImplementsPollSet
