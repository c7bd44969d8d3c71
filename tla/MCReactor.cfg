SPECIFICATION FairSpec
CONSTANTS
  MaxConns = 4
  Peers = {p}
  Fds <- ThreeFds
  MaxFd = 4
  Clients = 1
  LetGoListed = FALSE
INVARIANTS TypeOK ReferencesAgree AssertsHold
PROPERTIES NobodyIsForgotten
