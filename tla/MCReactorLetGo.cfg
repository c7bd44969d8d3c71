SPECIFICATION Spec
CONSTANTS
  MaxConns = 3
  Peers = {p}
  Fds <- ThreeFds
  MaxFd = 4
  Clients = 1
  LetGoListed = TRUE
INVARIANTS ListedIsAlive
