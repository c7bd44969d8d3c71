SPECIFICATION Spec
CONSTANTS
  MaxConns = 3
  Peers = {p}
  Fds <- TwoFds
  MaxFd = 4
  Clients = 1
  LetGoListed = FALSE
PROPERTIES FailedIsDiscarded
