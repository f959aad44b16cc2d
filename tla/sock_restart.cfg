\* Two attempts of a socket whose process may be restarted before, between and after them,
\* at a host that may have a connection to a third socket.
CONSTANTS
  A = A
  B = B
  C = C
  Sockets = {A, B, C}
  ChallengeRetryCount = 0
  ConnectRetryCount = 4
  Targets <- OnlyAToB
  MaxConnects <- TwoAttempts
  MaxRefreshes = 0
  MaxRestarts <- InitiatorRestarts
  Doors = {}
  Closers = {}
  Quitters = {}
  Losers = {B}
SPECIFICATION LaterSpec
CHECK_DEADLOCK FALSE
INVARIANTS EstablishedMeansAccepted HostKeepsOne
