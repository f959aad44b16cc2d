\* Each socket connects to the other one.
CONSTANTS
  A = A
  B = B
  C = C
  Sockets = {A, B}
  ChallengeRetryCount = 0
  ConnectRetryCount = 4
  Targets <- Others
  MaxConnects <- BothAttempt
  MaxRefreshes = 0
  MaxRestarts <- NoRestart
  Doors = {}
  Closers = {A}
  Quitters = {}
  Losers = {B}
SPECIFICATION Spec
CHECK_DEADLOCK FALSE
INVARIANTS EstablishedMeansAccepted
