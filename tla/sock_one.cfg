\* One attempt: one retry of the challenge, one refresh of the puzzle, a host that opens
\* and closes its door, disconnects and destroyed sockets on both sides.
CONSTANTS
  A = A
  B = B
  C = C
  Sockets = {A, B, C}
  ChallengeRetryCount = 1
  ConnectRetryCount = 4
  Targets <- OnlyAToB
  MaxConnects <- OneAttempt
  MaxRefreshes = 1
  MaxRestarts <- NoRestart
  Doors = {B}
  Closers = {A, B}
  Quitters = {B}
  Losers = {A, B, C}
SPECIFICATION FairLaterSpec
CHECK_DEADLOCK FALSE
INVARIANTS TypeOK SolutionOpensOnce EventsTellTheTruth
PROPERTY EveryAttemptEnds
