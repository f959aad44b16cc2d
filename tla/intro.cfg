\* A and B, connected to I, are introduced to each other.
CONSTANTS
  A = A
  B = B
  I = I
  Sockets = {A, B, I}
  Introducer = I
  ChallengeRetryCount = 1
  PunchRetryCount = 1
  ConnectRetryCount = 4
  Targets <- Nobody
  MaxConnects <- Once
  MaxRefreshes = 0
  MaxRestarts <- Never
  Doors = {B}
  Closers = {}
  Quitters = {}
  MaxIntroductions = 1
  MaxAttempts <- BTwice
  Losers = {B}
  Introduces <- AIsIntroducedToB
  Asks <- EachAsks
SPECIFICATION IntroSpec
CHECK_DEADLOCK FALSE
INVARIANTS PunchesOnlyTheIntroduced GoesOnWithTheIntroduced
PROPERTY IntroducedAttemptEnds
