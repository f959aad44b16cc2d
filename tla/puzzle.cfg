\* Two clients, a refresh interval of one tick of the clock and time for
\* three refreshes, from any of three contents of the uninitialised time.
CONSTANTS
  ClientNonces = {c1, c2}
  RefreshTime = 1
  Garbage = {0, 11, 30}
  MaxNonces = 5
  StartTime = 10
  MaxTime = 15
SPECIFICATION Spec
CHECK_DEADLOCK FALSE
INVARIANTS AcceptedOnce GracePeriod
