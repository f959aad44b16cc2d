--------------------------- MODULE MCTorqueSocket ---------------------------
EXTENDS TorqueSocket, TLC

CONSTANTS A, B, C        \* sockets

Others == [s \in Sockets |-> Sockets \ {s}]
OnlyAToB == [s \in Sockets |-> IF s = A THEN {B} ELSE {}]

OneAttempt == (A :> 1) @@ (B :> 0) @@ (C :> 1)
TwoAttempts == (A :> 2) @@ (B :> 0) @@ (C :> 1)
BothAttempt == [s \in Sockets |-> 1]

NoRestart == [s \in Sockets |-> 0]
InitiatorRestarts == [s \in Sockets |-> IF s = A THEN 1 ELSE 0]

\* From nothing, and from when A and C are connected to B.
EitherInit == Init \/ ConnectedInit(B)
LaterSpec == EitherInit /\ [][Next]_vars
FairLaterSpec == LaterSpec /\ \A s \in Sockets : WF_vars(SweepAttempt(s))
=============================================================================
