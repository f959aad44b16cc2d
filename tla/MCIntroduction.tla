--------------------------- MODULE MCIntroduction ---------------------------
EXTENDS Introduction, TLC

CONSTANTS A, B, I        \* two sockets and their introducer

Nobody == [s \in Sockets |-> {}]
Never == [s \in Sockets |-> 0]
Once == [s \in Sockets |-> 1]
BTwice == (A :> 1) @@ (B :> 2)
EachTwice == (A :> 2) @@ (B :> 2)

AIsIntroducedToB == {<<A, B>>}
EachAsks == {[socket |-> A, remote |-> B, is_host |-> FALSE],
             [socket |-> B, remote |-> A, is_host |-> TRUE]}

EachIsIntroduced == {<<A, B>>, <<B, A>>}
EachAsksTwice == {[socket |-> s, remote |-> (IF s = A THEN B ELSE A), is_host |-> h] : s \in {A, B}, h \in BOOLEAN}
=============================================================================
