--------------------------- MODULE NotifyChannel ---------------------------
(***************************************************************************)
(* What torque_connection promises for one direction of a connection, with *)
(* windows, masks, partial numbers, pings and the network hidden.  Packets *)
(* are numbered from 1.  Some are handed to the receiving application, in  *)
(* order; the sending one is told of each, in order, whether it was        *)
(* delivered.  A packet told to be lost is never handed over.  One told to *)
(* be delivered has arrived, which is not to say that it was handed over:  *)
(* a ping with its number may have overtaken it.                           *)
(***************************************************************************)
EXTENDS Naturals, Sequences

CONSTANT Window          \* how many packets may be sent ahead of what was told

VARIABLES
    sent,                \* the number of packets sent
    arrived,             \* the packets that have reached the other connection
    handed,              \* the packets handed over, in order
    told                 \* what the sender was told, in order

vars == <<sent, arrived, handed, told>>

HandedOver(n) == \E i \in DOMAIN handed : handed[i] = n

Init == sent = 0 /\ arrived = {} /\ handed = <<>> /\ told = <<>>

Send ==
    /\ sent < Len(told) + Window
    /\ sent' = sent + 1
    /\ UNCHANGED <<arrived, handed, told>>

\* A packet is handed over after all those handed over before it were sent, and before
\* the sender is told of it.
HandOver ==
    /\ \E n \in Len(told) + 1 .. sent :
        /\ \A i \in DOMAIN handed : handed[i] < n
        /\ arrived' = arrived \cup {n}
        /\ handed' = Append(handed, n)
    /\ UNCHANGED <<sent, told>>

\* A packet arrives that a ping of its number has overtaken.
ArriveOvertaken ==
    /\ \E n \in 1 .. sent : arrived' = arrived \cup {n}
    /\ UNCHANGED <<sent, handed, told>>

\* The sender is told of the next packets, several at a time.
Tell ==
    /\ \E k \in 1 .. sent - Len(told) : \E delivered \in [1 .. k -> BOOLEAN] :
        /\ \A i \in 1 .. k : IF delivered[i] THEN Len(told) + i \in arrived
                             ELSE ~HandedOver(Len(told) + i)
        /\ told' = told \o [i \in 1 .. k |->
                                [packet |-> Len(told) + i, delivered |-> delivered[i]]]
    /\ UNCHANGED <<sent, arrived, handed>>

Next == Send \/ HandOver \/ ArriveOvertaken \/ Tell

Spec == Init /\ [][Next]_vars
=============================================================================
