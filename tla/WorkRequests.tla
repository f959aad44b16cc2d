---------------------------- MODULE WorkRequests ----------------------------
(***************************************************************************)
(* What thread_queue promises its main thread, with the workers, the lock  *)
(* and the semaphore hidden: a posted request is outstanding until it is   *)
(* either answered, once and with a solution, or withdrawn.                *)
(***************************************************************************)
EXTENDS Naturals, Sequences

CONSTANT Requests        \* the indices post_request may hand out

VARIABLES
    outstanding,         \* posted, neither answered nor withdrawn
    answered,            \* the results handed to the main thread, in order
    withdrawn            \* the requests whose cancellation was confirmed

vars == <<outstanding, answered, withdrawn>>

Init == outstanding = {} /\ answered = <<>> /\ withdrawn = {}

AnsweredRequests == {answered[i].request : i \in 1 .. Len(answered)}

Post(r) ==
    /\ r \notin outstanding \cup withdrawn \cup AnsweredRequests
    /\ outstanding' = outstanding \cup {r}
    /\ UNCHANGED <<answered, withdrawn>>

Answer(r) ==
    /\ r \in outstanding
    /\ outstanding' = outstanding \ {r}
    /\ answered' = Append(answered, [request |-> r, solved |-> TRUE])
    /\ UNCHANGED withdrawn

Withdraw(r) ==
    /\ r \in outstanding
    /\ outstanding' = outstanding \ {r}
    /\ withdrawn' = withdrawn \cup {r}
    /\ UNCHANGED answered

Next == \E r \in Requests : Post(r) \/ Answer(r) \/ Withdraw(r)

Spec == Init /\ [][Next]_vars
=============================================================================
