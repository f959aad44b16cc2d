---------------------------- MODULE ClientPuzzle ----------------------------
(***************************************************************************)
(* A client_puzzle_manager in time: the host hands its current nonce out   *)
(* with every challenge, process_connections calls tick, and clients (or   *)
(* the network, with copies of old requests) submit solutions whenever     *)
(* they like.  Nonces are 64 bit random numbers: the model numbers them in *)
(* the order they are drawn, so two of them are never equal.               *)
(***************************************************************************)
EXTENDS PuzzleManager, FiniteSets

CONSTANTS
    ClientNonces,        \* the nonces clients solve puzzles for
    RefreshTime,         \* puzzle_refresh_time
    Garbage,             \* values the uninitialised _last_update_time may hold
    MaxNonces,           \* bound: server nonces drawn
    StartTime,           \* the clock when the socket is constructed
    MaxTime              \* bound on the clock

ASSUME PuzzleAssumption ==
    /\ RefreshTime \in Nat
    /\ Garbage \subseteq Int /\ Garbage # {}
    /\ MaxNonces \in Nat /\ MaxNonces >= 2
    /\ StartTime \in Nat /\ MaxTime \in Nat /\ StartTime <= MaxTime

Nonces == 0 .. MaxNonces - 1
Never == -1

VARIABLES
    pm,                  \* the manager's nonces and tables
    last_update_time,    \* _last_update_time
    now,                 \* the clock
    drawn,               \* server nonces drawn so far
    handed,              \* history: when each server nonce was last handed out
    born,                \* history: when each server nonce became the current one
    ticked,              \* TRUE right after a tick at the present time
    accepts              \* history: how often each pair of nonces was accepted

vars == <<pm, last_update_time, now, drawn, handed, born, ticked, accepts>>

\* The constructor leaves _last_update_time as the memory it finds.
Init ==
    /\ pm = NewManager(1, 0)
    /\ last_update_time \in Garbage
    /\ now = StartTime
    /\ drawn = 2
    /\ handed = [n \in Nonces |-> Never]
    /\ born = [n \in Nonces |-> StartTime]
    /\ ticked = FALSE
    /\ accepts = [p \in Nonces \X ClientNonces |-> 0]

\* Time passes.
Pass ==
    /\ now < MaxTime
    /\ now' = now + 1
    /\ ticked' = FALSE
    /\ UNCHANGED <<pm, last_update_time, drawn, handed, born, accepts>>

\* Mutant: the refresh forgets to restart the interval.
tickWithoutUpdate ==
    /\ IF now - last_update_time > RefreshTime
       THEN /\ drawn < MaxNonces
            /\ pm' = Refresh(pm, drawn)
            /\ born' = [born EXCEPT ![drawn] = now]
            /\ drawn' = drawn + 1
       ELSE UNCHANGED <<pm, born, drawn>>
    /\ ticked' = TRUE
    /\ UNCHANGED <<last_update_time, now, handed, accepts>>

tick ==
    /\ IF now - last_update_time > RefreshTime
       THEN /\ drawn < MaxNonces
            /\ pm' = Refresh(pm, drawn)
            /\ last_update_time' = now
            /\ born' = [born EXCEPT ![drawn] = now]
            /\ drawn' = drawn + 1
       ELSE UNCHANGED <<pm, last_update_time, born, drawn>>
    /\ ticked' = TRUE
    /\ UNCHANGED <<now, handed, accepts>>

\* _send_connect_challenge_response puts get_current_nonce in the response.
HandOut ==
    /\ handed' = [handed EXCEPT ![pm.current_nonce] = now]
    /\ UNCHANGED <<pm, last_update_time, now, drawn, born, ticked, accepts>>

\* _handle_connect_request calls check_solution; a result other than success
\* changes nothing.
Submit(c, n, difficulty_matches, solved) ==
    /\ check_solution(pm, c, n, difficulty_matches, solved) = "success"
    /\ pm' = AddNonce(pm, c, n)
    /\ accepts' = [accepts EXCEPT ![<<n, c>>] = @ + 1]
    /\ UNCHANGED <<last_update_time, now, drawn, handed, born, ticked>>

Next ==
    \/ Pass
    \/ tick
    \/ HandOut
    \/ \E c \in ClientNonces, n \in 0 .. drawn - 1, d, s \in BOOLEAN : Submit(c, n, d, s)

Spec == Init /\ [][Next]_vars
-----------------------------------------------------------------------------
(* Properties. *)

\* Type correctness: the two tables hold client nonces and nothing else.
TypeOK ==
    /\ pm \in [current_nonce : Nonces, last_nonce : Nonces,
               current_nonce_table : SUBSET ClientNonces,
               last_nonce_table : SUBSET ClientNonces]
    /\ last_update_time \in Int
    /\ now \in 0 .. MaxTime
    /\ drawn \in 2 .. MaxNonces
    /\ handed \in [Nonces -> Int]
    /\ born \in [Nonces -> Int]
    /\ ticked \in BOOLEAN
    /\ accepts \in [Nonces \X ClientNonces -> Nat]

\* A solution is good for one connection: whatever copies of a connect request
\* arrive, before or after refreshes that clear and swap the tables, a client
\* nonce is accepted at most once for a server nonce.
AcceptedOnce == \A p \in Nonces \X ClientNonces : accepts[p] <= 1

\* A client that was handed a puzzle has a full refresh interval to solve it: the
\* nonce is still one of the two the host answers for.
GracePeriod ==
    \A n \in Nonces :
        handed[n] # Never /\ now - handed[n] <= RefreshTime => KnownNonce(pm, n)

\* "Refresh the server puzzle every 30 seconds" (client_puzzle.h): once tick has
\* run, the nonce being handed out is no older than the refresh interval. It does
\* not hold (README, further divergences).
RefreshedInTime == ticked => now - born[pm.current_nonce] <= RefreshTime
=============================================================================
