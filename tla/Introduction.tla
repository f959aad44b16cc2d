---------------------------- MODULE Introduction ----------------------------
(***************************************************************************)
(* Introduced connections (torque_sockets/torque_socket.h): two sockets    *)
(* that are both connected to a third one, the introducer, ask it for an   *)
(* introduction; it tells each the other's address and a pair of nonces,   *)
(* both send punch packets, and the initiator that receives one starts the *)
(* usual handshake of TorqueSocket, which this module extends with the     *)
(* states, packets and sweeps of introductions.                            *)
(*                                                                         *)
(* The system starts when the sockets have connected to the introducer     *)
(* and no packet of that is under way any more.                            *)
(***************************************************************************)
EXTENDS TorqueSocket

CONSTANTS
    Introducer,          \* the socket the others are connected to
    PunchRetryCount,     \* punch_retry_count
    Introduces,          \* <<initiator, host>>: the introductions its application makes
    Asks,                \* [socket, remote, is_host]: the calls of connect_introduced
    MaxIntroductions,    \* bound: calls of introduce_connection
    MaxAttempts          \* bound: calls of connect_introduced, for each socket

Clients == ClientsOf(Introducer)

ASSUME IntroductionAssumption ==
    /\ IsFiniteSet(Sockets) /\ Introducer \in Sockets
    /\ PunchRetryCount \in Nat /\ MaxIntroductions \in Nat
    /\ MaxAttempts \in [Clients -> Nat]
    /\ Introduces \subseteq Clients \X Clients
    /\ Asks \subseteq [socket : Clients, remote : Clients, is_host : BOOLEAN]

VARIABLES
    introductions,       \* the introducer's _introductions
    asked                \* history: the calls of connect_introduced made

intro_vars == <<sock, net, log, accepted, introductions, asked>>

AnyAddress == "any"      \* the address of a pending connection before it has one

\* The introducer numbers its connections in the order in which they were accepted.
ConnectionId == AcceptOrder(Introducer)

IntroductionNonce(n, role) == <<Introducer, sock[Introducer].epoch, 0, n, role>>

\* The others have connected to the introducer.
IntroInit ==
    /\ ConnectedInit(Introducer)
    /\ introductions = <<>>
    /\ asked = {}
-----------------------------------------------------------------------------
(* Packets. *)

\* `introducing` is the pointer found for the introducer's id: nothing is sent for null.
_send_introduction_request(s, p, introducing) ==
    {Packet("introduced_connection_request", s, c.address, c.initiator_nonce, Unset,
            [remote_id |-> p.remote_client_id,
             is_initiator |-> p.type = "introduced_connection_initiator"]) :
        c \in Pointed(sock[s], introducing)}

\* `connection` and `remote` are the pointers found for the two ids: nothing is sent when
\* either is null.
_send_introduction(s, connection, remote, r) ==
    {Packet("connection_introduction", s, c[1].address, c[1].initiator_nonce, Unset,
            [remote_id |-> c[2].id, remote_address |-> c[2].address,
             initiator_nonce |-> r.initiator_nonce, host_nonce |-> r.host_nonce]) :
        c \in Pointed(sock[s], connection) \X Pointed(sock[s], remote)}

_send_punch(s, p) ==
    {Packet("punch", s, addr, p.initiator_nonce, p.host_nonce, NoBody) : addr \in p.possible_addresses}
-----------------------------------------------------------------------------
(* The application's calls. *)

\* A pointer is found for both; it is not used.
introduce_connection(initiator, host) ==
    LET S == sock[Introducer]
        n == Len(introductions) + 1
        r == [initiator_nonce |-> IntroductionNonce(n, 1), host_nonce |-> IntroductionNonce(n, 2),
              initiator |-> ConnectionId[initiator], host |-> ConnectionId[host],
              initiator_request_received |-> FALSE, host_request_received |-> FALSE]
    IN  /\ S.status = "open"
        /\ Len(introductions) < MaxIntroductions
        /\ _find_connection_by_id(S, r.initiator) # {Null}
        /\ _find_connection_by_id(S, r.host) # {Null}
        /\ introductions' = Append(introductions, r)
        /\ UNCHANGED <<sock, net, log, accepted, asked>>

\* The first connection of a client is the one to the introducer.
connect_introduced(a) ==
    LET s == a.socket
        S == sock[s]
        id == S.next_connection_index
        p == [id |-> id,
              type |-> IF a.is_host THEN "introduced_connection_host"
                       ELSE "introduced_connection_initiator",
              state |-> "requesting_introduction", address |-> AnyAddress,
              initiator_nonce |-> InitiatorNonce(s, id, 0), host_nonce |-> Unset,
              initial_send_sequence |-> RandomSequence(s, id), initial_recv_sequence |-> Unset,
              shared_secret |-> {}, symmetric_key |-> Unset, init_vector |-> Unset,
              client_identity |-> Unset, puzzle_solution |-> Unset, puzzle_request_index |-> 0,
              puzzle_retried |-> FALSE, state_send_retry_count |-> ChallengeRetryCount,
              requests_sent |-> 0, introducer |-> 1, remote_client_id |-> ConnectionId[a.remote],
              possible_addresses |-> {}]
    IN  /\ S.status = "open" /\ id <= 1 + MaxAttempts[s]
        /\ \E pointer \in _find_connection_by_id(S, p.introducer) \ {Null} :
            \/ /\ ~Dangling(S, pointer)
               /\ asked' = asked \cup {a}
               /\ sock' = [sock EXCEPT ![s].pending = @ \cup {p}, ![s].next_connection_index = id + 1]
               /\ net' = net \cup _send_introduction_request(s, p, pointer)
            \/ Dangling(S, pointer) /\ Undefined(s) /\ UNCHANGED asked
        /\ UNCHANGED <<log, accepted, introductions>>
-----------------------------------------------------------------------------
(* The packet handlers. *)

\* Mutant: one request is enough.
BothReceivedOne(r) == r.initiator_request_received \/ r.host_request_received

BothReceived(r) == r.initiator_request_received /\ r.host_request_received

Marked(r, m) ==
    IF m.body.is_initiator THEN [r EXCEPT !.initiator_request_received = TRUE]
    ELSE [r EXCEPT !.host_request_received = TRUE]

\* The request of connection c, with the pointers found for the ids of the pair.  Every
\* record of the pair is marked; initial_intro_sent is never set, so that each request of a
\* complete introduction sends both introductions again.
IntroductionRequested(s, m, initiating_connection, hosting_connection) ==
    LET S == sock[s]
        matching == {i \in DOMAIN introductions :
                        /\ introductions[i].initiator = initiating_connection
                        /\ introductions[i].host = hosting_connection}
        complete == {r \in {Marked(introductions[i], m) : i \in matching} : BothReceived(r)}
    IN  \E a \in _find_connection_by_id(S, initiating_connection),
           b \in _find_connection_by_id(S, hosting_connection) :
        \/ /\ complete = {} \/ Null \in {a, b} \/ ~(Dangling(S, a) \/ Dangling(S, b))
           /\ introductions' = [i \in DOMAIN introductions |->
                                   IF i \in matching THEN Marked(introductions[i], m)
                                   ELSE introductions[i]]
           /\ net' = net \cup UNION {_send_introduction(s, a, b, r) \cup _send_introduction(s, b, a, r) :
                                       r \in complete}
           /\ UNCHANGED sock
        \/ /\ complete # {} /\ Null \notin {a, b} /\ (Dangling(S, a) \/ Dangling(S, b))
           /\ Undefined(s) /\ UNCHANGED introductions

_handle_introduction_request(s, m) ==
    /\ Receives(s, m, "introduced_connection_request") /\ s = Introducer
    /\ \E pointer \in _find_connection(sock[s], m.from) :
        \/ \E c \in Pointed(sock[s], pointer) :
            /\ c.initiator_nonce = m.initiator_nonce
            /\ IF m.body.is_initiator THEN IntroductionRequested(s, m, c.id, m.body.remote_id)
               ELSE IntroductionRequested(s, m, m.body.remote_id, c.id)
        \/ Dangling(sock[s], pointer) /\ Undefined(s) /\ UNCHANGED introductions
    /\ UNCHANGED <<log, accepted, asked>>

\* The pending connection an introduction is for: the first that asked for the remote
\* id.  Whether it asked as the initiator or as the host is not looked at.
IntroductionFor(S, c, m) ==
    {p \in S.pending :
        /\ p.state = "requesting_introduction" /\ p.introducer = c.id
        /\ p.remote_client_id = m.body.remote_id
        /\ \A q \in S.pending :
            q.state = "requesting_introduction" /\ q.remote_client_id = p.remote_client_id
                => q.id <= p.id}

StartsPunching(p, m) ==
    [p EXCEPT !.initiator_nonce = m.body.initiator_nonce, !.host_nonce = m.body.host_nonce,
              !.possible_addresses = @ \cup {m.body.remote_address},
              !.state = "sending_punch_packets", !.state_send_retry_count = PunchRetryCount]

\* The connection to the introducer is used without a look whether it is there.
_handle_introduction(s, m) ==
    /\ Receives(s, m, "connection_introduction")
    /\ \E pointer \in _find_connection(sock[s], m.from) :
        \/ Pointed(sock[s], pointer) = {} /\ Undefined(s)
        \/ \E c \in Pointed(sock[s], pointer) : \E p \in IntroductionFor(sock[s], c, m) :
            /\ c.initiator_nonce = m.initiator_nonce
            /\ sock' = [sock EXCEPT ![s] = Replaced(@, p, StartsPunching(p, m))]
            /\ net' = net \cup _send_punch(s, StartsPunching(p, m))
    /\ UNCHANGED <<log, accepted, introductions, asked>>

\* Mutant: a punch with the initiator's nonce will do, whoever it is for.
PunchedByNonce(p, m) ==
    p.initiator_nonce = m.initiator_nonce /\ p.state = "sending_punch_packets"

Punched(p, m) ==
    /\ SameNonces(p, m) /\ p.state = "sending_punch_packets"
    /\ p.type = "introduced_connection_initiator"

\* Every initiator with the nonces starts the handshake with the sender.
_handle_punch(s, m) ==
    LET punched == {p \in sock[s].pending : Punched(p, m)}
        Starts(p) == [p EXCEPT !.state = "requesting_challenge_response", !.address = m.from,
                               !.state_send_retry_count = ChallengeRetryCount]
    IN  /\ Receives(s, m, "punch") /\ punched # {}
        /\ sock' = [sock EXCEPT ![s].pending = (@ \ punched) \cup {Starts(p) : p \in punched}]
        /\ net' = net \cup {_send_challenge_request(s, Starts(p)) : p \in punched}
        /\ UNCHANGED <<log, accepted, introductions, asked>>

Expects(p, m) ==
    /\ p.state = "sending_punch_packets" /\ p.type = "introduced_connection_host"
    /\ p.initiator_nonce = m.initiator_nonce

\* The challenge request for an introduced host.  The host nonce compared with the
\* pending connection's was not read from the packet: it may or may not be equal, and
\* when it is not the request is answered like any other.
IntroducedChallengeRequest(s, m) ==
    /\ Receives(s, m, "connect_challenge_request") /\ sock[s].allow_connections
    /\ \E p \in sock[s].pending :
        /\ Expects(p, m)
        /\ \A q \in sock[s].pending : Expects(q, m) => q.id <= p.id
        /\ sock' = [sock EXCEPT ![s] =
                        Replaced(@, p, [p EXCEPT !.address = m.from,
                                                 !.state = "awaiting_connect_request",
                                                 !.state_send_retry_count = 0])]
    /\ net' = net \cup {_send_connect_challenge_response(s, m.from, m.initiator_nonce)}
    /\ UNCHANGED <<log, accepted, introductions, asked>>
-----------------------------------------------------------------------------
(* The sweep of introduced connections that are not yet in the handshake. *)

IntroductionStates == {"requesting_introduction", "sending_punch_packets"}

\* Mutant: the punches are not counted.
SweepIntroducedUncounted(s, p) ==
    /\ sock[s].status = "open" /\ p.state \in IntroductionStates
    /\ p.state = "requesting_introduction" /\ p.state_send_retry_count = 0
    /\ sock' = [sock EXCEPT ![s].pending = @ \ {p}]
    /\ log' = Posted(log, s, p.id, "timed_out")
    /\ UNCHANGED <<net, accepted, introductions, asked>>

SweepIntroduced(s, p) ==
    LET q == [p EXCEPT !.state_send_retry_count = @ - 1]
        Swept(sent) == sock' = [sock EXCEPT ![s] = Replaced(@, p, q)] /\ net' = net \cup sent
    IN  /\ sock[s].status = "open" /\ p.state \in IntroductionStates
        /\ \/ /\ p.state_send_retry_count = 0
              /\ sock' = [sock EXCEPT ![s].pending = @ \ {p}]
              /\ log' = Posted(log, s, p.id, "timed_out")
              /\ UNCHANGED net
           \/ /\ p.state_send_retry_count > 0
              /\ \/ p.state = "sending_punch_packets" /\ Swept(_send_punch(s, q))
                 \/ /\ p.state = "requesting_introduction"
                    /\ \E pointer \in _find_connection_by_id(sock[s], p.introducer) :
                        \/ /\ ~Dangling(sock[s], pointer)
                           /\ Swept(_send_introduction_request(s, q, pointer))
                        \/ Dangling(sock[s], pointer) /\ Undefined(s)
              /\ UNCHANGED log
        /\ UNCHANGED <<accepted, introductions, asked>>
-----------------------------------------------------------------------------
\* The steps of TorqueSocket that introduced connections take part in.
HandshakeStep ==
    /\ \E s \in Sockets :
        \/ \E p \in sock[s].pending :
            \/ accept_connection_challenge(s, p)
            \/ accept_connection(s, p)
            \/ p.state \notin IntroductionStates /\ SweepPending(s, p)
        \/ \E allow \in BOOLEAN : set_allows_connections(s, allow)
        \/ \E m \in net : Deliver(s, m)
        \/ \E c \in sock[s].connections : SweepConnection(s, c)
        \/ PuzzleResult(s)
    /\ UNCHANGED <<introductions, asked>>

IntroNext ==
    \/ \E i \in Introduces : introduce_connection(i[1], i[2])
    \/ \E a \in Asks : connect_introduced(a)
    \/ \E s \in Sockets : \E m \in net :
        \/ _handle_introduction_request(s, m)
        \/ _handle_introduction(s, m)
        \/ _handle_punch(s, m)
        \/ IntroducedChallengeRequest(s, m)
    \/ \E s \in Sockets : \E p \in sock[s].pending : SweepIntroduced(s, p)
    \/ HandshakeStep

\* get_next_event keeps being called, so that each introduced connection is swept.
SweepOfIntroduced(s) ==
    \E p \in sock[s].pending :
        \/ SweepIntroduced(s, p)
        \/ /\ p.state \notin IntroductionStates /\ p.type # "connection_host"
           /\ SweepPending(s, p) /\ UNCHANGED <<introductions, asked>>

IntroSpec ==
    /\ IntroInit /\ [][IntroNext]_intro_vars
    /\ \A s \in Sockets : WF_intro_vars(SweepOfIntroduced(s))
-----------------------------------------------------------------------------
(* Properties. *)

IntroducedTypes == {"introduced_connection_initiator", "introduced_connection_host"}
IntroducedPending(s) == {p \in sock[s].pending : p.type \in IntroducedTypes}

\* A socket sends punch packets to an address only when the introducer's application has
\* introduced the two in these roles, and the application behind that address has asked for
\* it as well; the nonces are those of that introduction.
PunchesOnlyTheIntroduced ==
    \A s \in Sockets : \A p \in IntroducedPending(s) : p.state = "sending_punch_packets" =>
        \E i \in DOMAIN introductions : \E t \in p.possible_addresses :
            /\ SameNonces(p, introductions[i])
            /\ LET hosting == p.type = "introduced_connection_host"
                   initiator == IF hosting THEN t ELSE s
                   host == IF hosting THEN s ELSE t
               IN  /\ introductions[i].initiator = ConnectionId[initiator]
                   /\ introductions[i].host = ConnectionId[host]
                   /\ [socket |-> t, remote |-> s, is_host |-> ~hosting] \in asked

\* An introduced host waits for the socket it was introduced to, an introduced initiator
\* asks the host it was introduced to, and neither takes the other's part: nobody else's
\* punch or challenge request, nor a packet meant for the other end, makes them go on.
GoesOnWithTheIntroduced ==
    \A s \in Sockets : \A p \in IntroducedPending(s) : p.state \notin IntroductionStates =>
        /\ p.address \in p.possible_addresses
        /\ p.type = "introduced_connection_host" <=> p.state = "awaiting_connect_request"

\* An introduced connection never hangs: whatever the other two do, it is established,
\* given up or timed out on both sides.
IntroducedAttemptEnds ==
    \A s \in Sockets : []<>(Alive(s) => IntroducedPending(s) = {})

\* "this introduced connection has received a challenge request, response sent, awaiting
\* connect packet": the connect packet of its initiator has the nonces it awaits.  It does
\* not hold, the packet has the puzzle's nonce for the host nonce (README).
AwaitedRequestMatches ==
    \A s \in Sockets : \A p \in IntroducedPending(s) : \A m \in net :
        /\ p.state = "awaiting_connect_request"
        /\ m.type = "connect_request" /\ m.to = s /\ m.from = p.address
        /\ m.initiator_nonce = p.initiator_nonce
        => SameNonces(p, m)

\* A socket goes on when an introduction comes after the connection to the introducer is
\* gone.  It does not hold (README, further divergences).
SurvivesIntroduction == \A s \in Clients : sock[s].status # "undefined"
=============================================================================
