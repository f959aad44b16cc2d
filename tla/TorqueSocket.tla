---------------------------- MODULE TorqueSocket ----------------------------
(***************************************************************************)
(* torque_sockets/torque_socket.h: the two-phase handshake between sockets *)
(* and the life of pending and established connections.  The application  *)
(* calls connect, accept_connection_challenge, accept_connection,          *)
(* disconnect and set_allows_connections; get_next_event hands packets to  *)
(* the _handle_ functions and runs process_connections, whose timed parts  *)
(* (the sweep of pending and of established connections, the puzzle        *)
(* manager's tick, the puzzle results) are actions that time may enable in *)
(* any order.  Introductions are in Introduction, which extends this       *)
(* module, and the data packets of connections in TorqueConnection.        *)
(*                                                                         *)
(* A socket's address is its name.  Random values are numbered by who drew *)
(* them, so that no two of them are equal; the secret two sockets share is *)
(* the set of the two; what was encrypted is readable with the same key.   *)
(* The network keeps every packet ever sent and may deliver it at any time *)
(* and any number of times, or never.                                      *)
(***************************************************************************)
EXTENDS PuzzleManager, LookupTable, Sequences, FiniteSets

CONSTANTS
    Sockets,             \* the sockets, also their addresses
    ChallengeRetryCount, \* challenge_retry_count
    ConnectRetryCount,   \* connect_retry_count
    Targets,             \* the addresses each socket's application connects to
    MaxConnects,         \* bound: calls of connect, for each socket
    MaxRefreshes,        \* bound: refreshes of each socket's puzzle
    MaxRestarts,         \* bound: restarts of each socket's process, for each socket
    Doors,               \* the sockets whose application uses set_allows_connections
    Closers,             \* the sockets whose application calls disconnect
    Quitters,            \* the sockets whose application destroys them
    Losers               \* bound: the sockets whose connections may time out

ASSUME SocketAssumption ==
    /\ ChallengeRetryCount \in Nat /\ ConnectRetryCount \in Nat \ {0}
    /\ Targets \in [Sockets -> SUBSET Sockets] /\ MaxConnects \in [Sockets -> Nat]
    /\ MaxRefreshes \in Nat /\ MaxRestarts \in [Sockets -> Nat]
    /\ Doors \subseteq Sockets /\ Closers \subseteq Sockets /\ Quitters \subseteq Sockets
    /\ Losers \subseteq Sockets

VARIABLES
    sock,                \* the torque_socket of each address
    net,                 \* every packet sent so far
    log,                 \* history: the events posted for each connection id
    accepted             \* history: what each host agreed to in accept_connection

vars == <<sock, net, log, accepted>>

Unset == <<>>            \* a member the constructor leaves uninitialised

HostNonce(s, epoch, n) == <<s, epoch, n>>
InitiatorNonce(s, id, n) == <<s, sock[s].epoch, id, n>>
RandomSequence(s, id) == <<s, sock[s].epoch, id>>
compute_shared_secret_key(s, t) == {s, t}
compute_client_identity_token(s, addr, initiator_nonce) == <<s, addr, initiator_nonce>>

\* The one solution of a puzzle, and check_one_solution.
Solution(identity, initiator_nonce, host_nonce) == <<identity, initiator_nonce, host_nonce>>

NewSocket(s, epoch) ==
    [status |-> "open", epoch |-> epoch, next_connection_index |-> 1, connects |-> 0,
     allow_connections |-> TRUE, pending |-> {}, connections |-> {},
     id_table |-> NewTable, address_table |-> NewTable,
     puzzle_manager |-> NewManager(HostNonce(s, epoch, 1), HostNonce(s, epoch, 0)),
     refreshes |-> 0, requests |-> 0, solver |-> <<>>]

Init ==
    /\ sock = [s \in Sockets |-> NewSocket(s, 0)]
    /\ net = {}
    /\ log = [k \in {} |-> <<>>]
    /\ accepted = {}

\* A later state: the other sockets have connected to the host, in some order, and no
\* packet of that is under way any more.
ClientsOf(host) == Sockets \ {host}

AcceptOrder(host) == CHOOSE f \in [ClientsOf(host) -> 1 .. Cardinality(ClientsOf(host))] :
                        \A s, t \in ClientsOf(host) : f[s] = f[t] => s = t

\* The connection between a client and the host, as s, one of the two, has it.
Established(host, s, client) ==
    LET id == IF s = host THEN AcceptOrder(host)[client] ELSE 1
        t == IF s = host THEN client ELSE host
    IN  [id |-> id, is_initiator |-> s # host, address |-> t,
         initiator_nonce |-> <<client, 0, 1, 0>>, host_nonce |-> HostNonce(host, 0, 1),
         initial_send_sequence |-> <<s, 0, id>>,
         initial_recv_sequence |-> <<t, 0, IF s = host THEN 1 ELSE AcceptOrder(host)[client]>>,
         shared_secret |-> compute_shared_secret_key(s, t),
         cipher |-> [key |-> IF s = host THEN <<client, 0, 1, 0>> ELSE Unset,
                     init_vector |-> IF s = host THEN <<s, 0, id>> ELSE Unset]]

Connected(host, s) ==
    LET ends == {Established(host, s, client) :
                    client \in IF s = host THEN ClientsOf(host) ELSE {s}}
        Table(entries) == [entries |-> entries, disturbed |-> FALSE]
    IN  [NewSocket(s, 0) EXCEPT
            !.connections = ends, !.next_connection_index = Cardinality(ends) + 1,
            !.id_table = Table({[key |-> c.id, value |-> c.id] : c \in ends}),
            !.address_table = Table({[key |-> c.address, value |-> c.id] : c \in ends}),
            !.connects = IF s = host THEN 0 ELSE 1,
            !.requests = IF s = host THEN 0 ELSE 1,
            !.puzzle_manager.current_nonce_table =
                IF s = host THEN {c.initiator_nonce : c \in ends} ELSE {}]

ConnectedInit(host) ==
    /\ sock = [s \in Sockets |-> Connected(host, s)]
    /\ net = {}
    /\ log = [k \in {<<s, 0, 1>> : s \in ClientsOf(host)}
                        \cup {<<host, 0, AcceptOrder(host)[t]>> : t \in ClientsOf(host)} |->
                  IF k[1] = host THEN <<"requested", "established">>
                  ELSE <<"challenge_response", "established">>]
    /\ accepted = {[host |-> host, connection |-> c] : c \in Connected(host, host).connections}
-----------------------------------------------------------------------------
(* Packets. *)

Packet(type, s, t, initiator_nonce, host_nonce, body) ==
    [type |-> type, from |-> s, to |-> t, initiator_nonce |-> initiator_nonce,
     host_nonce |-> host_nonce, body |-> body]

NoBody == [empty |-> TRUE]

_send_challenge_request(s, p) ==
    Packet("connect_challenge_request", s, p.address, p.initiator_nonce, p.host_nonce, NoBody)

_send_connect_challenge_response(s, addr, initiator_nonce) ==
    Packet("connect_challenge_response", s, addr, initiator_nonce,
           sock[s].puzzle_manager.current_nonce,
           [identity |-> compute_client_identity_token(s, addr, initiator_nonce)])

_send_connect_request(s, p) ==
    Packet("connect_request", s, p.address, p.initiator_nonce, p.host_nonce,
           [identity |-> p.client_identity, solution |-> p.puzzle_solution, public_key |-> s,
            key |-> p.symmetric_key, sequence |-> p.initial_send_sequence,
            encrypted_by |-> p.shared_secret])

\* Mutant: the host sends the sequence it received.
send_connect_accept_recv(s, c) ==
    Packet("connect_accept", s, c.address, c.initiator_nonce, c.host_nonce,
           [sequence |-> c.initial_recv_sequence, init_vector |-> c.cipher.init_vector,
            encrypted_by |-> c.shared_secret])

_send_connect_accept(s, c) ==
    Packet("connect_accept", s, c.address, c.initiator_nonce, c.host_nonce,
           [sequence |-> c.initial_send_sequence, init_vector |-> c.cipher.init_vector,
            encrypted_by |-> c.shared_secret])

_send_connect_reject(s, addr, initiator_nonce, host_nonce) ==
    Packet("connect_reject", s, addr, initiator_nonce, host_nonce, NoBody)

DisconnectPacket(s, c) ==
    Packet("disconnect", s, c.address, c.initiator_nonce, c.host_nonce,
           [encrypted_by |-> c.shared_secret])

Receives(s, m, type) == sock[s].status = "open" /\ m.to = s /\ m.type = type

\* _event_queue.post_event, in the history of the connection id.
Posted(l, s, id, event) ==
    LET k == <<s, sock[s].epoch, id>>
    IN  [j \in DOMAIN l \cup {k} |->
            IF j # k THEN l[j] ELSE IF k \in DOMAIN l THEN Append(l[k], event) ELSE <<event>>]

\* History: the application's disconnect has missed the connection; noted once in a row.
CloseMissed(s, id) ==
    LET l == log[<<s, sock[s].epoch, id>>]
    IN  IF l[Len(l)] = "close_missed" THEN log ELSE Posted(log, s, id, "close_missed")
-----------------------------------------------------------------------------
(* The lists and tables of a socket S. *)

\* The list has its newest connection first, and ids are handed out in order: the
\* first pending connection for an address is the one with the largest id.
_find_pending_connection(S, addr) ==
    {p \in S.pending : p.address = addr /\ \A q \in S.pending : q.address = addr => q.id <= p.id}

\* Mutant: the changed record is added beside the old one.
ReplacedByCopy(S, p, q) == [S EXCEPT !.pending = @ \cup {q}]

Replaced(S, p, q) == [S EXCEPT !.pending = (@ \ {p}) \cup {q}]

\* The pointers that either lookup may return.  A connection's id stands for its pointer.
_find_connection(S, addr) == find(S.address_table, addr)
_find_connection_by_id(S, id) == find(S.id_table, id)

Pointed(S, pointer) == {c \in S.connections : c.id = pointer}

\* The connection was deleted and an entry for it is still there.
Dangling(S, pointer) == pointer # Null /\ Pointed(S, pointer) = {}

_add_connection(S, c) ==
    [S EXCEPT !.connections = @ \cup {c},
              !.id_table = insert(@, c.id, c.id),
              !.address_table = insert(@, c.address, c.id)]

\* Mutant: the connection leaves the tables and stays in the list.
remove_connection_from_tables(S, c) ==
    {[S EXCEPT !.id_table = I, !.address_table = L] :
        I \in remove(S.id_table, c.id), L \in remove(S.address_table, c.address)}

\* The sockets that may be left: each table may miss the entry, and the one by address
\* may give up another connection's to the same address.
_remove_connection(S, c) ==
    {[S EXCEPT !.connections = @ \ {c}, !.id_table = left[1], !.address_table = left[2]] :
        left \in remove(S.id_table, c.id) \X remove(S.address_table, c.address)}
-----------------------------------------------------------------------------
(* The application's calls. *)

connect(s, t) ==
    LET S == sock[s]
        id == S.next_connection_index
        p == [id |-> id, type |-> "connection_initiator",
              state |-> "requesting_challenge_response", address |-> t,
              initiator_nonce |-> InitiatorNonce(s, id, 0), host_nonce |-> Unset,
              initial_send_sequence |-> RandomSequence(s, id), initial_recv_sequence |-> Unset,
              shared_secret |-> {}, symmetric_key |-> Unset, init_vector |-> Unset,
              client_identity |-> Unset, puzzle_solution |-> Unset, puzzle_request_index |-> 0,
              puzzle_retried |-> FALSE, state_send_retry_count |-> ChallengeRetryCount,
              requests_sent |-> 0]
    IN  /\ S.status = "open" /\ S.connects < MaxConnects[s]
        /\ sock' = [sock EXCEPT ![s].pending = @ \cup {p}, ![s].next_connection_index = id + 1,
                                ![s].connects = @ + 1]
        /\ net' = net \cup {_send_challenge_request(s, p)}
        /\ UNCHANGED <<log, accepted>>

\* The request to the puzzle solver carries the nonces and the identity.
accept_connection_challenge(s, p) ==
    LET S == sock[s]
        request == [index |-> S.requests,
                    solution |-> Solution(p.client_identity, p.initiator_nonce, p.host_nonce)]
        q == [p EXCEPT !.state = "computing_puzzle_solution", !.state_send_retry_count = 0,
                       !.puzzle_request_index = S.requests]
    IN  /\ S.status = "open" /\ p.state = "awaiting_local_challenge_accept"
        /\ sock' = [sock EXCEPT ![s] = [Replaced(S, p, q) EXCEPT !.requests = @ + 1,
                                                                !.solver = Append(@, request)]]
        /\ UNCHANGED <<net, log, accepted>>

accept_connection(s, p) ==
    LET S == sock[s]
        c == [id |-> p.id, is_initiator |-> FALSE, address |-> p.address,
              initiator_nonce |-> p.initiator_nonce, host_nonce |-> p.host_nonce,
              initial_send_sequence |-> p.initial_send_sequence,
              initial_recv_sequence |-> p.initial_recv_sequence,
              shared_secret |-> p.shared_secret,
              cipher |-> [key |-> p.symmetric_key, init_vector |-> p.init_vector]]
    IN  /\ S.status = "open" /\ p.state = "awaiting_local_accept"
        /\ sock' = [sock EXCEPT ![s] = _add_connection([S EXCEPT !.pending = @ \ {p}], c)]
        /\ net' = net \cup {_send_connect_accept(s, c)}
        /\ log' = Posted(log, s, p.id, "established")
        /\ accepted' = accepted \cup {[host |-> s, connection |-> c]}

\* A null or dangling pointer is used: nothing is known of the process from here on.
Undefined(s) == sock' = [sock EXCEPT ![s].status = "undefined"] /\ UNCHANGED net

CloseConnection(s, S, c, sent) ==
    \E T \in _remove_connection(S, c) :
        /\ sock' = [sock EXCEPT ![s] = T]
        /\ net' = net \cup sent \cup {DisconnectPacket(s, c)}

\* A connected instance tells the other side, a pending one is only forgotten, and nothing
\* happens to a connection that the table misses.  S is the socket s after the caller's
\* own changes, and `sent` what the caller has sent.
_disconnect(s, S, id, sent) ==
    \E pointer \in _find_connection_by_id(S, id) :
        \/ \E c \in Pointed(S, pointer) : CloseConnection(s, S, c, sent)
        \/ /\ pointer = Null
           /\ sock' = [sock EXCEPT ![s] = [S EXCEPT !.pending = {p \in @ : p.id # id}]]
           /\ net' = net \cup sent
        \/ Dangling(S, pointer) /\ Undefined(s)

Has(S, id) == \E x \in S.pending \cup S.connections : x.id = id

\* The application may use any id it was ever given.  The history notes that it closed the
\* connection, or once that it tried to.
disconnect(s, id) ==
    /\ sock[s].status = "open" /\ s \in Closers
    /\ _disconnect(s, sock[s], id, {})
    /\ \/ ~Has(sock[s], id) /\ UNCHANGED log
       \/ Has(sock[s], id) /\ ~Has(sock'[s], id) /\ log' = Posted(log, s, id, "closed")
       \/ Has(sock[s], id) /\ Has(sock'[s], id) /\ log' = CloseMissed(s, id)
    /\ UNCHANGED accepted

set_allows_connections(s, allow) ==
    /\ sock[s].status = "open" /\ s \in Doors /\ allow # sock[s].allow_connections
    /\ sock' = [sock EXCEPT ![s].allow_connections = allow]
    /\ UNCHANGED <<net, log, accepted>>

\* ~torque_socket disconnects the connections one after the other, each by its id.
Destroy(s) ==
    /\ sock[s].status = "open" /\ s \in Quitters
    /\ sock' = [sock EXCEPT ![s].status = "closing"]
    /\ UNCHANGED <<net, log, accepted>>

\* One turn of its loop: the table that misses the first connection of the list misses it
\* in every turn to come.  Which one is the first is left open.
CloseNext(s) ==
    /\ sock[s].status = "closing"
    /\ \/ sock[s].connections = {} /\ sock' = [sock EXCEPT ![s].status = "closed"] /\ UNCHANGED net
       \/ \E c \in sock[s].connections :
            \/ /\ c.id \in _find_connection_by_id(sock[s], c.id)
               /\ CloseConnection(s, sock[s], c, {})
            \/ /\ Null \in _find_connection_by_id(sock[s], c.id)
               /\ sock' = [sock EXCEPT ![s].status = "hung"] /\ UNCHANGED net
    /\ UNCHANGED <<log, accepted>>

\* The process ends without a word and starts again at the same address.
Restart(s) ==
    /\ sock[s].epoch < MaxRestarts[s]
    /\ sock' = [sock EXCEPT ![s] = [NewSocket(s, @.epoch + 1) EXCEPT !.connects = sock[s].connects]]
    /\ UNCHANGED <<net, log, accepted>>
-----------------------------------------------------------------------------
(* The packet handlers. *)

SameNonces(x, m) == x.initiator_nonce = m.initiator_nonce /\ x.host_nonce = m.host_nonce

_handle_connect_challenge_request(s, m) ==
    /\ Receives(s, m, "connect_challenge_request")
    /\ sock[s].allow_connections
    /\ net' = net \cup {_send_connect_challenge_response(s, m.from, m.initiator_nonce)}
    /\ UNCHANGED <<sock, log, accepted>>

_handle_connect_challenge_response(s, m) ==
    /\ Receives(s, m, "connect_challenge_response")
    /\ \E p \in _find_pending_connection(sock[s], m.from) :
        LET q == [p EXCEPT !.state = "awaiting_local_challenge_accept",
                           !.client_identity = m.body.identity, !.host_nonce = m.host_nonce,
                           !.shared_secret = compute_shared_secret_key(s, m.from),
                           !.symmetric_key = p.initiator_nonce, !.state_send_retry_count = 0]
        IN  /\ p.state = "requesting_challenge_response"
            /\ p.initiator_nonce = m.initiator_nonce
            /\ sock' = [sock EXCEPT ![s] = Replaced(@, p, q)]
            /\ log' = Posted(log, s, p.id, "challenge_response")
    /\ UNCHANGED <<net, accepted>>

\* A connect request goes on to the puzzle check unless it repeats one that waits for
\* the application, connections are not allowed and none that was introduced is
\* awaited, or the identity is not the sender's.
Considered(s, m) ==
    /\ \A p \in _find_pending_connection(sock[s], m.from) :
        ~(p.state = "awaiting_local_accept" /\ SameNonces(p, m))
    /\ \/ sock[s].allow_connections
       \/ \E p \in _find_pending_connection(sock[s], m.from) : p.state = "awaiting_connect_request"
    /\ m.body.identity = compute_client_identity_token(s, m.from, m.initiator_nonce)

SolutionResult(s, m) ==
    check_solution(sock[s].puzzle_manager, m.initiator_nonce, m.host_nonce, TRUE,
        m.body.solution = Solution(m.body.identity, m.initiator_nonce, m.host_nonce))

\* The accept is sent again for a connection that has the request's nonces.
AcceptAgain(s, m, existing) ==
    {_send_connect_accept(s, c) : c \in {e \in existing : SameNonces(e, m)}}

IgnoreConnectRequest(s, m, existing) ==
    /\ ~Considered(s, m)
    /\ net' = net \cup AcceptAgain(s, m, existing)
    /\ UNCHANGED <<sock, log, accepted>>

RejectConnectRequest(s, m, existing) ==
    /\ Considered(s, m) /\ SolutionResult(s, m) # "success"
    /\ net' = net \cup AcceptAgain(s, m, existing)
                  \cup {_send_connect_reject(s, m.from, m.initiator_nonce, m.host_nonce)}
    /\ UNCHANGED <<sock, log, accepted>>

\* check_solution has used the nonce up before the pending connection for another
\* attempt at this address, or one of this socket's own, makes the handler return.
DropConnectRequest(s, m, existing) ==
    /\ Considered(s, m) /\ SolutionResult(s, m) = "success"
    /\ \E p \in _find_pending_connection(sock[s], m.from) : ~SameNonces(p, m)
    /\ sock' = [sock EXCEPT ![s].puzzle_manager = AddNonce(@, m.initiator_nonce, m.host_nonce)]
    /\ net' = net \cup AcceptAgain(s, m, existing)
    /\ UNCHANGED <<log, accepted>>

\* Mutant: only a connection with the request's nonces is replaced.
ReplaceSameNonces(s, m, T, existing) ==
    LET sent == AcceptAgain(s, m, existing)
        same == {e \in existing : SameNonces(e, m)}
    IN  \/ same = {} /\ sock' = [sock EXCEPT ![s] = T] /\ net' = net \cup sent
        \/ \E c \in same : _disconnect(s, T, c.id, sent)

\* The connection found by the address is disconnected by its id.
ReplaceExisting(s, m, T, existing) ==
    LET sent == AcceptAgain(s, m, existing)
    IN  \/ existing = {} /\ sock' = [sock EXCEPT ![s] = T] /\ net' = net \cup sent
        \/ \E c \in existing : _disconnect(s, T, c.id, sent)

\* A new pending connection takes the place of the connection found for that address,
\* which ends without an event on this side.
TakeConnectRequest(s, m, existing) ==
    LET S == sock[s]
        id == S.next_connection_index
        p == [id |-> id, type |-> "connection_host",
              state |-> "awaiting_local_accept", address |-> m.from,
              initiator_nonce |-> m.initiator_nonce, host_nonce |-> m.host_nonce,
              initial_send_sequence |-> RandomSequence(s, id),
              initial_recv_sequence |-> m.body.sequence,
              shared_secret |-> compute_shared_secret_key(s, m.body.public_key),
              symmetric_key |-> m.body.key, init_vector |-> RandomSequence(s, id),
              client_identity |-> Unset, puzzle_solution |-> Unset, puzzle_request_index |-> 0,
              puzzle_retried |-> FALSE, state_send_retry_count |-> 0, requests_sent |-> 0]
        T == [S EXCEPT !.puzzle_manager = AddNonce(@, m.initiator_nonce, m.host_nonce),
                       !.next_connection_index = id + 1, !.pending = @ \cup {p}]
    IN  /\ Considered(s, m) /\ SolutionResult(s, m) = "success"
        /\ _find_pending_connection(S, m.from) = {}
        /\ m.body.encrypted_by = compute_shared_secret_key(s, m.body.public_key)
        /\ ReplaceExisting(s, m, T, existing)
        /\ log' = Posted(log, s, id, "requested")
        /\ UNCHANGED accepted

_handle_connect_request(s, m) ==
    /\ Receives(s, m, "connect_request")
    /\ \E pointer \in _find_connection(sock[s], m.from) :
        LET existing == Pointed(sock[s], pointer) IN
        \/ Dangling(sock[s], pointer) /\ Undefined(s) /\ UNCHANGED <<log, accepted>>
        \/ /\ ~Dangling(sock[s], pointer)
           /\ \/ IgnoreConnectRequest(s, m, existing)
              \/ RejectConnectRequest(s, m, existing)
              \/ DropConnectRequest(s, m, existing)
              \/ TakeConnectRequest(s, m, existing)

\* Mutant: an accept from the address will do.
AnyAcceptMatches(p, m) == p.state = "requesting_connection"

AcceptMatches(p, m) == p.state = "requesting_connection" /\ SameNonces(p, m)

\* The cipher made from the key and the init vector is not given to the connection.
_handle_connect_accept(s, m) ==
    /\ Receives(s, m, "connect_accept")
    /\ \E p \in _find_pending_connection(sock[s], m.from) :
        LET c == [id |-> p.id, is_initiator |-> TRUE, address |-> p.address,
                  initiator_nonce |-> p.initiator_nonce, host_nonce |-> p.host_nonce,
                  initial_send_sequence |-> p.initial_send_sequence,
                  initial_recv_sequence |-> m.body.sequence,
                  shared_secret |-> p.shared_secret,
                  cipher |-> [key |-> Unset, init_vector |-> Unset]]
        IN  /\ AcceptMatches(p, m)
            /\ m.body.encrypted_by = p.shared_secret
            /\ sock' = [sock EXCEPT ![s] = _add_connection([sock[s] EXCEPT !.pending = @ \ {p}], c)]
            /\ log' = Posted(log, s, p.id, "established")
    /\ UNCHANGED <<net, accepted>>

\* The only reason sent is reason_failed_puzzle: the first time the attempt starts
\* over with a new nonce, the second time it is over.
_handle_connect_reject(s, m) ==
    /\ Receives(s, m, "connect_reject")
    /\ \E p \in _find_pending_connection(sock[s], m.from) :
        LET q == [p EXCEPT !.puzzle_retried = TRUE, !.state = "requesting_challenge_response",
                           !.state_send_retry_count = ChallengeRetryCount,
                           !.initiator_nonce = InitiatorNonce(s, p.id, 1)]
        IN  /\ p.state \in {"requesting_challenge_response", "requesting_connection"}
            /\ SameNonces(p, m)
            /\ \/ /\ ~p.puzzle_retried
                  /\ sock' = [sock EXCEPT ![s] = Replaced(@, p, q)]
                  /\ net' = net \cup {_send_challenge_request(s, q)}
                  /\ UNCHANGED log
               \/ /\ p.puzzle_retried
                  /\ sock' = [sock EXCEPT ![s].pending = @ \ {p}]
                  /\ log' = Posted(log, s, p.id, "disconnected")
                  /\ UNCHANGED net
    /\ UNCHANGED accepted

\* For a pending connection the handler reads the index of the null connection.
_handle_disconnect(s, m) ==
    /\ Receives(s, m, "disconnect")
    /\ \E pointer \in _find_connection(sock[s], m.from) :
        \/ \E c \in Pointed(sock[s], pointer) : \E T \in _remove_connection(sock[s], c) :
            /\ SameNonces(c, m) /\ m.body.encrypted_by = c.shared_secret
            /\ sock' = [sock EXCEPT ![s] = T]
            /\ log' = Posted(log, s, c.id, "disconnected")
            /\ UNCHANGED net
        \/ /\ \/ Dangling(sock[s], pointer)
              \/ /\ pointer = Null
                 /\ \E p \in _find_pending_connection(sock[s], m.from) : SameNonces(p, m)
           /\ Undefined(s) /\ UNCHANGED log
    /\ UNCHANGED accepted
-----------------------------------------------------------------------------
(* The timed parts of process_connections. *)

\* Mutant: the retries are not counted.
SweepPendingUncounted(s, p) ==
    /\ sock[s].status = "open"
    /\ \/ /\ p.state_send_retry_count = 0
          /\ sock' = [sock EXCEPT ![s].pending = @ \ {p}]
          /\ log' = Posted(log, s, p.id, "timed_out")
          /\ UNCHANGED net
       \/ /\ p.state_send_retry_count > 0
          /\ net' = net \cup {_send_challenge_request(s, p)}
          /\ UNCHANGED <<sock, log>>
    /\ UNCHANGED accepted

\* A pending connection whose interval is over has timed out, or is asked for again
\* in the states that repeat a packet.
SweepPending(s, p) ==
    LET q == [p EXCEPT !.state_send_retry_count = @ - 1] IN
    /\ sock[s].status = "open"
    /\ \/ /\ p.state_send_retry_count = 0
          /\ sock' = [sock EXCEPT ![s].pending = @ \ {p}]
          /\ log' = Posted(log, s, p.id, "timed_out")
          /\ UNCHANGED net
       \/ /\ p.state_send_retry_count > 0
          /\ sock' = [sock EXCEPT ![s] = Replaced(@, p, q)]
          /\ net' = net \cup {_send_challenge_request(s, q) :
                                x \in {y \in {p} : y.state = "requesting_challenge_response"}}
          /\ UNCHANGED log
    /\ UNCHANGED accepted

\* check_timeout says that the other side has been silent for too long.
SweepConnection(s, c) ==
    /\ sock[s].status = "open" /\ s \in Losers
    /\ \E T \in _remove_connection(sock[s], c) : sock' = [sock EXCEPT ![s] = T]
    /\ log' = Posted(log, s, c.id, "timed_out")
    /\ UNCHANGED <<net, accepted>>

\* The puzzle manager's tick finds its nonce too old.
tick(s) ==
    LET S == sock[s] IN
    /\ S.status = "open" /\ S.refreshes < MaxRefreshes
    /\ sock' = [sock EXCEPT ![s].refreshes = @ + 1,
                            ![s].puzzle_manager = Refresh(@, HostNonce(s, S.epoch, S.refreshes + 2))]
    /\ UNCHANGED <<net, log, accepted>>

\* The solver, which answers in order, has a result; it may be nobody's any more.
PuzzleResult(s) ==
    LET S == sock[s]
        result == Head(S.solver)
        T == [S EXCEPT !.solver = Tail(@)]
        waiting == {p \in S.pending : /\ p.state = "computing_puzzle_solution"
                                      /\ p.puzzle_request_index = result.index}
        Solved(p) == [p EXCEPT !.state = "requesting_connection", !.requests_sent = @ + 1,
                               !.puzzle_solution = result.solution]
    IN  /\ S.status = "open" /\ S.solver # <<>>
        /\ \/ waiting = {} /\ sock' = [sock EXCEPT ![s] = T]
           \/ \E p \in waiting : sock' = [sock EXCEPT ![s] = Replaced(T, p, Solved(p))]
        /\ net' = net \cup {_send_connect_request(s, Solved(p)) : p \in waiting}
        /\ UNCHANGED <<log, accepted>>
-----------------------------------------------------------------------------
Deliver(s, m) ==
    \/ _handle_connect_challenge_request(s, m)
    \/ _handle_connect_challenge_response(s, m)
    \/ _handle_connect_request(s, m)
    \/ _handle_connect_accept(s, m)
    \/ _handle_connect_reject(s, m)
    \/ _handle_disconnect(s, m)

Next ==
    \E s \in Sockets :
        \/ \E t \in Targets[s] \ {s} : connect(s, t)
        \/ \E p \in sock[s].pending : accept_connection_challenge(s, p)
        \/ \E p \in sock[s].pending : accept_connection(s, p)
        \/ \E id \in 1 .. sock[s].next_connection_index - 1 : disconnect(s, id)
        \/ \E allow \in BOOLEAN : set_allows_connections(s, allow)
        \/ Destroy(s)
        \/ CloseNext(s)
        \/ Restart(s)
        \/ \E m \in net : Deliver(s, m)
        \/ \E p \in sock[s].pending : SweepPending(s, p)
        \/ \E c \in sock[s].connections : SweepConnection(s, c)
        \/ tick(s)
        \/ PuzzleResult(s)

Spec == Init /\ [][Next]_vars

\* get_next_event keeps being called, so that a pending connection this socket
\* started is swept until it is gone.  One that a host made has no interval set.
SweepAttempt(s) ==
    \E p \in sock[s].pending : p.type = "connection_initiator" /\ SweepPending(s, p)

FairSpec == Spec /\ \A s \in Sockets : WF_vars(SweepAttempt(s))
-----------------------------------------------------------------------------
(* Properties. *)

Alive(s) == sock[s].status = "open"
Terminal == {"timed_out", "disconnected", "closed"}
Key(s, x) == <<s, sock[s].epoch, x.id>>
EventsOf(k) == IF k \in DOMAIN log THEN log[k] ELSE <<>>

\* Type correctness: the members of each pending connection that its state relies on
\* are set, and ids are unique, among pending and established connections alike.
TypeOK ==
    \A s \in Sockets : LET S == sock[s] IN
        /\ S.status \in {"open", "closing", "closed", "hung", "undefined"}
        /\ S.next_connection_index \in Nat /\ S.connects \in 0 .. MaxConnects[s]
        /\ \A p \in S.pending :
            /\ p.id \in 1 .. S.next_connection_index - 1
            /\ p.state_send_retry_count \in 0 .. ChallengeRetryCount
            /\ p.type = "connection_host" <=> p.state = "awaiting_local_accept"
            /\ p.state # "requesting_challenge_response" =>
                p.host_nonce # Unset /\ p.shared_secret = compute_shared_secret_key(s, p.address)
        /\ \A c \in S.connections : c.id \in 1 .. S.next_connection_index - 1
        /\ \A x, y \in S.pending \cup S.connections : x.id = y.id => x = y

\* An initiator that reports a connection has one the host's application accepted:
\* whatever was lost, repeated or kept from earlier attempts, the host made the same
\* connection, and each side expects the sequence numbers the other one starts from.
EstablishedMeansAccepted ==
    \A s \in Sockets : \A c \in sock[s].connections :
        c.is_initiator =>
            \E a \in accepted :
                /\ a.host = c.address /\ a.connection.address = s
                /\ SameNonces(a.connection, c)
                /\ a.connection.initial_send_sequence = c.initial_recv_sequence
                /\ a.connection.initial_recv_sequence = c.initial_send_sequence
                /\ a.connection.shared_secret = c.shared_secret

\* The work done for one puzzle opens one connection at the most: no copy of a connect
\* request, before or after a refresh, makes the host accept its nonces a second time.
SolutionOpensOnce ==
    \A a, b \in accepted :
        a.host = b.host /\ SameNonces(a.connection, b.connection) => a = b

\* A host never has two connections, or one and a request for another, to one address
\* that did not also answer this host: the newer request has replaced the older one.  That
\* is as long as no removal has disturbed the tables that are to find the older one.
HostKeepsOne ==
    \A s \in Sockets :
        LET S == sock[s]
            hosted(t) == {x \in S.connections : ~x.is_initiator /\ x.address = t}
                             \cup {p \in S.pending : p.type = "connection_host" /\ p.address = t}
        IN  S.connects = 0 /\ ~S.id_table.disturbed /\ ~S.address_table.disturbed =>
                \A t \in Sockets : Cardinality(hosted(t)) <= 1

\* What the events say of an id is what the socket does with it.  An id is established
\* at most once and after a request or a challenge; it ends at most once, nothing is
\* heard of it after that, and the connection is gone; one that is pending is not
\* reported established, and one that is established was.  The application's disconnect
\* ends a connection, unless a removal has disturbed the table of ids.
EventsTellTheTruth ==
    /\ \A k \in DOMAIN log : \A i \in DOMAIN log[k] :
        /\ log[k][i] \in Terminal => i = Len(log[k])
        /\ log[k][i] = "established" =>
            i > 1 /\ \A j \in 1 .. i - 1 : log[k][j] \in {"requested", "challenge_response"}
    /\ \A s \in Sockets :
        /\ \A p \in sock[s].pending :
            \A i \in DOMAIN EventsOf(Key(s, p)) :
                EventsOf(Key(s, p))[i] \in {"requested", "challenge_response"}
        /\ \A c \in sock[s].connections :
            EventsOf(Key(s, c)) # <<>> /\
            LET last == EventsOf(Key(s, c))[Len(EventsOf(Key(s, c)))] IN
            \/ last = "established"
            \/ last = "close_missed" /\ sock[s].id_table.disturbed

\* Every attempt of an initiator ends: it is established, closed, rejected or timed out,
\* whatever the host and the network do.
EveryAttemptEnds ==
    \A s \in Sockets :
        []<>(Alive(s) => \A p \in sock[s].pending : p.type # "connection_initiator")

\* "quick lookup table for active connections by address" (torque_socket.h): what the
\* table finds is an active connection.
\* It does not hold (README, further divergences).
LookupFindsActive ==
    \A s, t \in Sockets : \A pointer \in _find_connection(sock[s], t) : ~Dangling(sock[s], pointer)

\* "gracefully close all the connections on this torque_socket": the destructor comes to
\* its end.  It does not hold (README, further divergences).
DestructorEnds == \A s \in Sockets : sock[s].status # "hung"

\* "disconnect_packet [...] sent to notify a host that the specified connection has
\* terminated or that the requested connection is politely rejected": a socket that
\* receives one goes on.  It does not hold (README, further divergences).
SurvivesDisconnect == \A s \in Sockets : sock[s].status # "undefined"

\* "Number of times to send connect requests before giving up": an attempt that times
\* out while it requests the connection has sent that many.  It does not
\* hold (README, further divergences).
AskedBeforeGivingUp ==
    [][\A s \in Sockets : \A p \in sock[s].pending :
        SweepPending(s, p) /\ p.state = "requesting_connection" /\ p.state_send_retry_count = 0
            => p.requests_sent >= ConnectRetryCount]_vars

\* "A client puzzle submission failed": a host that accepted a connect request does not
\* reject it as well.  It does not hold (README, further divergences).
AcceptedIsNotRejected ==
    \A m, n \in net :
        m.type = "connect_accept" /\ n.type = "connect_reject" => ~SameNonces(m, n)

\* "the key2 value becomes the IV of the symmetric cipher": the two ends of an
\* established connection have the same cipher.  It does not hold (README, further divergences).
CiphersAgree ==
    \A s \in Sockets : \A c \in sock[s].connections :
        c.is_initiator => \E a \in accepted : SameNonces(a.connection, c) /\ a.connection.cipher = c.cipher
=============================================================================
