------------------------- MODULE TorqueSocketProofs -------------------------
(***************************************************************************)
(* Theorems about TorqueSocket, for any sockets, attempts, retries,        *)
(* refreshes and restarts: type correctness, that a solved puzzle opens    *)
(* one connection, that an initiator's connection is one the host          *)
(* accepted, that a host has one connection to an address while its lookup  *)
(* tables are in order, and that the events tell what happens to a         *)
(* connection.                                                             *)
(***************************************************************************)
EXTENDS TorqueSocket, FiniteSetTheorems, SequenceTheorems, TLAPS

SocketFields ==
    {"status", "epoch", "next_connection_index", "connects", "allow_connections", "pending",
     "connections", "id_table", "address_table", "puzzle_manager", "refreshes", "requests",
     "solver"}

ManagerFields == {"current_nonce", "last_nonce", "current_nonce_table", "last_nonce_table"}

PendingFields ==
    {"id", "type", "state", "address", "initiator_nonce", "host_nonce", "initial_send_sequence",
     "initial_recv_sequence", "shared_secret", "symmetric_key", "init_vector", "client_identity",
     "puzzle_solution", "puzzle_request_index", "puzzle_retried", "state_send_retry_count",
     "requests_sent"}

\* The nonce was drawn by t, for the attempt that starts from this sequence.
Numbered(t, nonce, sequence) == nonce[1] = t /\ sequence = <<nonce[1], nonce[2], nonce[3]>>
-----------------------------------------------------------------------------
(* One socket. *)

Statuses == {"open", "closing", "closed", "hung", "undefined"}

ShapeOK(s, S) ==
    /\ DOMAIN S = SocketFields /\ S.status \in Statuses
    /\ S.epoch \in Nat /\ S.next_connection_index \in Nat \ {0} /\ S.refreshes \in Nat
    /\ S.connects \in 0 .. MaxConnects[s]
    /\ DOMAIN S.puzzle_manager = ManagerFields
    /\ S.puzzle_manager.current_nonce = HostNonce(s, S.epoch, S.refreshes + 1)
    /\ S.puzzle_manager.last_nonce = HostNonce(s, S.epoch, S.refreshes)

\* A pending connection, by its state and by who started it.
PendingOK(s, epoch, next, p) ==
    /\ DOMAIN p = PendingFields
    /\ p.id \in 1 .. next - 1 /\ p.address \in Sockets \ {s}
    /\ p.type \in {"connection_initiator", "connection_host"}
    /\ p.type = "connection_host" <=> p.state = "awaiting_local_accept"
    /\ p.state_send_retry_count \in 0 .. ChallengeRetryCount
    /\ p.state # "requesting_challenge_response" =>
        p.host_nonce # Unset /\ p.shared_secret = compute_shared_secret_key(s, p.address)
    /\ p.type = "connection_initiator" =>
        /\ p.initial_send_sequence = <<s, epoch, p.id>>
        /\ Numbered(s, p.initiator_nonce, p.initial_send_sequence)
    /\ p.type = "connection_host" =>
        /\ p.state_send_retry_count = 0
        /\ Numbered(p.address, p.initiator_nonce, p.initial_recv_sequence)

ConnectionOK(s, next, c) ==
    /\ c.id \in 1 .. next - 1 /\ c.address \in Sockets \ {s} /\ c.is_initiator \in BOOLEAN
    /\ c.is_initiator => Numbered(s, c.initiator_nonce, c.initial_send_sequence)

IdsOK(S) ==
    /\ \A x, y \in S.pending : x.id = y.id => x = y
    /\ \A x, y \in S.connections : x.id = y.id => x = y
    /\ \A p \in S.pending, c \in S.connections : p.id # c.id

SocketOK(s, S) ==
    /\ ShapeOK(s, S)
    /\ \A p \in S.pending : PendingOK(s, S.epoch, S.next_connection_index, p)
    /\ \A c \in S.connections : ConnectionOK(s, S.next_connection_index, c)
    /\ IdsOK(S)

LocalInv == DOMAIN sock = Sockets /\ \A s \in Sockets : SocketOK(s, sock[s])
-----------------------------------------------------------------------------
(* The puzzles. *)

\* The host will not take these nonces again: the puzzle is out of date, or the
\* initiator's nonce is in the table of the puzzle's.
Used(s, S, initiator_nonce, host_nonce) ==
    /\ host_nonce \in {s} \X Nat \X Nat
    /\ LET pm == S.puzzle_manager IN
       \/ host_nonce[2] < S.epoch
       \/ host_nonce[2] = S.epoch /\ host_nonce[3] < S.refreshes
       \/ host_nonce = pm.last_nonce /\ initiator_nonce \in pm.last_nonce_table
       \/ host_nonce = pm.current_nonce /\ initiator_nonce \in pm.current_nonce_table

Hosts(S) == {p \in S.pending : p.type = "connection_host"}

\* What was accepted, and what waits for accept_connection, was used up, by itself only.
OnceInv ==
    /\ \A a \in accepted :
        a.host \in Sockets
        /\ Used(a.host, sock[a.host], a.connection.initiator_nonce, a.connection.host_nonce)
    /\ \A s \in Sockets : \A p \in Hosts(sock[s]) :
        /\ Used(s, sock[s], p.initiator_nonce, p.host_nonce)
        /\ \A q \in Hosts(sock[s]) : SameNonces(p, q) => p = q
        /\ \A a \in accepted : a.host = s => ~SameNonces(a.connection, p)
    /\ SolutionOpensOnce
-----------------------------------------------------------------------------
(* The packets and what they prove to the one who receives them. *)

\* The accept was sent for something the host's application accepted.
Witnessed(m, a) ==
    /\ a.host = m.from /\ a.connection.address = m.to /\ SameNonces(a.connection, m)
    /\ a.connection.initial_send_sequence = m.body.sequence
    /\ a.connection.shared_secret = m.body.encrypted_by

PacketOK(m) ==
    /\ m.type = "connect_challenge_response" => m.host_nonce # Unset
    /\ m.type = "connect_request" =>
        /\ m.from \in Sockets \ {m.to} /\ m.body.public_key = m.from
        /\ Numbered(m.from, m.initiator_nonce, m.body.sequence)
    /\ m.type = "connect_accept" => \E a \in accepted : Witnessed(m, a)

\* Whatever a host has connected is what it accepted.
AcceptInv ==
    /\ \A m \in net : PacketOK(m)
    /\ \A a \in accepted :
        Numbered(a.connection.address, a.connection.initiator_nonce, a.connection.initial_recv_sequence)
    /\ \A s \in Sockets : \A c \in sock[s].connections :
        ~c.is_initiator => [host |-> s, connection |-> c] \in accepted
    /\ EstablishedMeansAccepted
-----------------------------------------------------------------------------
(* The lookup tables. *)

TableShape(t) == DOMAIN t = {"entries", "disturbed"} /\ t.disturbed \in BOOLEAN

\* Whatever was removed, and missed: a connection is in the table of ids, the table of
\* addresses has as many entries as there are connections, an entry is of an id that is
\* not pending; and the table of addresses is exact unless it is disturbed.
TablesOK(S) ==
    /\ TableShape(S.id_table) /\ TableShape(S.address_table)
    /\ IsFiniteSet(S.connections) /\ IsFiniteSet(S.address_table.entries)
    /\ Cardinality(S.connections) <= Cardinality(S.address_table.entries)
    /\ \A e \in S.id_table.entries \cup S.address_table.entries :
        e.value \in 1 .. S.next_connection_index - 1 /\ \A p \in S.pending : p.id # e.value
    /\ \A c \in S.connections : [key |-> c.id, value |-> c.id] \in S.id_table.entries
    /\ \A e \in S.id_table.entries : e.key = e.value
    /\ ~S.address_table.disturbed =>
        /\ \A c \in S.connections : [key |-> c.address, value |-> c.id] \in S.address_table.entries
        /\ \A e \in S.address_table.entries : \E c \in S.connections : e.key = c.address /\ e.value = c.id

\* A socket that only answers.
HostOK(S) ==
    S.connects = 0 =>
        /\ \A p \in S.pending : p.type = "connection_host"
        /\ \A p, q \in S.pending : p.address = q.address => p = q
        /\ \A c \in S.connections : ~c.is_initiator
        /\ ~S.id_table.disturbed /\ ~S.address_table.disturbed =>
            \A x, y \in S.pending \cup S.connections : x.address = y.address => x = y

TableOK(S) == TablesOK(S) /\ HostOK(S)

TableInv == \A s \in Sockets : TableOK(sock[s])
-----------------------------------------------------------------------------
(* The events. *)

Before == {"requested", "challenge_response"}
Events == Before \cup {"established", "close_missed"} \cup Terminal

\* The last event of a connection that goes on.
GoesOn(S, e) == e = "established" \/ (e = "close_missed" /\ S.id_table.disturbed)

StoryOK(l) ==
    /\ l \in Seq(Events)
    /\ \A i \in DOMAIN l :
        /\ l[i] \in Terminal => i = Len(l)
        /\ l[i] = "established" => i > 1 /\ \A j \in 1 .. i - 1 : l[j] \in Before

\* Nothing was said yet of an id or an epoch to come, and a connection that goes on has
\* been announced.
LogInv ==
    /\ \A k \in DOMAIN log : StoryOK(log[k])
    /\ \A s \in Sockets : \A k \in DOMAIN log : \A e, i \in Nat :
        k = <<s, e, i>> =>
            e < sock[s].epoch \/ (e = sock[s].epoch /\ i < sock[s].next_connection_index)
    /\ \A s \in Sockets :
        /\ \A p \in sock[s].pending :
            /\ \A i \in DOMAIN EventsOf(Key(s, p)) : EventsOf(Key(s, p))[i] \in Before
            /\ p.state # "requesting_challenge_response" => EventsOf(Key(s, p)) # <<>>
        /\ \A c \in sock[s].connections :
            EventsOf(Key(s, c)) # <<>> /\ GoesOn(sock[s], EventsOf(Key(s, c))[Len(EventsOf(Key(s, c)))])

SocketInv == LocalInv /\ OnceInv /\ AcceptInv /\ TableInv /\ LogInv
-----------------------------------------------------------------------------
(* What a step may change. *)

\* T is S but for the members named in F.
SameBut(S, T, F) == DOMAIN T = SocketFields /\ \A f \in SocketFields \ F : T[f] = S[f]

\* The table of ids stays disturbed as long as there are connections.
Aged(S, T) == T.connections = {} \/ (S.id_table.disturbed => T.id_table.disturbed)

\* A step of the socket s.
StepOf(s) == DOMAIN sock' = Sockets /\ \A t \in Sockets \ {s} : sock'[t] = sock[t]

LEMMA LocalStep ==
    ASSUME LocalInv, NEW s \in Sockets, StepOf(s), SocketOK(s, sock'[s])
    PROVE  LocalInv'
BY DEF LocalInv, StepOf

\* Connections, pending or established, are only taken away.
LEMMA FewerKeeps ==
    ASSUME NEW s, NEW S, NEW T, SocketOK(s, S), ShapeOK(s, T), T.epoch = S.epoch,
           T.next_connection_index = S.next_connection_index,
           T.pending \subseteq S.pending, T.connections \subseteq S.connections
    PROVE  SocketOK(s, T)
BY DEF SocketOK, IdsOK

\* A pending connection changes and keeps its id.
LEMMA ReplaceKeeps ==
    ASSUME NEW s, NEW S, NEW T, SocketOK(s, S), ShapeOK(s, T), T.epoch = S.epoch,
           T.next_connection_index = S.next_connection_index, T.connections = S.connections,
           NEW p \in S.pending, NEW q, q.id = p.id, PendingOK(s, S.epoch, S.next_connection_index, q),
           T.pending = (S.pending \ {p}) \cup {q}
    PROVE  SocketOK(s, T)
<1>1. IdsOK(T)
  BY DEF SocketOK, IdsOK
<1> QED
  BY <1>1 DEF SocketOK

\* A new pending connection has a new id.
LEMMA AddKeeps ==
    ASSUME NEW s, NEW S, NEW T, SocketOK(s, S), ShapeOK(s, T), T.epoch = S.epoch,
           T.next_connection_index = S.next_connection_index + 1,
           NEW p, p.id = S.next_connection_index, PendingOK(s, S.epoch, T.next_connection_index, p),
           T.pending = S.pending \cup {p}, T.connections \subseteq S.connections
    PROVE  SocketOK(s, T)
<1>1. S.next_connection_index \in Nat
  BY DEF SocketOK, ShapeOK
<1>2. \A x \in S.pending \cup S.connections : x.id # p.id
  BY <1>1 DEF SocketOK, PendingOK, ConnectionOK
<1>3. IdsOK(T)
  BY <1>2 DEF SocketOK, IdsOK
<1>4. \A x \in S.pending : PendingOK(s, T.epoch, T.next_connection_index, x)
  BY <1>1 DEF SocketOK, PendingOK
<1>5. \A c \in T.connections : ConnectionOK(s, T.next_connection_index, c)
  BY <1>1 DEF SocketOK, ConnectionOK
<1> QED
  BY <1>3, <1>4, <1>5 DEF SocketOK

\* A pending connection becomes an established one with its id.
LEMMA MoveKeeps ==
    ASSUME NEW s, NEW S, NEW T, SocketOK(s, S), ShapeOK(s, T), T.epoch = S.epoch,
           T.next_connection_index = S.next_connection_index,
           NEW p \in S.pending, T.pending = S.pending \ {p},
           NEW c, c.id = p.id, ConnectionOK(s, S.next_connection_index, c),
           T.connections = S.connections \cup {c}
    PROVE  SocketOK(s, T)
<1>1. IdsOK(T)
  BY DEF SocketOK, IdsOK
<1> QED
  BY <1>1 DEF SocketOK

-----------------------------------------------------------------------------
(* The puzzles: what is used stays used. *)

LEMMA UsedKept ==
    ASSUME NEW s, NEW S, NEW T, NEW x, NEW y, Used(s, S, x, y),
           T.epoch = S.epoch, T.refreshes = S.refreshes,
           T.puzzle_manager.current_nonce = S.puzzle_manager.current_nonce,
           T.puzzle_manager.last_nonce = S.puzzle_manager.last_nonce,
           S.puzzle_manager.current_nonce_table \subseteq T.puzzle_manager.current_nonce_table,
           S.puzzle_manager.last_nonce_table \subseteq T.puzzle_manager.last_nonce_table
    PROVE  Used(s, T, x, y)
BY DEF Used

LEMMA OnceKeeps ==
    ASSUME OnceInv, NEW s \in Sockets, StepOf(s), accepted' = accepted,
           Hosts(sock'[s]) \subseteq Hosts(sock[s]),
           \A x, y : Used(s, sock[s], x, y) => Used(s, sock'[s], x, y)
    PROVE  OnceInv'
<1>1. \A a \in accepted : Used(a.host, sock'[a.host], a.connection.initiator_nonce, a.connection.host_nonce)
  BY DEF OnceInv, StepOf
<1>2. \A t \in Sockets : Hosts(sock'[t]) \subseteq Hosts(sock[t])
  BY DEF StepOf
<1>3. \A t \in Sockets : \A p \in Hosts(sock'[t]) : Used(t, sock'[t], p.initiator_nonce, p.host_nonce)
  BY <1>2 DEF OnceInv, StepOf
<1>4. \A t \in Sockets : \A p \in Hosts(sock'[t]) :
        /\ \A q \in Hosts(sock'[t]) : SameNonces(p, q) => p = q
        /\ \A a \in accepted : a.host = t => ~SameNonces(a.connection, p)
  BY <1>2 DEF OnceInv
<1>5. SolutionOpensOnce'
  BY DEF OnceInv, SolutionOpensOnce, SameNonces
<1> QED
  BY <1>1, <1>3, <1>4, <1>5 DEF OnceInv, SameNonces
-----------------------------------------------------------------------------
(* The packets. *)

\* What was accepted stays accepted, and what is new is justified.
LEMMA AcceptKeeps ==
    ASSUME AcceptInv, NEW s \in Sockets, StepOf(s), accepted' = accepted,
           sock'[s].connections \subseteq sock[s].connections,
           \A m \in net' : m \in net \/ PacketOK(m)
    PROVE  AcceptInv'
<1>1. \A m \in net' : PacketOK(m)'
  BY DEF AcceptInv, PacketOK
<1>2. \A t \in Sockets : sock'[t].connections \subseteq sock[t].connections
  BY DEF StepOf
<1>3. \A t \in Sockets : \A c \in sock'[t].connections :
        ~c.is_initiator => [host |-> t, connection |-> c] \in accepted'
  BY <1>2 DEF AcceptInv
<1>4. EstablishedMeansAccepted'
  BY <1>2 DEF AcceptInv, EstablishedMeansAccepted, SameNonces
<1>5. \A a \in accepted' :
        Numbered(a.connection.address, a.connection.initiator_nonce, a.connection.initial_recv_sequence)
  BY DEF AcceptInv
<1> QED
  BY <1>1, <1>3, <1>4, <1>5 DEF AcceptInv
-----------------------------------------------------------------------------
(* The lookup tables. *)

LEMMA NewTables ==
    ASSUME NEW S, S.connections = {}, S.pending = {}, S.id_table = NewTable, S.address_table = NewTable
    PROVE  TableOK(S)
<1>1. /\ S.id_table.entries = {} /\ S.address_table.entries = {}
      /\ TableShape(S.id_table) /\ TableShape(S.address_table)
  BY DEF NewTable, TableShape
<1>2. IsFiniteSet({}) /\ Cardinality({}) = 0
  BY FS_EmptySet
<1>3. 0 <= 0
  OBVIOUS
<1> QED
  BY <1>1, <1>2, <1>3 DEF TableOK, TablesOK, HostOK

\* The connections stay, and no pending one gets an id that was used.
LEMMA TablesKept ==
    ASSUME NEW S, NEW T, TablesOK(S), T.id_table = S.id_table, T.address_table = S.address_table,
           T.connections = S.connections, S.next_connection_index \in Nat,
           T.next_connection_index \in Nat, T.next_connection_index >= S.next_connection_index,
           \A q \in T.pending :
                (\E p \in S.pending : p.id = q.id) \/ q.id = S.next_connection_index
    PROVE  TablesOK(T)
<1>1. ASSUME NEW e \in S.id_table.entries \cup S.address_table.entries
      PROVE  e.value \in 1 .. T.next_connection_index - 1 /\ \A q \in T.pending : q.id # e.value
  <2>1. e.value \in 1 .. S.next_connection_index - 1 /\ \A p \in S.pending : p.id # e.value
    BY DEF TablesOK
  <2>2. e.value \in 1 .. T.next_connection_index - 1 /\ e.value # S.next_connection_index
    BY <2>1
  <2> QED
    BY <2>1, <2>2
<1> QED
  BY <1>1 DEF TablesOK

LEMMA WithoutTable ==
    ASSUME NEW I, NEW e \in I.entries
    PROVE  /\ TableShape(Without(I, e)) /\ Without(I, e).entries = I.entries \ {e}
           /\ Without(I, e).disturbed \/ Without(I, e).entries = {}
<1>1. TableShape(Without(I, e)) /\ Without(I, e).entries = I.entries \ {e}
  BY DEF Without, TableShape
<1>2. CASE I.entries = {e}
  BY <1>1, <1>2
<1>3. CASE I.entries # {e}
  <2>1. Without(I, e).disturbed = TRUE
    BY <1>3 DEF Without
  <2> QED
    BY <1>1, <2>1
<1> QED
  BY <1>2, <1>3

\* What a removal leaves: nothing, or tables that may miss.
Removal(S, T, c) ==
    /\ SameBut(S, T, {"connections", "id_table", "address_table"})
    /\ T.connections = S.connections \ {c}
    /\ T.connections = {} \/ (T.id_table.disturbed /\ T.address_table.disturbed)

LEMMA RemoveTables ==
    ASSUME NEW s, NEW S, SocketOK(s, S), TablesOK(S), NEW c \in S.connections,
           NEW T \in _remove_connection(S, c)
    PROVE  Removal(S, T, c) /\ TablesOK(T)
<1>0. PICK X \in remove(S.id_table, c.id), Y \in remove(S.address_table, c.address) :
        T = [S EXCEPT !.connections = @ \ {c}, !.id_table = X, !.address_table = Y]
  BY DEF _remove_connection
<1> DEFINE I == S.id_table
           L == S.address_table
           J == T.id_table
           K == T.address_table
<1>1. DOMAIN S = SocketFields
  BY DEF SocketOK, ShapeOK
<1>2. /\ T = [S EXCEPT !.connections = @ \ {c}, !.id_table = J, !.address_table = K]
      /\ J \in remove(I, c.id) /\ K \in remove(L, c.address)
  <2>1. T.id_table = X /\ T.address_table = Y
    BY <1>0, <1>1 DEF SocketFields
  <2> QED
    BY <1>0, <2>1
<1>3. /\ SameBut(S, T, {"connections", "id_table", "address_table"})
      /\ T.connections = S.connections \ {c}
      /\ T.pending = S.pending /\ T.next_connection_index = S.next_connection_index
  BY <1>1, <1>2 DEF SameBut, SocketFields
<1>4. /\ J = I /\ I.disturbed
      \/ \E e \in I.entries : e.key = c.id /\ J = Without(I, e)
  BY <1>2 DEF remove, MayMiss, Entries, TablesOK
<1>5. /\ K = L /\ L.disturbed
      \/ \E e \in L.entries : e.key = c.address /\ K = Without(L, e)
  BY <1>2 DEF remove, MayMiss, Entries, TablesOK
<1>6. /\ J = I /\ J.disturbed
      \/ \E e \in I.entries : /\ e.key = c.id /\ TableShape(J) /\ J.entries = I.entries \ {e}
                              /\ J.disturbed \/ J.entries = {}
  BY <1>4, WithoutTable
<1>7. /\ K = L /\ K.disturbed
      \/ \E e \in L.entries : /\ TableShape(K) /\ K.entries = L.entries \ {e}
                              /\ K.disturbed \/ K.entries = {}
  BY <1>5, WithoutTable
<1> HIDE DEF I, L, J, K
<1>8. TableShape(J) /\ TableShape(K) /\ J.entries \subseteq I.entries /\ K.entries \subseteq L.entries
  BY <1>6, <1>7 DEF TablesOK, I, L
<1>9. \A d \in T.connections : [key |-> d.id, value |-> d.id] \in J.entries
  <2> SUFFICES ASSUME NEW d \in T.connections PROVE [key |-> d.id, value |-> d.id] \in J.entries
    OBVIOUS
  <2>1. d \in S.connections /\ d.id # c.id
    BY <1>3 DEF SocketOK, IdsOK
  <2>2. [key |-> d.id, value |-> d.id] \in I.entries
    BY <2>1 DEF TablesOK, I
  <2>3. [key |-> d.id, value |-> d.id].key = d.id
    OBVIOUS
  <2> QED
    BY <1>6, <2>1, <2>2, <2>3
<1>10. J.disturbed \/ T.connections = {}
  BY <1>6, <1>9
<1>11. /\ IsFiniteSet(T.connections) /\ IsFiniteSet(K.entries)
       /\ Cardinality(T.connections) <= Cardinality(K.entries)
  <2>1. /\ IsFiniteSet(S.connections) /\ IsFiniteSet(L.entries)
        /\ Cardinality(S.connections) <= Cardinality(L.entries)
    BY DEF TablesOK, L
  <2>2. /\ IsFiniteSet(T.connections) /\ Cardinality(T.connections) = Cardinality(S.connections) - 1
        /\ Cardinality(S.connections) \in Nat /\ Cardinality(L.entries) \in Nat
    BY <1>3, <2>1, FS_RemoveElement, FS_CardinalityType
  <2>3. CASE K = L
    BY <2>1, <2>2, <2>3
  <2>4. CASE \E e \in L.entries : K.entries = L.entries \ {e}
    <3>1. PICK e \in L.entries : K.entries = L.entries \ {e}
      BY <2>4
    <3>2. IsFiniteSet(K.entries) /\ Cardinality(K.entries) = Cardinality(L.entries) - 1
      BY <2>1, <3>1, FS_RemoveElement
    <3> QED
      BY <2>1, <2>2, <3>2
  <2> QED
    BY <1>7, <2>3, <2>4
<1>12. K.disturbed \/ T.connections = {}
  <2> SUFFICES ASSUME K.entries = {} PROVE T.connections = {}
    BY <1>7
  <2>1. Cardinality(K.entries) = 0
    BY FS_EmptySet
  <2>2. Cardinality(T.connections) = 0
    BY <1>11, <2>1, FS_CardinalityType
  <2> QED
    BY <1>11, <2>2, FS_EmptySet
<1>13. ~K.disturbed => K.entries = {}
  BY <1>7
<1>14. /\ \A e \in J.entries \cup K.entries :
            e.value \in 1 .. T.next_connection_index - 1 /\ \A p \in T.pending : p.id # e.value
       /\ \A e \in J.entries : e.key = e.value
  BY <1>3, <1>8 DEF TablesOK, I, L
<1>15. TablesOK(T)
  BY <1>8, <1>9, <1>11, <1>12, <1>13, <1>14 DEF TablesOK, J, K
<1>16. Removal(S, T, c)
  BY <1>3, <1>10, <1>12 DEF Removal, J, K
<1> QED
  BY <1>15, <1>16

\* The connection takes the place of the pending one, whose id is new to the tables.
LEMMA AddTables ==
    ASSUME NEW s, NEW S, SocketOK(s, S), TableOK(S), NEW p \in S.pending, NEW c, c.id = p.id,
           c.address = p.address, S.connects = 0 => ~c.is_initiator,
           NEW T, T = _add_connection([S EXCEPT !.pending = @ \ {p}], c)
    PROVE  /\ SameBut(S, T, {"pending", "connections", "id_table", "address_table"})
           /\ T.pending = S.pending \ {p} /\ T.connections = S.connections \cup {c}
           /\ T.id_table.disturbed = S.id_table.disturbed
           /\ TableOK(T)
<1> DEFINE I == S.id_table
           L == S.address_table
           J == T.id_table
           K == T.address_table
           i == [key |-> c.id, value |-> c.id]
           l == [key |-> c.address, value |-> c.id]
<1>1. DOMAIN S = SocketFields /\ PendingOK(s, S.epoch, S.next_connection_index, p)
  BY DEF SocketOK, ShapeOK
<1>2. TablesOK(S) /\ HostOK(S)
  BY DEF TableOK
<1>3. /\ SameBut(S, T, {"pending", "connections", "id_table", "address_table"})
      /\ T.pending = S.pending \ {p} /\ T.connections = S.connections \cup {c}
      /\ J = insert(I, c.id, c.id) /\ K = insert(L, c.address, c.id)
      /\ T.next_connection_index = S.next_connection_index /\ T.connects = S.connects
  BY <1>1 DEF _add_connection, SameBut, SocketFields
<1>4. /\ TableShape(I) /\ TableShape(L)
  BY <1>2 DEF TablesOK
<1> HIDE DEF I, L, J, K
<1>5. /\ TableShape(J) /\ J.disturbed = I.disturbed /\ J.entries = I.entries \cup {i}
      /\ TableShape(K) /\ K.disturbed = L.disturbed /\ K.entries = L.entries \cup {l}
  BY <1>3, <1>4 DEF insert, TableShape
<1>6. i.key = c.id /\ i.value = c.id /\ l.key = c.address /\ l.value = c.id
  OBVIOUS
<1> HIDE DEF i, l
<1>7. l \notin L.entries /\ c \notin S.connections
  <2>1. l \notin L.entries
    BY <1>2, <1>6 DEF TablesOK, L
  <2> QED
    BY <2>1 DEF SocketOK, IdsOK
<1>8. /\ IsFiniteSet(T.connections) /\ IsFiniteSet(K.entries)
      /\ Cardinality(T.connections) <= Cardinality(K.entries)
  <2>1. /\ IsFiniteSet(S.connections) /\ IsFiniteSet(L.entries)
        /\ Cardinality(S.connections) <= Cardinality(L.entries)
    BY <1>2 DEF TablesOK, L
  <2>2. /\ IsFiniteSet(S.connections \cup {c})
        /\ Cardinality(S.connections \cup {c}) = Cardinality(S.connections) + 1
    BY <1>7, <2>1, FS_AddElement, Zenon
  <2>3. IsFiniteSet(L.entries \cup {l}) /\ Cardinality(L.entries \cup {l}) = Cardinality(L.entries) + 1
    BY <1>7, <2>1, FS_AddElement, Zenon
  <2>4. Cardinality(S.connections) \in Nat /\ Cardinality(L.entries) \in Nat
    BY <2>1, FS_CardinalityType
  <2>5. T.connections = S.connections \cup {c} /\ K.entries = L.entries \cup {l}
    BY <1>3, <1>5
  <2>6. \A a, b \in Nat : a <= b => a + 1 <= b + 1
    OBVIOUS
  <2> QED
    BY <2>1, <2>2, <2>3, <2>4, <2>5, <2>6
<1>9. c.id \in 1 .. S.next_connection_index - 1 /\ \A q \in T.pending : q.id # c.id
  BY <1>1, <1>3 DEF PendingOK, SocketOK, IdsOK
<1>10. \A e \in J.entries \cup K.entries :
        e.value \in 1 .. T.next_connection_index - 1 /\ \A q \in T.pending : q.id # e.value
  <2>1. \A e \in I.entries \cup L.entries :
        e.value \in 1 .. T.next_connection_index - 1 /\ \A q \in T.pending : q.id # e.value
    BY <1>2, <1>3 DEF TablesOK, I, L
  <2> QED
    BY <1>3, <1>5, <1>6, <1>9, <2>1
<1>11. /\ \A d \in T.connections : [key |-> d.id, value |-> d.id] \in J.entries
       /\ \A e \in J.entries : e.key = e.value
  <2>1. /\ \A d \in S.connections : [key |-> d.id, value |-> d.id] \in I.entries
        /\ \A e \in I.entries : e.key = e.value
    BY <1>2 DEF TablesOK, I
  <2> QED
    BY <1>3, <1>5, <1>6, <2>1 DEF i
<1>12. ASSUME ~K.disturbed
       PROVE  /\ \A d \in T.connections : [key |-> d.address, value |-> d.id] \in K.entries
              /\ \A e \in K.entries : \E d \in T.connections : e.key = d.address /\ e.value = d.id
  <2>1. /\ \A d \in S.connections : [key |-> d.address, value |-> d.id] \in L.entries
        /\ \A e \in L.entries : \E d \in S.connections : e.key = d.address /\ e.value = d.id
    BY <1>2, <1>5, <1>12 DEF TablesOK, L
  <2>2. \A d \in T.connections : [key |-> d.address, value |-> d.id] \in K.entries
    BY <1>3, <1>5, <2>1 DEF l
  <2>3. ASSUME NEW e \in K.entries PROVE \E d \in T.connections : e.key = d.address /\ e.value = d.id
    BY <1>3, <1>5, <1>6, <2>1
  <2> QED
    BY <2>2, <2>3
<1>13. TablesOK(T)
  BY <1>5, <1>8, <1>10, <1>11, <1>12 DEF TablesOK, J, K
<1>14. HostOK(T)
  <2> SUFFICES ASSUME T.connects = 0
               PROVE  /\ \A q \in T.pending : q.type = "connection_host"
                      /\ \A x, y \in T.pending : x.address = y.address => x = y
                      /\ \A d \in T.connections : ~d.is_initiator
                      /\ ~J.disturbed /\ ~K.disturbed =>
                          \A x, y \in T.pending \cup T.connections : x.address = y.address => x = y
    BY DEF HostOK, J, K
  <2>1. /\ \A q \in S.pending : q.type = "connection_host"
        /\ \A x, y \in S.pending : x.address = y.address => x = y
        /\ \A d \in S.connections : ~d.is_initiator
        /\ ~I.disturbed /\ ~L.disturbed =>
            \A x, y \in S.pending \cup S.connections : x.address = y.address => x = y
    BY <1>2, <1>3 DEF HostOK, I, L
  <2>2. /\ \A q \in T.pending : q.type = "connection_host"
        /\ \A x, y \in T.pending : x.address = y.address => x = y
    BY <1>3, <2>1
  <2>3. \A d \in T.connections : ~d.is_initiator
    BY <1>3, <2>1
  <2>4. ASSUME ~J.disturbed, ~K.disturbed, NEW x \in T.pending \cup T.connections,
               NEW y \in T.pending \cup T.connections, x.address = y.address
        PROVE  x = y
    <3>1. \A a, b \in S.pending \cup S.connections : a.address = b.address => a = b
      BY <1>5, <2>1, <2>4
    <3>2. p \notin S.connections
      BY DEF SocketOK, IdsOK
    <3>3. \A a \in T.pending \cup T.connections :
            a = c \/ (a \in S.pending \cup S.connections /\ a # p)
      BY <1>3, <3>2
    <3>4. \A a \in S.pending \cup S.connections : a.address = c.address => a = p
      BY <3>1
    <3>5. CASE x = c \/ y = c
      BY <2>4, <3>3, <3>4, <3>5
    <3>6. CASE x # c /\ y # c
      BY <2>4, <3>1, <3>3, <3>6
    <3> QED
      BY <3>5, <3>6
  <2> QED
    BY <2>2, <2>3, <2>4
<1>15. T.id_table.disturbed = S.id_table.disturbed
  BY <1>5 DEF I, J
<1> QED
  BY <1>3, <1>13, <1>14, <1>15 DEF TableOK

\* Fewer pending connections, or fewer connections in tables that may miss.
LEMMA HostFewer ==
    ASSUME NEW S, NEW T, HostOK(S), T.connects = S.connects,
           T.pending \subseteq S.pending, T.connections \subseteq S.connections,
           \/ T.id_table = S.id_table /\ T.address_table = S.address_table
           \/ T.connections = {}
           \/ T.id_table.disturbed
    PROVE  HostOK(T)
BY DEF HostOK
-----------------------------------------------------------------------------
(* The events of a connection id. *)

\* post_event adds to the story of one id.
LEMMA PostedEvents ==
    ASSUME NEW s, NEW id, NEW e \in Events, \A k \in DOMAIN log : log[k] \in Seq(Events),
           log' = Posted(log, s, id, e)
    PROVE  /\ DOMAIN log' = DOMAIN log \cup {<<s, sock[s].epoch, id>>}
           /\ EventsOf(<<s, sock[s].epoch, id>>) \in Seq(Events)
           /\ log'[<<s, sock[s].epoch, id>>] = Append(EventsOf(<<s, sock[s].epoch, id>>), e)
           /\ \A k \in DOMAIN log : k # <<s, sock[s].epoch, id>> => log'[k] = log[k]
<1> DEFINE k0 == <<s, sock[s].epoch, id>>
           l == EventsOf(k0)
<1>1. log' = [j \in DOMAIN log \cup {k0} |->
                IF j # k0 THEN log[j] ELSE IF k0 \in DOMAIN log THEN Append(log[k0], e) ELSE <<e>>]
  BY DEF Posted
<1> HIDE DEF k0
<1>2. l \in Seq(Events) /\ (k0 \notin DOMAIN log => l = <<>>) /\ (k0 \in DOMAIN log => l = log[k0])
  BY DEF EventsOf
<1>3. DOMAIN log' = DOMAIN log \cup {k0} /\ \A k \in DOMAIN log : k # k0 => log'[k] = log[k]
  BY <1>1
<1>4. log'[k0] = IF k0 \in DOMAIN log THEN Append(log[k0], e) ELSE <<e>>
  BY <1>1
<1>5. log'[k0] = Append(l, e)
  <2>1. CASE k0 \in DOMAIN log
    BY <1>2, <1>4, <2>1
  <2>2. CASE k0 \notin DOMAIN log
    BY <1>2, <1>4, <2>2
  <2> QED
    BY <2>1, <2>2
<1> QED
  BY <1>2, <1>3, <1>5 DEF k0

\* The story of an id that has not ended goes on.
LEMMA StoryGoesOn ==
    ASSUME NEW l, StoryOK(l), NEW e \in Events, \A i \in DOMAIN l : l[i] \notin Terminal,
           e = "established" => l # <<>> /\ \A i \in DOMAIN l : l[i] \in Before
    PROVE  StoryOK(Append(l, e))
<1> DEFINE n == Len(l)
           m == Append(l, e)
<1>1. l \in Seq(Events) /\ n \in Nat /\ DOMAIN l = 1 .. n
  BY DEF StoryOK
<1>2. /\ m \in Seq(Events) /\ Len(m) = n + 1 /\ DOMAIN m = 1 .. n + 1 /\ m[n + 1] = e
      /\ \A i \in 1 .. n : m[i] = l[i]
  BY <1>1
<1>3. l # <<>> => n # 0
  BY <1>1
<1>4. \A i \in 1 .. n : l[i] = "established" => i > 1 /\ \A j \in 1 .. i - 1 : l[j] \in Before
  BY <1>1 DEF StoryOK
<1> HIDE DEF m, n
<1>5. \A i \in 1 .. n + 1 : i \in 1 .. n \/ i = n + 1
  BY <1>1
<1>6. \A i \in 1 .. n + 1 : m[i] \in Terminal => i = n + 1
  BY <1>1, <1>2, <1>5
<1>7. ASSUME NEW i \in 1 .. n + 1, m[i] = "established"
      PROVE  i > 1 /\ \A j \in 1 .. i - 1 : m[j] \in Before
  <2>1. \A j \in 1 .. i - 1 : j \in 1 .. n
    BY <1>1
  <2>2. CASE i \in 1 .. n
    BY <1>2, <1>4, <1>7, <2>1, <2>2
  <2>3. CASE i = n + 1
    <3>1. e = "established"
      BY <1>2, <1>7, <2>3
    <3>2. i > 1
      BY <1>1, <1>3, <2>3, <3>1
    <3>3. \A j \in 1 .. i - 1 : l[j] \in Before
      BY <1>1, <2>1, <3>1
    <3> QED
      BY <1>2, <2>1, <3>2, <3>3
  <2> QED
    BY <1>5, <2>2, <2>3
<1> QED
  BY <1>2, <1>6, <1>7 DEF StoryOK, m

\* A connection that goes on has not ended in its story.
LEMMA StoryOpen ==
    ASSUME NEW l, StoryOK(l),
           \/ \A i \in DOMAIN l : l[i] \in Before
           \/ l # <<>> /\ l[Len(l)] \in {"established", "close_missed"}
    PROVE  \A i \in DOMAIN l : l[i] \notin Terminal
BY DEF StoryOK, Before, Terminal

LEMMA EmptyStory == StoryOK(<<>>)
BY DEF StoryOK

\* What the state of a pending connection says of its events: p stands where q stood.
Continues(S, p) ==
    \/ \E q \in S.pending : q.id = p.id
            /\ (p.state # "requesting_challenge_response" => q.state # "requesting_challenge_response")
    \/ p.id = S.next_connection_index /\ p.state = "requesting_challenge_response"

LEMMA FreshStory ==
    ASSUME LogInv, LocalInv, NEW s \in Sockets
    PROVE  EventsOf(<<s, sock[s].epoch, sock[s].next_connection_index>>) = <<>>
<1>1. sock[s].epoch \in Nat /\ sock[s].next_connection_index \in Nat
  BY DEF LocalInv, SocketOK, ShapeOK
<1>2. <<s, sock[s].epoch, sock[s].next_connection_index>> \notin DOMAIN log
  BY <1>1 DEF LogInv
<1> QED
  BY <1>2 DEF EventsOf

\* A step without an event.
LEMMA LogSilent ==
    ASSUME LogInv, LocalInv, NEW s \in Sockets, StepOf(s), log' = log,
           sock'[s].epoch = sock[s].epoch,
           sock'[s].next_connection_index \in Nat,
           sock'[s].next_connection_index >= sock[s].next_connection_index,
           \A p \in sock'[s].pending : Continues(sock[s], p),
           sock'[s].connections \subseteq sock[s].connections, Aged(sock[s], sock'[s])
    PROVE  LogInv'
<1>1. sock[s].epoch \in Nat /\ sock[s].next_connection_index \in Nat
  BY DEF LocalInv, SocketOK, ShapeOK
<1>2. \A t \in Sockets : sock'[t].epoch = sock[t].epoch
  BY DEF StepOf
<1>4. \A t \in Sockets : \A k \in DOMAIN log : \A e, i \in Nat :
        k = <<t, e, i>> =>
            e < sock'[t].epoch \/ (e = sock'[t].epoch /\ i < sock'[t].next_connection_index)
  <2> SUFFICES ASSUME NEW t \in Sockets, NEW k \in DOMAIN log, NEW e \in Nat, NEW i \in Nat, k = <<t, e, i>>
               PROVE  e < sock'[t].epoch \/ (e = sock'[t].epoch /\ i < sock'[t].next_connection_index)
    OBVIOUS
  <2>1. e < sock[t].epoch \/ (e = sock[t].epoch /\ i < sock[t].next_connection_index)
    BY DEF LogInv
  <2>2. CASE t = s
    BY <1>1, <2>1, <2>2
  <2>3. CASE t # s
    BY <2>1, <2>3 DEF StepOf
  <2> QED
    BY <2>2, <2>3
<1>5. \A t \in Sockets : \A p \in sock'[t].pending :
        /\ \A i \in DOMAIN EventsOf(<<t, sock[t].epoch, p.id>>) : EventsOf(<<t, sock[t].epoch, p.id>>)[i] \in Before
        /\ p.state # "requesting_challenge_response" => EventsOf(<<t, sock[t].epoch, p.id>>) # <<>>
  <2> SUFFICES ASSUME NEW t \in Sockets, NEW p \in sock'[t].pending
               PROVE  /\ \A i \in DOMAIN EventsOf(<<t, sock[t].epoch, p.id>>) :
                            EventsOf(<<t, sock[t].epoch, p.id>>)[i] \in Before
                      /\ p.state # "requesting_challenge_response" =>
                            EventsOf(<<t, sock[t].epoch, p.id>>) # <<>>
    OBVIOUS
  <2>1. CASE t # s
    BY <2>1 DEF LogInv, StepOf, Key
  <2>2. CASE t = s /\ \E q \in sock[s].pending : q.id = p.id
            /\ (p.state # "requesting_challenge_response" => q.state # "requesting_challenge_response")
    BY <2>2 DEF LogInv, Key
  <2>3. CASE t = s /\ p.id = sock[s].next_connection_index /\ p.state = "requesting_challenge_response"
    BY <2>3, FreshStory
  <2> QED
    BY <2>1, <2>2, <2>3 DEF Continues
<1>6. \A t \in Sockets : \A c \in sock'[t].connections : c \in sock[t].connections
  BY DEF StepOf
<1>7. \A k \in DOMAIN log' : StoryOK(log'[k])
  BY DEF LogInv
<1>8. \A t \in Sockets : \A c \in sock'[t].connections :
        /\ EventsOf(<<t, sock[t].epoch, c.id>>) # <<>>
        /\ GoesOn(sock'[t], EventsOf(<<t, sock[t].epoch, c.id>>)[Len(EventsOf(<<t, sock[t].epoch, c.id>>))])
  <2> SUFFICES ASSUME NEW t \in Sockets, NEW c \in sock'[t].connections, NEW l,
                      l = EventsOf(<<t, sock[t].epoch, c.id>>)
               PROVE  l # <<>> /\ GoesOn(sock'[t], l[Len(l)])
    OBVIOUS
  <2>1. l # <<>> /\ GoesOn(sock[t], l[Len(l)])
    BY <1>6 DEF LogInv, Key
  <2> QED
    BY <2>1 DEF GoesOn, Aged, StepOf
<1>9. \A t \in Sockets : \A p \in sock'[t].pending :
        /\ \A i \in DOMAIN EventsOf(Key(t, p))' : EventsOf(Key(t, p))'[i] \in Before
        /\ p.state # "requesting_challenge_response" => EventsOf(Key(t, p))' # <<>>
  BY <1>2, <1>5 DEF Key, EventsOf
<1>10. \A t \in Sockets : \A c \in sock'[t].connections :
        EventsOf(Key(t, c))' # <<>> /\ GoesOn(sock[t], EventsOf(Key(t, c))[Len(EventsOf(Key(t, c)))])'
  BY <1>2, <1>8 DEF Key, EventsOf, GoesOn
<1> QED
  BY <1>4, <1>7, <1>9, <1>10 DEF LogInv

\* A step with an event about the id.
LEMMA LogPosts ==
    ASSUME LogInv, LocalInv, NEW s \in Sockets, StepOf(s), NEW id, NEW e \in Events,
           log' = Posted(log, s, id, e), sock'[s].epoch = sock[s].epoch,
           sock'[s].next_connection_index \in Nat, id \in 1 .. sock'[s].next_connection_index - 1,
           sock'[s].next_connection_index >= sock[s].next_connection_index,
           NEW l, l = EventsOf(<<s, sock[s].epoch, id>>), \A i \in DOMAIN l : l[i] \notin Terminal,
           e = "established" => l # <<>> /\ \A i \in DOMAIN l : l[i] \in Before,
           \A p \in sock'[s].pending :
                IF p.id = id THEN e \in Before /\ \A i \in DOMAIN l : l[i] \in Before
                ELSE Continues(sock[s], p),
           Aged(sock[s], sock'[s]),
           \A c \in sock'[s].connections :
                IF c.id = id THEN GoesOn(sock'[s], e) ELSE c \in sock[s].connections
    PROVE  LogInv'
<1> DEFINE k0 == <<s, sock[s].epoch, id>>
<1>1. sock[s].epoch \in Nat /\ sock[s].next_connection_index \in Nat /\ id \in Nat
  BY DEF LocalInv, SocketOK, ShapeOK
<1>2. \A t \in Sockets : sock'[t].epoch = sock[t].epoch
  BY DEF StepOf
<1>3. \A k \in DOMAIN log : StoryOK(log[k]) /\ log[k] \in Seq(Events)
  BY DEF LogInv, StoryOK
<1>4. /\ DOMAIN log' = DOMAIN log \cup {k0} /\ l \in Seq(Events)
      /\ log'[k0] = Append(l, e)
      /\ \A k \in DOMAIN log : k # k0 => log'[k] = log[k]
  <2> HIDE DEF k0
  <2>1. DOMAIN log' = DOMAIN log \cup {k0}
    BY <1>3, PostedEvents DEF k0
  <2>2. l \in Seq(Events)
    BY <1>3, PostedEvents
  <2>3. log'[k0] = Append(l, e)
    BY <1>3, PostedEvents DEF k0
  <2>4. \A k \in DOMAIN log : k # k0 => log'[k] = log[k]
    BY <1>3, PostedEvents DEF k0
  <2> QED
    BY <2>1, <2>2, <2>3, <2>4
<1>5. StoryOK(l)
  BY <1>3, EmptyStory DEF EventsOf
<1>6. \A k \in DOMAIN log' : StoryOK(log'[k])
  <2>1. StoryOK(Append(l, e))
    BY <1>5, StoryGoesOn
  <2> HIDE DEF k0
  <2> QED
    BY <1>3, <1>4, <2>1
<1>7. \A t \in Sockets : \A k \in DOMAIN log' : \A f, i \in Nat :
        k = <<t, f, i>> =>
            f < sock'[t].epoch \/ (f = sock'[t].epoch /\ i < sock'[t].next_connection_index)
  <2> SUFFICES ASSUME NEW t \in Sockets, NEW k \in DOMAIN log', NEW f \in Nat, NEW i \in Nat, k = <<t, f, i>>
               PROVE  f < sock'[t].epoch \/ (f = sock'[t].epoch /\ i < sock'[t].next_connection_index)
    OBVIOUS
  <2>1. CASE k = k0
    <3>1. t = s /\ f = sock[s].epoch /\ i = id
      BY <2>1
    <3> QED
      BY <1>1, <3>1
  <2>2. CASE k \in DOMAIN log
    <3>1. f < sock[t].epoch \/ (f = sock[t].epoch /\ i < sock[t].next_connection_index)
      BY <2>2 DEF LogInv
    <3>2. CASE t = s
      BY <1>1, <3>1, <3>2
    <3>3. CASE t # s
      BY <3>1, <3>3 DEF StepOf
    <3> QED
      BY <3>2, <3>3
  <2> QED
    BY <1>4, <2>1, <2>2
<1> DEFINE new(k) == IF k \in DOMAIN log' THEN log'[k] ELSE <<>>
           at(t, x) == <<t, sock[t].epoch, x.id>>
<1>8. \A k : k # k0 => new(k) = EventsOf(k)
  <2> HIDE DEF k0
  <2> QED
    BY <1>4 DEF EventsOf
<1>9. new(k0) = Append(l, e)
  <2> HIDE DEF k0
  <2> QED
    BY <1>4
<1>10. \A t \in Sockets : \A x : at(t, x) = k0 <=> t = s /\ x.id = id
  OBVIOUS
<1>11. /\ new(k0) # <<>> /\ new(k0)[Len(new(k0))] = e
       /\ e \in Before /\ (\A i \in DOMAIN l : l[i] \in Before) =>
            \A i \in DOMAIN new(k0) : new(k0)[i] \in Before
  <2>1. /\ Append(l, e) # <<>> /\ Append(l, e)[Len(Append(l, e))] = e
        /\ e \in Before /\ (\A i \in DOMAIN l : l[i] \in Before) =>
            \A i \in DOMAIN Append(l, e) : Append(l, e)[i] \in Before
    <3>1. /\ Len(l) \in Nat /\ DOMAIN l = 1 .. Len(l) /\ Len(Append(l, e)) = Len(l) + 1
          /\ DOMAIN Append(l, e) = 1 .. Len(l) + 1 /\ Append(l, e)[Len(l) + 1] = e
          /\ \A i \in 1 .. Len(l) : Append(l, e)[i] = l[i]
      BY <1>4
    <3>2. Append(l, e) # <<>>
      BY <1>4
    <3>3. \A i \in 1 .. Len(l) + 1 : i \in 1 .. Len(l) \/ i = Len(l) + 1
      BY <3>1
    <3> QED
      BY <3>1, <3>2, <3>3
  <2> HIDE DEF new
  <2> QED
    BY <1>9, <2>1
<1> HIDE DEF new, k0
<1>12. ASSUME NEW t \in Sockets, NEW p \in sock'[t].pending
       PROVE  /\ \A i \in DOMAIN new(at(t, p)) : new(at(t, p))[i] \in Before
              /\ p.state # "requesting_challenge_response" => new(at(t, p)) # <<>>
  <2>1. CASE t # s
    <3>1. new(at(t, p)) = EventsOf(at(t, p))
      BY <1>8, <1>10, <2>1
    <3>2. p \in sock[t].pending
      BY <2>1 DEF StepOf
    <3> QED
      BY <3>1, <3>2 DEF LogInv, Key
  <2>2. CASE t = s /\ p.id = id
    <3>1. at(t, p) = k0
      BY <1>10, <2>2
    <3> QED
      BY <1>11, <2>2, <3>1
  <2>3. CASE t = s /\ p.id # id
    <3>1. new(at(t, p)) = EventsOf(at(t, p))
      BY <1>8, <1>10, <2>3
    <3>2. Continues(sock[s], p)
      BY <2>3
    <3>3. CASE \E q \in sock[s].pending : q.id = p.id
            /\ (p.state # "requesting_challenge_response" => q.state # "requesting_challenge_response")
      BY <2>3, <3>1, <3>3 DEF LogInv, Key
    <3>4. CASE p.id = sock[s].next_connection_index /\ p.state = "requesting_challenge_response"
      BY <2>3, <3>1, <3>4, FreshStory
    <3> QED
      BY <3>2, <3>3, <3>4 DEF Continues
  <2> QED
    BY <2>1, <2>2, <2>3
<1>13. ASSUME NEW t \in Sockets, NEW c \in sock'[t].connections
       PROVE  new(at(t, c)) # <<>> /\ GoesOn(sock'[t], new(at(t, c))[Len(new(at(t, c)))])
  <2>1. CASE at(t, c) = k0
    <3>1. t = s /\ GoesOn(sock'[s], e)
      BY <1>10, <2>1
    <3> QED
      BY <1>11, <2>1, <3>1
  <2>2. CASE at(t, c) # k0
    <3>1. c \in sock[t].connections
      BY <1>10, <2>2 DEF StepOf
    <3>2. new(at(t, c)) = EventsOf(at(t, c))
      BY <1>8, <2>2
    <3>3. new(at(t, c)) # <<>> /\ GoesOn(sock[t], new(at(t, c))[Len(new(at(t, c)))])
      BY <3>1, <3>2 DEF LogInv, Key
    <3> QED
      BY <3>3 DEF GoesOn, Aged, StepOf
  <2> QED
    BY <2>1, <2>2
<1>14. \A t \in Sockets : \A x : EventsOf(Key(t, x))' = new(at(t, x))
  BY <1>2 DEF EventsOf, Key, new
<1> HIDE DEF at
<1>15. \A t \in Sockets : \A p \in sock'[t].pending :
        /\ \A i \in DOMAIN EventsOf(Key(t, p))' : EventsOf(Key(t, p))'[i] \in Before
        /\ p.state # "requesting_challenge_response" => EventsOf(Key(t, p))' # <<>>
  BY <1>12, <1>14
<1>16. \A t \in Sockets : \A c \in sock'[t].connections :
        EventsOf(Key(t, c))' # <<>> /\ GoesOn(sock[t], EventsOf(Key(t, c))[Len(EventsOf(Key(t, c)))])'
  BY <1>13, <1>14 DEF GoesOn
<1> QED
  BY <1>6, <1>7, <1>15, <1>16 DEF LogInv
-----------------------------------------------------------------------------
(* The kinds of steps. *)

LEMMA SocketFacts ==
    ASSUME SocketInv, NEW s \in Sockets
    PROVE  /\ SocketOK(s, sock[s]) /\ ShapeOK(s, sock[s]) /\ IdsOK(sock[s]) /\ TableOK(sock[s])
           /\ DOMAIN sock = Sockets /\ DOMAIN sock[s] = SocketFields
           /\ sock[s].next_connection_index \in Nat \ {0} /\ sock[s].epoch \in Nat
           /\ \A p \in sock[s].pending :
                /\ PendingOK(s, sock[s].epoch, sock[s].next_connection_index, p)
                /\ Continues(sock[s], p)
BY DEF SocketInv, LocalInv, SocketOK, ShapeOK, TableInv, Continues

\* The story of a pending connection can go on, and end; that of an established one can end.
LEMMA PendingStory ==
    ASSUME SocketInv, NEW s \in Sockets, NEW p \in sock[s].pending,
           NEW l, l = EventsOf(<<s, sock[s].epoch, p.id>>)
    PROVE  /\ \A i \in DOMAIN l : l[i] \in Before /\ l[i] \notin Terminal
           /\ p.state # "requesting_challenge_response" => l # <<>>
BY DEF SocketInv, LogInv, Key, Before, Terminal

LEMMA ConnectionStory ==
    ASSUME SocketInv, NEW s \in Sockets, NEW c \in sock[s].connections,
           NEW l, l = EventsOf(<<s, sock[s].epoch, c.id>>)
    PROVE  \A i \in DOMAIN l : l[i] \notin Terminal
<1>1. l # <<>> /\ l[Len(l)] \in {"established", "close_missed"}
  BY DEF SocketInv, LogInv, Key, GoesOn
<1>2. StoryOK(l)
  BY EmptyStory DEF SocketInv, LogInv, EventsOf
<1> QED
  BY <1>1, <1>2, StoryOpen

LEMMA PuzzleKept ==
    ASSUME NEW s, NEW S, NEW T, T.epoch = S.epoch, T.refreshes = S.refreshes,
           T.puzzle_manager = S.puzzle_manager
    PROVE  \A x, y : Used(s, S, x, y) => Used(s, T, x, y)
BY DEF Used

\* A pending connection of the initiator's changes, and maybe says so.
LEMMA StepReplace ==
    ASSUME SocketInv, NEW s \in Sockets, NEW p \in sock[s].pending, NEW q,
           p.type = "connection_initiator", q.type = p.type, q.id = p.id,
           PendingOK(s, sock[s].epoch, sock[s].next_connection_index, q),
           StepOf(s), SameBut(sock[s], sock'[s], {"pending", "requests", "solver"}),
           sock'[s].pending = (sock[s].pending \ {p}) \cup {q},
           accepted' = accepted, \A m \in net' : m \in net \/ PacketOK(m),
           \/ log' = log /\ (q.state # "requesting_challenge_response" =>
                                p.state # "requesting_challenge_response")
           \/ log' = Posted(log, s, p.id, "challenge_response")
    PROVE  SocketInv'
<1> DEFINE S == sock[s]
           T == sock'[s]
<1>1. /\ SocketOK(s, S) /\ ShapeOK(s, S) /\ IdsOK(S) /\ TableOK(S)
      /\ S.next_connection_index \in Nat \ {0}
      /\ \A x \in S.pending : Continues(S, x)
  BY SocketFacts
<1>2. /\ T.status = S.status /\ T.epoch = S.epoch /\ T.next_connection_index = S.next_connection_index
      /\ T.connects = S.connects /\ T.connections = S.connections
      /\ T.id_table = S.id_table /\ T.address_table = S.address_table
      /\ T.puzzle_manager = S.puzzle_manager /\ T.refreshes = S.refreshes
  BY DEF SameBut, SocketFields
<1>3. ShapeOK(s, T)
  BY <1>1, <1>2 DEF ShapeOK, SameBut
<1>4. SocketInv => LocalInv /\ OnceInv /\ AcceptInv /\ TableInv /\ LogInv
  BY DEF SocketInv
<1>5. LocalInv'
  <2>1. SocketOK(s, T)
    BY <1>1, <1>2, <1>3, ReplaceKeeps
  <2> QED
    BY <1>4, <2>1, LocalStep
<1>6. OnceInv'
  <2>1. Hosts(T) \subseteq Hosts(S)
    BY DEF Hosts
  <2>2. \A x, y : Used(s, S, x, y) => Used(s, T, x, y)
    BY <1>2, PuzzleKept
  <2> QED
    BY <1>4, <2>1, <2>2, OnceKeeps
<1>7. AcceptInv'
  BY <1>2, <1>4, AcceptKeeps
<1>8. TableInv'
  <2>1. TablesOK(T)
    <3>1. \A x \in T.pending : \E y \in S.pending : y.id = x.id
      OBVIOUS
    <3>2. T.next_connection_index >= S.next_connection_index
      BY <1>1, <1>2
    <3> QED
      BY <1>1, <1>2, <3>1, <3>2, TablesKept DEF TableOK
  <2>2. HostOK(T)
    BY <1>1, <1>2 DEF TableOK, HostOK
  <2> QED
    BY <1>4, <2>1, <2>2 DEF TableInv, TableOK, StepOf
<1>9. LogInv'
  <2>0. Aged(S, T)
    BY <1>2 DEF Aged
  <2>1. CASE log' = log /\ (q.state # "requesting_challenge_response" =>
                                p.state # "requesting_challenge_response")
    <3>1. \A x \in T.pending : Continues(S, x)
      BY <1>1, <2>1 DEF Continues
    <3> QED
      BY <1>1, <1>2, <1>4, <2>0, <2>1, <3>1, LogSilent
  <2>2. CASE log' = Posted(log, s, p.id, "challenge_response")
    <3> DEFINE l == EventsOf(<<s, sock[s].epoch, p.id>>)
    <3>1. \A i \in DOMAIN l : l[i] \in Before /\ l[i] \notin Terminal
      BY PendingStory
    <3>2. \A x \in T.pending : x.id # p.id => Continues(S, x)
      BY <1>1
    <3>3. \A c \in T.connections : c.id # p.id /\ c \in S.connections
      BY <1>1, <1>2 DEF IdsOK
    <3>4. p.id \in 1 .. T.next_connection_index - 1
      BY <1>1, <1>2 DEF SocketOK, PendingOK
    <3>5. "challenge_response" \in Events /\ "challenge_response" \in Before
      BY DEF Events, Before
    <3> HIDE DEF l
    <3> QED
      BY <1>1, <1>2, <1>4, <2>0, <2>2, <3>1, <3>2, <3>3, <3>4, <3>5, LogPosts DEF l
  <2> QED
    BY <2>1, <2>2
<1> QED
  BY <1>5, <1>6, <1>7, <1>8, <1>9 DEF SocketInv

\* A pending connection ends.
LEMMA StepEndsPending ==
    ASSUME SocketInv, NEW s \in Sockets, NEW p \in sock[s].pending, NEW e \in Terminal,
           StepOf(s), SameBut(sock[s], sock'[s], {"pending"}), sock'[s].pending = sock[s].pending \ {p},
           accepted' = accepted, net' = net, log' = Posted(log, s, p.id, e)
    PROVE  SocketInv'
<1> DEFINE S == sock[s]
           T == sock'[s]
<1>1. /\ SocketOK(s, S) /\ ShapeOK(s, S) /\ IdsOK(S) /\ TableOK(S)
      /\ S.next_connection_index \in Nat \ {0}
      /\ \A x \in S.pending : Continues(S, x)
  BY SocketFacts
<1>2. /\ T.status = S.status /\ T.epoch = S.epoch /\ T.next_connection_index = S.next_connection_index
      /\ T.connects = S.connects /\ T.connections = S.connections
      /\ T.id_table = S.id_table /\ T.address_table = S.address_table
      /\ T.puzzle_manager = S.puzzle_manager /\ T.refreshes = S.refreshes
  BY DEF SameBut, SocketFields
<1>3. ShapeOK(s, T)
  BY <1>1, <1>2 DEF ShapeOK, SameBut
<1>4. SocketInv => LocalInv /\ OnceInv /\ AcceptInv /\ TableInv /\ LogInv
  BY DEF SocketInv
<1>5. LocalInv'
  <2>1. SocketOK(s, T)
    BY <1>1, <1>2, <1>3, FewerKeeps
  <2> QED
    BY <1>4, <2>1, LocalStep
<1>6. OnceInv'
  <2>1. Hosts(T) \subseteq Hosts(S)
    BY DEF Hosts
  <2>2. \A x, y : Used(s, S, x, y) => Used(s, T, x, y)
    BY <1>2, PuzzleKept
  <2> QED
    BY <1>4, <2>1, <2>2, OnceKeeps
<1>7. AcceptInv'
  BY <1>2, <1>4, AcceptKeeps
<1>8. TableInv'
  <2>1. TablesOK(T)
    <3>1. \A x \in T.pending : \E y \in S.pending : y.id = x.id
      OBVIOUS
    <3>2. T.next_connection_index >= S.next_connection_index
      BY <1>1, <1>2
    <3> QED
      BY <1>1, <1>2, <3>1, <3>2, TablesKept DEF TableOK
  <2>2. HostOK(T)
    BY <1>1, <1>2, HostFewer DEF TableOK
  <2> QED
    BY <1>4, <2>1, <2>2 DEF TableInv, TableOK, StepOf
<1>9. LogInv'
  <2> DEFINE l == EventsOf(<<s, sock[s].epoch, p.id>>)
  <2>1. \A i \in DOMAIN l : l[i] \in Before /\ l[i] \notin Terminal
    BY PendingStory
  <2>2. \A x \in T.pending : x.id # p.id /\ Continues(S, x)
    BY <1>1 DEF IdsOK
  <2>3. \A c \in T.connections : c.id # p.id /\ c \in S.connections
    BY <1>1, <1>2 DEF IdsOK
  <2>4. p.id \in 1 .. T.next_connection_index - 1
    BY <1>1, <1>2 DEF SocketOK, PendingOK
  <2>5. e \in Events /\ e # "established"
    BY DEF Events, Terminal
  <2>6. Aged(S, T)
    BY <1>2 DEF Aged
  <2> HIDE DEF l
  <2> QED
    BY <1>1, <1>2, <1>4, <2>6, <2>1, <2>2, <2>3, <2>4, <2>5, LogPosts DEF l
<1> QED
  BY <1>5, <1>6, <1>7, <1>8, <1>9 DEF SocketInv

\* An established connection ends.
LEMMA StepEndsConnection ==
    ASSUME SocketInv, NEW s \in Sockets, NEW c \in sock[s].connections, NEW e \in Terminal,
           StepOf(s), sock'[s] \in _remove_connection(sock[s], c),
           accepted' = accepted, \A m \in net' : m \in net \/ PacketOK(m), log' = Posted(log, s, c.id, e)
    PROVE  SocketInv'
<1> DEFINE S == sock[s]
           T == sock'[s]
<1>1. /\ SocketOK(s, S) /\ ShapeOK(s, S) /\ IdsOK(S) /\ TableOK(S)
      /\ S.next_connection_index \in Nat \ {0}
      /\ \A x \in S.pending : Continues(S, x)
  BY SocketFacts
<1>2. Removal(S, T, c) /\ TablesOK(T)
  <2> HIDE DEF S, T
  <2> QED
    BY <1>1, RemoveTables DEF TableOK, S, T
<1>3. /\ T.status = S.status /\ T.epoch = S.epoch /\ T.next_connection_index = S.next_connection_index
      /\ T.connects = S.connects /\ T.pending = S.pending
      /\ T.puzzle_manager = S.puzzle_manager /\ T.refreshes = S.refreshes
      /\ T.connections = S.connections \ {c} /\ DOMAIN T = SocketFields
  BY <1>2 DEF Removal, SameBut, SocketFields
<1>4. ShapeOK(s, T)
  BY <1>1, <1>3 DEF ShapeOK
<1>5. SocketInv => LocalInv /\ OnceInv /\ AcceptInv /\ TableInv /\ LogInv
  BY DEF SocketInv
<1>6. LocalInv'
  <2>1. SocketOK(s, T)
    BY <1>1, <1>3, <1>4, FewerKeeps
  <2> QED
    BY <1>5, <2>1, LocalStep
<1>7. OnceInv'
  <2>1. Hosts(T) \subseteq Hosts(S)
    BY <1>3 DEF Hosts
  <2>2. \A x, y : Used(s, S, x, y) => Used(s, T, x, y)
    BY <1>3, PuzzleKept
  <2> QED
    BY <1>5, <2>1, <2>2, OnceKeeps
<1>8. AcceptInv'
  BY <1>3, <1>5, AcceptKeeps
<1>9. TableInv'
  <2>1. HostOK(T)
    BY <1>1, <1>2, <1>3, HostFewer DEF TableOK, Removal
  <2> QED
    BY <1>2, <1>5, <2>1 DEF TableInv, TableOK, StepOf
<1>10. LogInv'
  <2> DEFINE l == EventsOf(<<s, sock[s].epoch, c.id>>)
  <2>1. \A i \in DOMAIN l : l[i] \notin Terminal
    BY ConnectionStory
  <2>2. \A x \in T.pending : x.id # c.id /\ Continues(S, x)
    BY <1>1, <1>3 DEF IdsOK
  <2>3. \A d \in T.connections : d.id # c.id /\ d \in S.connections
    BY <1>1, <1>3 DEF IdsOK
  <2>4. c.id \in 1 .. T.next_connection_index - 1
    BY <1>1, <1>3 DEF SocketOK, ConnectionOK
  <2>5. e \in Events /\ e # "established"
    BY DEF Events, Terminal
  <2>6. Aged(S, T)
    BY <1>2 DEF Aged, Removal
  <2> HIDE DEF l
  <2> QED
    BY <1>1, <1>3, <1>5, <2>6, <2>1, <2>2, <2>3, <2>4, <2>5, LogPosts DEF l
<1> QED
  BY <1>6, <1>7, <1>8, <1>9, <1>10 DEF SocketInv

\* A step without an event after which there are no more connections than before.
LEMMA StepFewer ==
    ASSUME SocketInv, NEW s \in Sockets, StepOf(s), ShapeOK(s, sock'[s]),
           sock'[s].epoch = sock[s].epoch,
           sock'[s].next_connection_index = sock[s].next_connection_index,
           sock'[s].pending = sock[s].pending, sock'[s].connections \subseteq sock[s].connections,
           TableOK(sock'[s]), Aged(sock[s], sock'[s]),
           \A x, y : Used(s, sock[s], x, y) => Used(s, sock'[s], x, y),
           accepted' = accepted, log' = log, \A m \in net' : m \in net \/ PacketOK(m)
    PROVE  SocketInv'
<1> DEFINE S == sock[s]
           T == sock'[s]
<1>1. /\ SocketOK(s, S) /\ S.next_connection_index \in Nat \ {0}
      /\ \A x \in S.pending : Continues(S, x)
  BY SocketFacts
<1>2. SocketInv => LocalInv /\ OnceInv /\ AcceptInv /\ TableInv /\ LogInv
  BY DEF SocketInv
<1>3. LocalInv'
  <2>1. SocketOK(s, T)
    BY <1>1, FewerKeeps
  <2> QED
    BY <1>2, <2>1, LocalStep
<1>4. OnceInv'
  <2>1. Hosts(T) \subseteq Hosts(S)
    BY DEF Hosts
  <2> QED
    BY <1>2, <2>1, OnceKeeps
<1>5. AcceptInv'
  BY <1>2, AcceptKeeps
<1>6. TableInv'
  BY <1>2 DEF TableInv, StepOf
<1>7. LogInv'
  BY <1>1, <1>2, LogSilent
<1> QED
  BY <1>3, <1>4, <1>5, <1>6, <1>7 DEF SocketInv

\* A step without an event that leaves the connections and the tables as they are.
LEMMA StepSilent ==
    ASSUME SocketInv, NEW s \in Sockets, StepOf(s), ShapeOK(s, sock'[s]),
           sock'[s].epoch = sock[s].epoch, sock'[s].connects = sock[s].connects,
           sock'[s].next_connection_index = sock[s].next_connection_index,
           sock'[s].pending = sock[s].pending, sock'[s].connections = sock[s].connections,
           sock'[s].id_table = sock[s].id_table, sock'[s].address_table = sock[s].address_table,
           \A x, y : Used(s, sock[s], x, y) => Used(s, sock'[s], x, y),
           accepted' = accepted, log' = log, \A m \in net' : m \in net \/ PacketOK(m)
    PROVE  SocketInv'
<1>1. TableOK(sock[s])
  BY SocketFacts
<1>2. TableOK(sock'[s])
  BY <1>1 DEF TableOK, TablesOK, HostOK
<1>3. Aged(sock[s], sock'[s])
  BY DEF Aged
<1> QED
  BY <1>2, <1>3, StepFewer

\* A step that changes the status only, if anything.
LEMMA StepStatus ==
    ASSUME SocketInv, NEW s \in Sockets, StepOf(s), SameBut(sock[s], sock'[s], {"status"}),
           sock'[s].status \in Statuses, net' = net, log' = log, accepted' = accepted
    PROVE  SocketInv'
<1> DEFINE S == sock[s]
           T == sock'[s]
<1>1. ShapeOK(s, S)
  BY SocketFacts
<1>2. /\ T.epoch = S.epoch /\ T.next_connection_index = S.next_connection_index
      /\ T.connects = S.connects /\ T.pending = S.pending /\ T.connections = S.connections
      /\ T.id_table = S.id_table /\ T.address_table = S.address_table
      /\ T.puzzle_manager = S.puzzle_manager /\ T.refreshes = S.refreshes
  BY DEF SameBut, SocketFields
<1>3. ShapeOK(s, T)
  BY <1>1, <1>2 DEF ShapeOK, SameBut
<1>4. \A x, y : Used(s, S, x, y) => Used(s, T, x, y)
  BY <1>2, PuzzleKept
<1> QED
  BY <1>2, <1>3, <1>4, StepSilent

\* Packets that prove nothing.
LEMMA PlainPackets ==
    ASSUME NEW m, m.type \in {"connect_challenge_request", "connect_reject", "disconnect"}
    PROVE  PacketOK(m)
BY DEF PacketOK

\* A step that only sends packets.
LEMMA StepSends ==
    ASSUME SocketInv, NEW s \in Sockets, UNCHANGED <<sock, log, accepted>>,
           \A m \in net' : m \in net \/ PacketOK(m)
    PROVE  SocketInv'
<1>1. StepOf(s) /\ ShapeOK(s, sock'[s])
  BY SocketFacts DEF StepOf
<1> QED
  BY <1>1, StepSilent
-----------------------------------------------------------------------------
(* The application's calls. *)

LEMMA ConnectKeeps ==
    ASSUME SocketInv, NEW s \in Sockets, NEW t \in Sockets \ {s}, connect(s, t)
    PROVE  SocketInv'
<1> DEFINE S == sock[s]
           T == sock'[s]
           id == S.next_connection_index
           p == [id |-> id, type |-> "connection_initiator",
                 state |-> "requesting_challenge_response", address |-> t,
                 initiator_nonce |-> InitiatorNonce(s, id, 0), host_nonce |-> Unset,
                 initial_send_sequence |-> RandomSequence(s, id), initial_recv_sequence |-> Unset,
                 shared_secret |-> {}, symmetric_key |-> Unset, init_vector |-> Unset,
                 client_identity |-> Unset, puzzle_solution |-> Unset, puzzle_request_index |-> 0,
                 puzzle_retried |-> FALSE, state_send_retry_count |-> ChallengeRetryCount,
                 requests_sent |-> 0]
<1>1. /\ SocketOK(s, S) /\ ShapeOK(s, S) /\ DOMAIN sock = Sockets /\ DOMAIN S = SocketFields /\ TableOK(S)
      /\ id \in Nat \ {0} /\ \A x \in S.pending : Continues(S, x)
  BY SocketFacts
<1>2. /\ S.connects < MaxConnects[s]
      /\ sock' = [sock EXCEPT ![s].pending = @ \cup {p}, ![s].next_connection_index = id + 1,
                              ![s].connects = @ + 1]
      /\ net' = net \cup {_send_challenge_request(s, p)}
      /\ UNCHANGED <<log, accepted>>
  BY DEF connect
<1>3. /\ DOMAIN p = PendingFields /\ p.id = id /\ p.type = "connection_initiator"
      /\ p.state = "requesting_challenge_response" /\ p.address = t
      /\ p.initiator_nonce = <<s, S.epoch, id, 0>> /\ p.initial_send_sequence = <<s, S.epoch, id>>
      /\ p.state_send_retry_count = ChallengeRetryCount
  BY DEF PendingFields, InitiatorNonce, RandomSequence
<1> HIDE DEF p
<1>4. /\ StepOf(s) /\ DOMAIN T = SocketFields
      /\ T.status = S.status /\ T.epoch = S.epoch /\ T.next_connection_index = id + 1
      /\ T.connects = S.connects + 1 /\ T.connections = S.connections
      /\ T.id_table = S.id_table /\ T.address_table = S.address_table
      /\ T.puzzle_manager = S.puzzle_manager /\ T.refreshes = S.refreshes
      /\ T.pending = S.pending \cup {p}
  BY <1>1, <1>2 DEF StepOf, SocketFields
<1>5. ShapeOK(s, T)
  <2>1. T.connects \in 0 .. MaxConnects[s] /\ T.next_connection_index \in Nat \ {0}
    <3>1. MaxConnects[s] \in Nat
      BY SocketAssumption
    <3>2. S.connects \in 0 .. MaxConnects[s]
      BY <1>1 DEF ShapeOK
    <3> HIDE DEF S, T, id
    <3> QED
      BY <1>1, <1>2, <1>4, <3>1, <3>2
  <2> QED
    BY <1>1, <1>4, <2>1 DEF ShapeOK
<1>6. PendingOK(s, S.epoch, T.next_connection_index, p)
  <2>1. id \in 1 .. (id + 1) - 1 /\ ChallengeRetryCount \in 0 .. ChallengeRetryCount
    BY <1>1, SocketAssumption
  <2>2. Numbered(s, <<s, S.epoch, id, 0>>, <<s, S.epoch, id>>)
    BY DEF Numbered
  <2> QED
    BY <1>3, <1>4, <2>1, <2>2 DEF PendingOK
<1>7. SocketInv => LocalInv /\ OnceInv /\ AcceptInv /\ TableInv /\ LogInv
  BY DEF SocketInv
<1>8. LocalInv'
  <2>1. SocketOK(s, T)
    BY <1>1, <1>3, <1>4, <1>5, <1>6, AddKeeps
  <2> QED
    BY <1>4, <1>7, <2>1, LocalStep
<1>9. OnceInv'
  <2>1. Hosts(T) \subseteq Hosts(S)
    BY <1>3, <1>4 DEF Hosts
  <2>2. \A x, y : Used(s, S, x, y) => Used(s, T, x, y)
    BY <1>4, PuzzleKept
  <2> QED
    BY <1>2, <1>4, <1>7, <2>1, <2>2, OnceKeeps
<1>10. AcceptInv'
  <2>1. PacketOK(_send_challenge_request(s, p))
    BY PlainPackets DEF _send_challenge_request, Packet
  <2> QED
    BY <1>2, <1>4, <1>7, <2>1, AcceptKeeps
<1>11. TableInv'
  <2>1. TablesOK(T)
    <3>1. \A x \in T.pending : (\E y \in S.pending : y.id = x.id) \/ x.id = S.next_connection_index
      BY <1>3, <1>4
    <3>2. /\ T.next_connection_index \in Nat /\ S.next_connection_index \in Nat
          /\ T.next_connection_index >= S.next_connection_index
      BY <1>1, <1>4
    <3> QED
      BY <1>1, <1>4, <3>1, <3>2, TablesKept DEF TableOK
  <2>2. HostOK(T)
    <3>1. T.connects # 0
      BY <1>1, <1>4 DEF ShapeOK
    <3> QED
      BY <3>1 DEF HostOK
  <2> QED
    BY <1>4, <1>7, <2>1, <2>2 DEF TableInv, TableOK, StepOf
<1>12. LogInv'
  <2>1. \A x \in T.pending : Continues(S, x)
    BY <1>1, <1>3, <1>4 DEF Continues
  <2>2. T.next_connection_index \in Nat /\ T.next_connection_index >= S.next_connection_index
    BY <1>1, <1>4
  <2>3. Aged(S, T)
    BY <1>4 DEF Aged
  <2>4. T.connections \subseteq S.connections /\ T.epoch = S.epoch
    BY <1>4
  <2> QED
    BY <1>2, <1>4, <1>7, <2>1, <2>2, <2>3, <2>4, LogSilent
<1> QED
  BY <1>8, <1>9, <1>10, <1>11, <1>12 DEF SocketInv

LEMMA AcceptChallengeKeeps ==
    ASSUME SocketInv, NEW s \in Sockets, NEW p \in sock[s].pending, accept_connection_challenge(s, p)
    PROVE  SocketInv'
<1> DEFINE S == sock[s]
           q == [p EXCEPT !.state = "computing_puzzle_solution", !.state_send_retry_count = 0,
                          !.puzzle_request_index = S.requests]
           request == [index |-> S.requests,
                       solution |-> Solution(p.client_identity, p.initiator_nonce, p.host_nonce)]
<1>1. /\ DOMAIN sock = Sockets /\ DOMAIN S = SocketFields
      /\ PendingOK(s, S.epoch, S.next_connection_index, p)
  BY SocketFacts
<1>2. /\ p.state = "awaiting_local_challenge_accept"
      /\ sock' = [sock EXCEPT ![s] = [Replaced(S, p, q) EXCEPT !.requests = @ + 1,
                                                               !.solver = Append(@, request)]]
      /\ UNCHANGED <<net, log, accepted>>
  BY DEF accept_connection_challenge
<1>3. /\ DOMAIN q = PendingFields /\ q.state = "computing_puzzle_solution" /\ q.state_send_retry_count = 0
      /\ q.id = p.id /\ q.type = p.type /\ q.address = p.address /\ q.host_nonce = p.host_nonce
      /\ q.shared_secret = p.shared_secret /\ q.initiator_nonce = p.initiator_nonce
      /\ q.initial_send_sequence = p.initial_send_sequence
  BY <1>1 DEF PendingOK, PendingFields
<1> HIDE DEF q, request
<1>4. /\ StepOf(s) /\ SameBut(S, sock'[s], {"pending", "requests", "solver"})
      /\ sock'[s].pending = (S.pending \ {p}) \cup {q}
  BY <1>1, <1>2 DEF StepOf, SameBut, SocketFields, Replaced
<1>5. p.type = "connection_initiator"
  BY <1>1, <1>2 DEF PendingOK
<1>6. PendingOK(s, S.epoch, S.next_connection_index, q)
  <2>1. 0 \in 0 .. ChallengeRetryCount
    BY SocketAssumption
  <2> QED
    BY <1>1, <1>2, <1>3, <1>5, <2>1 DEF PendingOK
<1> QED
  BY <1>2, <1>3, <1>4, <1>5, <1>6, StepReplace

\* The application's disconnect missed a connection, and the history notes it.
LEMMA StepMisses ==
    ASSUME SocketInv, NEW s \in Sockets, NEW c \in sock[s].connections, sock[s].id_table.disturbed,
           StepOf(s), SameBut(sock[s], sock'[s], {}), accepted' = accepted, net' = net,
           log' = Posted(log, s, c.id, "close_missed")
    PROVE  SocketInv'
<1> DEFINE S == sock[s]
           T == sock'[s]
<1>1. /\ SocketOK(s, S) /\ ShapeOK(s, S) /\ IdsOK(S) /\ TableOK(S)
      /\ S.next_connection_index \in Nat \ {0}
      /\ \A x \in S.pending : Continues(S, x)
  BY SocketFacts
<1>2. /\ T.status = S.status /\ T.epoch = S.epoch /\ T.next_connection_index = S.next_connection_index
      /\ T.connects = S.connects /\ T.connections = S.connections /\ T.pending = S.pending
      /\ T.id_table = S.id_table /\ T.address_table = S.address_table
      /\ T.puzzle_manager = S.puzzle_manager /\ T.refreshes = S.refreshes
  BY DEF SameBut, SocketFields
<1>3. ShapeOK(s, T)
  BY <1>1, <1>2 DEF ShapeOK, SameBut
<1>4. SocketInv => LocalInv /\ OnceInv /\ AcceptInv /\ TableInv /\ LogInv
  BY DEF SocketInv
<1>5. LocalInv'
  <2>1. SocketOK(s, T)
    BY <1>1, <1>2, <1>3, FewerKeeps
  <2> QED
    BY <1>4, <2>1, LocalStep
<1>6. OnceInv'
  <2>1. Hosts(T) \subseteq Hosts(S)
    BY <1>2 DEF Hosts
  <2>2. \A x, y : Used(s, S, x, y) => Used(s, T, x, y)
    BY <1>2, PuzzleKept
  <2> QED
    BY <1>4, <2>1, <2>2, OnceKeeps
<1>7. AcceptInv'
  BY <1>2, <1>4, AcceptKeeps
<1>8. TableInv'
  <2>1. TableOK(T)
    BY <1>1, <1>2 DEF TableOK, TablesOK, HostOK
  <2> QED
    BY <1>4, <2>1 DEF TableInv, StepOf
<1>9. LogInv'
  <2> DEFINE l == EventsOf(<<s, sock[s].epoch, c.id>>)
  <2>1. \A i \in DOMAIN l : l[i] \notin Terminal
    BY ConnectionStory
  <2>2. \A x \in T.pending : x.id # c.id /\ Continues(S, x)
    BY <1>1, <1>2 DEF IdsOK
  <2>3. \A d \in T.connections : d \in S.connections
    BY <1>2
  <2>4. c.id \in 1 .. T.next_connection_index - 1
    BY <1>1, <1>2 DEF SocketOK, ConnectionOK
  <2>5. "close_missed" \in Events /\ GoesOn(T, "close_missed") /\ Aged(S, T)
    BY <1>2 DEF Events, GoesOn, Aged
  <2> HIDE DEF l
  <2> QED
    BY <1>1, <1>2, <1>4, <2>1, <2>2, <2>3, <2>4, <2>5, LogPosts DEF l
<1> QED
  BY <1>5, <1>6, <1>7, <1>8, <1>9 DEF SocketInv

LEMMA UndefinedKeeps ==
    ASSUME SocketInv, NEW s \in Sockets, Undefined(s), log' = log, accepted' = accepted
    PROVE  SocketInv'
<1> DEFINE S == sock[s]
           T == sock'[s]
<1>1. DOMAIN sock = Sockets /\ DOMAIN S = SocketFields /\ ShapeOK(s, S)
  BY SocketFacts
<1>2. sock' = [sock EXCEPT ![s].status = "undefined"] /\ net' = net
  BY DEF Undefined
<1>3. StepOf(s) /\ SameBut(S, T, {"status"}) /\ T.status \in Statuses
  BY <1>1, <1>2 DEF StepOf, SameBut, SocketFields, Statuses
<1> QED
  BY <1>2, <1>3, StepStatus

\* What the lookup by an id returns.
LEMMA FoundById ==
    ASSUME NEW S, TablesOK(S), NEW id, NEW pointer \in _find_connection_by_id(S, id)
    PROVE  \/ /\ pointer = Null
              /\ \A c \in S.connections : c.id = id => S.id_table.disturbed
           \/ /\ pointer = id /\ pointer # Null
              /\ \A p \in S.pending : p.id # id
<1>1. CASE \E e \in S.id_table.entries : e.key = id /\ e.value = pointer
  <2>1. PICK e \in S.id_table.entries : e.key = id /\ e.value = pointer
    BY <1>1
  <2>2. e.key = e.value /\ e.value \in 1 .. S.next_connection_index - 1 /\ \A p \in S.pending : p.id # e.value
    BY DEF TablesOK
  <2>3. e.value # 0
    BY <2>2
  <2> QED
    BY <2>1, <2>2, <2>3 DEF Null
<1>2. CASE pointer = Null /\ MayMiss(S.id_table, id)
  <2>1. ASSUME NEW c \in S.connections, c.id = id PROVE S.id_table.disturbed
    <3>1. [key |-> c.id, value |-> c.id] \in S.id_table.entries
      BY DEF TablesOK
    <3>2. [key |-> c.id, value |-> c.id].key = id
      BY <2>1
    <3> QED
      BY <1>2, <3>1, <3>2 DEF MayMiss, Entries
  <2> QED
    BY <1>2, <2>1
<1> QED
  BY <1>1, <1>2 DEF _find_connection_by_id, find, Entries

LEMMA DisconnectKeeps ==
    ASSUME SocketInv, NEW s \in Sockets, NEW id, disconnect(s, id)
    PROVE  SocketInv'
<1> DEFINE S == sock[s]
           T == sock'[s]
<1>1. /\ SocketOK(s, S) /\ ShapeOK(s, S) /\ IdsOK(S) /\ TablesOK(S)
      /\ DOMAIN sock = Sockets /\ DOMAIN S = SocketFields /\ "closed" \in Terminal
  BY SocketFacts DEF Terminal, TableOK
<1>2. /\ ~Has(S, id) => log' = log
      /\ Has(S, id) /\ ~Has(T, id) => log' = Posted(log, s, id, "closed")
      /\ Has(S, id) /\ Has(T, id) => log' = CloseMissed(s, id)
      /\ accepted' = accepted
  BY DEF disconnect
<1>3. PICK pointer \in _find_connection_by_id(S, id) :
        \/ \E c \in Pointed(S, pointer) : CloseConnection(s, S, c, {})
        \/ /\ pointer = Null
           /\ sock' = [sock EXCEPT ![s] = [S EXCEPT !.pending = {p \in @ : p.id # id}]]
           /\ net' = net \cup {}
        \/ Dangling(S, pointer) /\ Undefined(s)
  BY DEF disconnect, _disconnect
<1>4. \/ /\ pointer = Null
         /\ \A c \in S.connections : c.id = id => S.id_table.disturbed
      \/ /\ pointer = id /\ pointer # Null
         /\ \A p \in S.pending : p.id # id
  <2> HIDE DEF S
  <2> QED
    BY <1>1, <1>3, FoundById
<1>5. CASE \E c \in Pointed(S, pointer) : CloseConnection(s, S, c, {})
  <2>1. PICK c \in Pointed(S, pointer) : \E U \in _remove_connection(S, c) :
            /\ sock' = [sock EXCEPT ![s] = U]
            /\ net' = net \cup {} \cup {DisconnectPacket(s, c)}
    BY <1>5 DEF CloseConnection
  <2>2. c \in S.connections /\ c.id = pointer
    BY DEF Pointed
  <2>3. StepOf(s) /\ T \in _remove_connection(S, c)
    BY <1>1, <2>1 DEF StepOf
  <2>4. c.id # Null
    BY <1>1, <2>2 DEF SocketOK, ConnectionOK, Null
  <2>5. c.id = id
    BY <1>4, <2>2, <2>4
  <2>6. T.connections = S.connections \ {c} /\ T.pending = S.pending
    <3>1. Removal(S, T, c)
      BY <1>1, <2>2, <2>3, RemoveTables
    <3> QED
      BY <3>1 DEF Removal, SameBut, SocketFields
  <2>7. Has(S, id) /\ ~Has(T, id)
    BY <1>1, <2>2, <2>5, <2>6 DEF Has, IdsOK
  <2>8. PacketOK(DisconnectPacket(s, c))
    BY PlainPackets DEF DisconnectPacket, Packet
  <2> QED
    BY <1>1, <1>2, <2>1, <2>2, <2>3, <2>5, <2>7, <2>8, StepEndsConnection
<1>6. CASE /\ pointer = Null
           /\ sock' = [sock EXCEPT ![s] = [S EXCEPT !.pending = {p \in @ : p.id # id}]]
           /\ net' = net \cup {}
  <2>1. /\ StepOf(s) /\ SameBut(S, T, {"pending"}) /\ net' = net
        /\ T.pending = {p \in S.pending : p.id # id} /\ T.connections = S.connections
    BY <1>1, <1>6 DEF StepOf, SameBut, SocketFields
  <2>2. CASE \E p \in S.pending : p.id = id
    <3>1. PICK p \in S.pending : p.id = id
      BY <2>2
    <3>2. T.pending = S.pending \ {p}
      BY <1>1, <2>1, <3>1 DEF IdsOK
    <3>3. Has(S, id) /\ ~Has(T, id)
      BY <1>1, <2>1, <3>1 DEF Has, IdsOK
    <3> QED
      BY <1>1, <1>2, <2>1, <3>1, <3>2, <3>3, StepEndsPending
  <2>3. ASSUME \A p \in S.pending : p.id # id
        PROVE  T.pending = S.pending /\ SameBut(S, T, {}) /\ (Has(S, id) <=> Has(T, id))
    <3>1. T.pending = S.pending
      BY <2>1, <2>3
    <3> QED
      BY <2>1, <3>1 DEF SameBut, Has
  <2>4. ASSUME SameBut(S, T, {}), log' = log PROVE SocketInv'
    BY <1>1, <1>2, <2>1, <2>4, StepStatus DEF SameBut, ShapeOK, SocketFields
  <2>5. CASE \E c \in S.connections : c.id = id /\ \A p \in S.pending : p.id # id
    <3>1. PICK c \in S.connections : c.id = id
      BY <2>5
    <3>2. SameBut(S, T, {}) /\ Has(S, id) /\ Has(T, id)
      BY <2>3, <2>5, <3>1 DEF Has
    <3>3. S.id_table.disturbed
      BY <1>4, <1>6, <3>1
    <3>4. log' = log \/ log' = Posted(log, s, id, "close_missed")
      BY <1>2, <3>2 DEF CloseMissed
    <3>5. CASE log' = log
      BY <2>4, <3>2, <3>5
    <3>6. CASE log' = Posted(log, s, id, "close_missed")
      BY <1>2, <2>1, <3>1, <3>2, <3>3, <3>6, StepMisses
    <3> QED
      BY <3>4, <3>5, <3>6
  <2>6. CASE ~Has(S, id)
    <3>1. \A p \in S.pending : p.id # id
      BY <2>6 DEF Has
    <3> QED
      BY <1>2, <2>3, <2>4, <2>6, <3>1
  <2> QED
    BY <2>2, <2>5, <2>6 DEF Has
<1>7. CASE Dangling(S, pointer) /\ Undefined(s)
  <2>1. ~Has(S, id)
    BY <1>4, <1>7 DEF Has, Dangling, Pointed
  <2> QED
    BY <1>2, <1>7, <2>1, UndefinedKeeps
<1> QED
  BY <1>3, <1>5, <1>6, <1>7

LEMMA SetAllowsKeeps ==
    ASSUME SocketInv, NEW s \in Sockets, NEW allow, set_allows_connections(s, allow)
    PROVE  SocketInv'
<1> DEFINE S == sock[s]
           T == sock'[s]
<1>1. DOMAIN sock = Sockets /\ DOMAIN S = SocketFields /\ ShapeOK(s, S)
  BY SocketFacts
<1>2. sock' = [sock EXCEPT ![s].allow_connections = allow] /\ UNCHANGED <<net, log, accepted>>
  BY DEF set_allows_connections
<1>3. StepOf(s) /\ SameBut(S, T, {"allow_connections"})
  BY <1>1, <1>2 DEF StepOf, SameBut, SocketFields
<1>4. /\ T.status = S.status /\ T.epoch = S.epoch /\ T.next_connection_index = S.next_connection_index
      /\ T.connects = S.connects /\ T.pending = S.pending /\ T.connections = S.connections
      /\ T.id_table = S.id_table /\ T.address_table = S.address_table
      /\ T.puzzle_manager = S.puzzle_manager /\ T.refreshes = S.refreshes
  BY <1>3 DEF SameBut, SocketFields
<1>5. ShapeOK(s, T)
  BY <1>1, <1>3, <1>4 DEF ShapeOK, SameBut
<1>6. \A x, y : Used(s, S, x, y) => Used(s, T, x, y)
  BY <1>4, PuzzleKept
<1> QED
  BY <1>2, <1>3, <1>4, <1>5, <1>6, StepSilent

LEMMA DestroyKeeps ==
    ASSUME SocketInv, NEW s \in Sockets, Destroy(s)
    PROVE  SocketInv'
<1> DEFINE S == sock[s]
           T == sock'[s]
<1>1. DOMAIN sock = Sockets /\ DOMAIN S = SocketFields
  BY SocketFacts
<1>2. sock' = [sock EXCEPT ![s].status = "closing"] /\ UNCHANGED <<net, log, accepted>>
  BY DEF Destroy
<1>3. StepOf(s) /\ SameBut(S, T, {"status"}) /\ T.status \in Statuses
  BY <1>1, <1>2 DEF StepOf, SameBut, SocketFields, Statuses
<1> QED
  BY <1>2, <1>3, StepStatus

\* One turn of the destructor's loop removes a connection, or it is the last turn.
LEMMA CloseNextKeeps ==
    ASSUME SocketInv, NEW s \in Sockets, CloseNext(s)
    PROVE  SocketInv'
<1> DEFINE S == sock[s]
           T == sock'[s]
<1>1. /\ DOMAIN sock = Sockets /\ DOMAIN S = SocketFields /\ ShapeOK(s, S) /\ SocketOK(s, S)
      /\ TableOK(S)
  BY SocketFacts
<1>2. log' = log /\ accepted' = accepted
  BY DEF CloseNext
<1>3. CASE \E status \in {"closed", "hung"} : sock' = [sock EXCEPT ![s].status = status] /\ net' = net
  <2>1. PICK status \in {"closed", "hung"} : sock' = [sock EXCEPT ![s].status = status] /\ net' = net
    BY <1>3
  <2>2. StepOf(s) /\ SameBut(S, T, {"status"}) /\ T.status \in Statuses
    BY <1>1, <2>1 DEF StepOf, SameBut, SocketFields, Statuses
  <2> QED
    BY <1>2, <2>1, <2>2, StepStatus
<1>4. CASE \E c \in S.connections : CloseConnection(s, S, c, {})
  <2>1. PICK c \in S.connections : \E U \in _remove_connection(S, c) :
            /\ sock' = [sock EXCEPT ![s] = U]
            /\ net' = net \cup {} \cup {DisconnectPacket(s, c)}
    BY <1>4 DEF CloseConnection
  <2>2. StepOf(s) /\ T \in _remove_connection(S, c)
    BY <1>1, <2>1 DEF StepOf
  <2>3. Removal(S, T, c) /\ TablesOK(T)
    BY <1>1, <2>2, RemoveTables DEF TableOK
  <2>4. /\ T.status = S.status /\ T.epoch = S.epoch /\ T.next_connection_index = S.next_connection_index
        /\ T.connects = S.connects /\ T.pending = S.pending /\ T.connections \subseteq S.connections
        /\ T.puzzle_manager = S.puzzle_manager /\ T.refreshes = S.refreshes /\ DOMAIN T = SocketFields
    BY <2>3 DEF Removal, SameBut, SocketFields
  <2>5. ShapeOK(s, T)
    BY <1>1, <2>4 DEF ShapeOK
  <2>6. TableOK(T) /\ Aged(S, T)
    BY <1>1, <2>3, <2>4, HostFewer DEF TableOK, Removal, Aged
  <2>7. \A x, y : Used(s, S, x, y) => Used(s, T, x, y)
    BY <2>4, PuzzleKept
  <2>8. PacketOK(DisconnectPacket(s, c))
    BY PlainPackets DEF DisconnectPacket, Packet
  <2>9. \A m \in net' : m \in net \/ PacketOK(m)
    BY <2>1, <2>8
  <2> QED
    BY <1>2, <2>2, <2>4, <2>5, <2>6, <2>7, <2>9, StepFewer
<1> QED
  BY <1>3, <1>4 DEF CloseNext

\* A refresh moves the current puzzle and its table; the last one is out of date.
LEMMA TickKeeps ==
    ASSUME SocketInv, NEW s \in Sockets, tick(s)
    PROVE  SocketInv'
<1> DEFINE S == sock[s]
           T == sock'[s]
           pm == S.puzzle_manager
           qm == T.puzzle_manager
<1>1. DOMAIN sock = Sockets /\ DOMAIN S = SocketFields /\ ShapeOK(s, S) /\ S.epoch \in Nat
  BY SocketFacts
<1>2. /\ sock' = [sock EXCEPT ![s].refreshes = @ + 1,
                              ![s].puzzle_manager = Refresh(@, HostNonce(s, S.epoch, S.refreshes + 2))]
      /\ UNCHANGED <<net, log, accepted>>
  BY DEF tick
<1>3. /\ StepOf(s) /\ SameBut(S, T, {"refreshes", "puzzle_manager"})
      /\ T.refreshes = S.refreshes + 1
      /\ qm = Refresh(pm, HostNonce(s, S.epoch, S.refreshes + 2))
  BY <1>1, <1>2 DEF StepOf, SameBut, SocketFields
<1>4. /\ T.status = S.status /\ T.epoch = S.epoch /\ T.next_connection_index = S.next_connection_index
      /\ T.connects = S.connects /\ T.pending = S.pending /\ T.connections = S.connections
      /\ T.id_table = S.id_table /\ T.address_table = S.address_table
  BY <1>3 DEF SameBut, SocketFields
<1>5. /\ DOMAIN qm = ManagerFields /\ qm.current_nonce = HostNonce(s, S.epoch, S.refreshes + 2)
      /\ qm.last_nonce = pm.current_nonce /\ qm.last_nonce_table = pm.current_nonce_table
  BY <1>3 DEF Refresh, ManagerFields
<1>6. /\ S.refreshes \in Nat /\ pm.current_nonce = HostNonce(s, S.epoch, S.refreshes + 1)
      /\ pm.last_nonce = HostNonce(s, S.epoch, S.refreshes)
  BY <1>1 DEF ShapeOK
<1>7. S.refreshes + 2 = T.refreshes + 1 /\ T.refreshes \in Nat /\ S.refreshes < T.refreshes
  BY <1>3, <1>6
<1>8. ShapeOK(s, T)
  BY <1>1, <1>3, <1>4, <1>5, <1>6, <1>7 DEF ShapeOK, SameBut
<1>9. ASSUME NEW x, NEW y, Used(s, S, x, y)
      PROVE  Used(s, T, x, y)
  <2>1. y \in {s} \X Nat \X Nat
    BY <1>9 DEF Used
  <2>2. CASE y[2] < S.epoch
    BY <1>4, <2>1, <2>2 DEF Used
  <2>3. CASE y[2] = S.epoch /\ y[3] < S.refreshes
    <3>1. y[3] \in Nat /\ y[3] < T.refreshes
      BY <1>6, <1>7, <2>1, <2>3
    <3> QED
      BY <1>4, <2>1, <2>3, <3>1 DEF Used
  <2>4. CASE y = pm.last_nonce
    <3>1. y[2] = S.epoch /\ y[3] = S.refreshes
      BY <1>6, <2>4 DEF HostNonce
    <3> QED
      BY <1>4, <1>7, <2>1, <3>1 DEF Used
  <2>5. CASE y = pm.current_nonce /\ x \in pm.current_nonce_table
    BY <1>5, <2>1, <2>5 DEF Used
  <2> QED
    BY <1>9, <2>2, <2>3, <2>4, <2>5 DEF Used
<1> QED
  BY <1>2, <1>3, <1>4, <1>8, <1>9, StepSilent
-----------------------------------------------------------------------------
(* The packet handlers. *)

LEMMA ChallengeRequestKeeps ==
    ASSUME SocketInv, NEW s \in Sockets, NEW m, _handle_connect_challenge_request(s, m)
    PROVE  SocketInv'
<1> DEFINE r == _send_connect_challenge_response(s, m.from, m.initiator_nonce)
<1>1. net' = net \cup {r} /\ UNCHANGED <<sock, log, accepted>>
  BY DEF _handle_connect_challenge_request
<1>2. r.type = "connect_challenge_response" /\ r.host_nonce = sock[s].puzzle_manager.current_nonce
  BY DEF _send_connect_challenge_response, Packet
<1>3. r.host_nonce # Unset
  <2>1. ShapeOK(s, sock[s])
    BY SocketFacts
  <2>2. \A a, b, c : <<a, b, c>> # <<>>
    OBVIOUS
  <2> HIDE DEF r
  <2> QED
    BY <1>2, <2>1, <2>2 DEF ShapeOK, HostNonce, Unset
<1> HIDE DEF r
<1>4. PacketOK(r)
  BY <1>2, <1>3 DEF PacketOK
<1> QED
  BY <1>1, <1>4, StepSends

LEMMA ChallengeResponseKeeps ==
    ASSUME SocketInv, NEW s \in Sockets, NEW m \in net, _handle_connect_challenge_response(s, m)
    PROVE  SocketInv'
<1> DEFINE S == sock[s]
           Q(p) == [p EXCEPT !.state = "awaiting_local_challenge_accept",
                             !.client_identity = m.body.identity, !.host_nonce = m.host_nonce,
                             !.shared_secret = compute_shared_secret_key(s, m.from),
                             !.symmetric_key = p.initiator_nonce, !.state_send_retry_count = 0]
<1>1. DOMAIN sock = Sockets /\ DOMAIN S = SocketFields
  BY SocketFacts
<1>2. PICK p \in S.pending :
        /\ p.address = m.from /\ p.state = "requesting_challenge_response"
        /\ sock' = [sock EXCEPT ![s] = Replaced(@, p, Q(p))]
        /\ log' = Posted(log, s, p.id, "challenge_response")
        /\ net' = net /\ accepted' = accepted
  BY DEF _handle_connect_challenge_response, _find_pending_connection
<1> DEFINE q == Q(p)
<1>3. PendingOK(s, S.epoch, S.next_connection_index, p)
  BY SocketFacts
<1>4. m.host_nonce # Unset
  <2>1. m.type = "connect_challenge_response"
    BY DEF _handle_connect_challenge_response, Receives
  <2>2. PacketOK(m)
    BY DEF SocketInv, AcceptInv
  <2> QED
    BY <2>1, <2>2 DEF PacketOK
<1>5. /\ DOMAIN q = PendingFields /\ q.state = "awaiting_local_challenge_accept"
      /\ q.state_send_retry_count = 0 /\ q.id = p.id /\ q.type = p.type /\ q.address = p.address
      /\ q.host_nonce = m.host_nonce /\ q.shared_secret = compute_shared_secret_key(s, p.address)
      /\ q.initiator_nonce = p.initiator_nonce /\ q.initial_send_sequence = p.initial_send_sequence
  BY <1>2, <1>3 DEF PendingOK, PendingFields
<1>6. sock' = [sock EXCEPT ![s] = Replaced(@, p, q)]
  BY <1>2
<1> HIDE DEF q
<1>7. StepOf(s) /\ SameBut(S, sock'[s], {"pending"}) /\ sock'[s].pending = (S.pending \ {p}) \cup {q}
  BY <1>1, <1>6 DEF StepOf, SameBut, SocketFields, Replaced
<1>8. p.type = "connection_initiator"
  BY <1>2, <1>3 DEF PendingOK
<1>9. PendingOK(s, S.epoch, S.next_connection_index, q)
  <2>1. 0 \in 0 .. ChallengeRetryCount
    BY SocketAssumption
  <2> QED
    BY <1>3, <1>4, <1>5, <1>8, <2>1 DEF PendingOK
<1>10. SameBut(S, sock'[s], {"pending", "requests", "solver"})
  BY <1>7 DEF SameBut
<1> QED
  BY <1>2, <1>5, <1>7, <1>8, <1>9, <1>10, StepReplace

\* The request's nonces are drawn by its sender, so that what has them was not started
\* here; and what was not started here was accepted.
LEMMA AcceptAgainOK ==
    ASSUME SocketInv, NEW s \in Sockets, NEW m \in net, Receives(s, m, "connect_request"),
           NEW existing \in SUBSET sock[s].connections
    PROVE  \A r \in AcceptAgain(s, m, existing) : PacketOK(r)
<1> SUFFICES ASSUME NEW c \in existing, SameNonces(c, m)
             PROVE  PacketOK(_send_connect_accept(s, c))
  BY DEF AcceptAgain
<1>1. c \in sock[s].connections
  OBVIOUS
<1>2. m.to = s /\ m.from # s /\ m.initiator_nonce[1] = m.from
  <2>1. m.to = s /\ m.type = "connect_request"
    BY DEF Receives
  <2>2. PacketOK(m)
    BY DEF SocketInv, AcceptInv
  <2> QED
    BY <2>1, <2>2 DEF PacketOK, Numbered
<1>3. ~c.is_initiator
  <2>1. c.initiator_nonce[1] # s
    BY <1>2 DEF SameNonces
  <2>2. ConnectionOK(s, sock[s].next_connection_index, c)
    BY <1>1, SocketFacts DEF SocketOK
  <2> QED
    BY <2>1, <2>2 DEF ConnectionOK, Numbered
<1>4. [host |-> s, connection |-> c] \in accepted
  BY <1>1, <1>3 DEF SocketInv, AcceptInv
<1>5. Witnessed(_send_connect_accept(s, c), [host |-> s, connection |-> c])
  BY DEF Witnessed, _send_connect_accept, Packet, SameNonces
<1>6. _send_connect_accept(s, c).type = "connect_accept"
  BY DEF _send_connect_accept, Packet
<1> QED
  BY <1>4, <1>5, <1>6 DEF PacketOK

LEMMA IgnoreKeeps ==
    ASSUME SocketInv, NEW s \in Sockets, NEW m \in net, Receives(s, m, "connect_request"),
           NEW existing \in SUBSET sock[s].connections, IgnoreConnectRequest(s, m, existing)
    PROVE  SocketInv'
BY AcceptAgainOK, StepSends DEF IgnoreConnectRequest

LEMMA RejectRequestKeeps ==
    ASSUME SocketInv, NEW s \in Sockets, NEW m \in net, Receives(s, m, "connect_request"),
           NEW existing \in SUBSET sock[s].connections, RejectConnectRequest(s, m, existing)
    PROVE  SocketInv'
<1>1. PacketOK(_send_connect_reject(s, m.from, m.initiator_nonce, m.host_nonce))
  BY PlainPackets DEF _send_connect_reject, Packet
<1> QED
  BY <1>1, AcceptAgainOK, StepSends DEF RejectConnectRequest

\* The nonces a request used up.
LEMMA AddNonceFacts ==
    ASSUME NEW pm, NEW x, NEW y, DOMAIN pm = ManagerFields
    PROVE  /\ DOMAIN AddNonce(pm, x, y) = ManagerFields
           /\ AddNonce(pm, x, y).current_nonce = pm.current_nonce
           /\ AddNonce(pm, x, y).last_nonce = pm.last_nonce
           /\ pm.current_nonce_table \subseteq AddNonce(pm, x, y).current_nonce_table
           /\ pm.last_nonce_table \subseteq AddNonce(pm, x, y).last_nonce_table
           /\ y = pm.current_nonce => x \in AddNonce(pm, x, y).current_nonce_table
           /\ y # pm.current_nonce => x \in AddNonce(pm, x, y).last_nonce_table
BY DEF AddNonce, ManagerFields

LEMMA DropKeeps ==
    ASSUME SocketInv, NEW s \in Sockets, NEW m \in net, Receives(s, m, "connect_request"),
           NEW existing \in SUBSET sock[s].connections, DropConnectRequest(s, m, existing)
    PROVE  SocketInv'
<1> DEFINE S == sock[s]
           T == sock'[s]
<1>1. DOMAIN sock = Sockets /\ DOMAIN S = SocketFields /\ ShapeOK(s, S)
  BY SocketFacts
<1>2. /\ sock' = [sock EXCEPT ![s].puzzle_manager = AddNonce(@, m.initiator_nonce, m.host_nonce)]
      /\ net' = net \cup AcceptAgain(s, m, existing) /\ UNCHANGED <<log, accepted>>
  BY DEF DropConnectRequest
<1>3. /\ StepOf(s) /\ SameBut(S, T, {"puzzle_manager"})
      /\ T.puzzle_manager = AddNonce(S.puzzle_manager, m.initiator_nonce, m.host_nonce)
  BY <1>1, <1>2 DEF StepOf, SameBut, SocketFields
<1>4. /\ T.status = S.status /\ T.epoch = S.epoch /\ T.next_connection_index = S.next_connection_index
      /\ T.connects = S.connects /\ T.pending = S.pending /\ T.connections = S.connections
      /\ T.id_table = S.id_table /\ T.address_table = S.address_table /\ T.refreshes = S.refreshes
  BY <1>3 DEF SameBut, SocketFields
<1>5. /\ DOMAIN T.puzzle_manager = ManagerFields
      /\ T.puzzle_manager.current_nonce = S.puzzle_manager.current_nonce
      /\ T.puzzle_manager.last_nonce = S.puzzle_manager.last_nonce
      /\ S.puzzle_manager.current_nonce_table \subseteq T.puzzle_manager.current_nonce_table
      /\ S.puzzle_manager.last_nonce_table \subseteq T.puzzle_manager.last_nonce_table
  <2>1. DOMAIN S.puzzle_manager = ManagerFields
    BY <1>1 DEF ShapeOK
  <2> QED
    BY <1>3, <2>1, AddNonceFacts
<1>6. ShapeOK(s, T)
  BY <1>1, <1>3, <1>4, <1>5 DEF ShapeOK, SameBut
<1>7. \A x, y : Used(s, S, x, y) => Used(s, T, x, y)
  BY <1>4, <1>5, UsedKept
<1>8. \A r \in net' : r \in net \/ PacketOK(r)
  BY <1>2, AcceptAgainOK
<1> QED
  BY <1>2, <1>3, <1>4, <1>6, <1>7, <1>8, StepSilent

LEMMA RejectKeeps ==
    ASSUME SocketInv, NEW s \in Sockets, NEW m, _handle_connect_reject(s, m)
    PROVE  SocketInv'
<1> DEFINE S == sock[s]
           Q(p) == [p EXCEPT !.puzzle_retried = TRUE, !.state = "requesting_challenge_response",
                             !.state_send_retry_count = ChallengeRetryCount,
                             !.initiator_nonce = InitiatorNonce(s, p.id, 1)]
<1>1. DOMAIN sock = Sockets /\ DOMAIN S = SocketFields /\ "disconnected" \in Terminal
  BY SocketFacts DEF Terminal
<1>2. PICK p \in S.pending :
        /\ p.state \in {"requesting_challenge_response", "requesting_connection"}
        /\ accepted' = accepted
        /\ \/ /\ sock' = [sock EXCEPT ![s] = Replaced(@, p, Q(p))]
              /\ net' = net \cup {_send_challenge_request(s, Q(p))} /\ log' = log
           \/ /\ sock' = [sock EXCEPT ![s].pending = @ \ {p}]
              /\ log' = Posted(log, s, p.id, "disconnected") /\ net' = net
  BY DEF _handle_connect_reject, _find_pending_connection
<1> DEFINE q == Q(p)
<1>3. PendingOK(s, S.epoch, S.next_connection_index, p)
  BY SocketFacts
<1>4. p.type = "connection_initiator"
  BY <1>2, <1>3 DEF PendingOK
<1>5. CASE /\ sock' = [sock EXCEPT ![s] = Replaced(@, p, q)]
           /\ net' = net \cup {_send_challenge_request(s, q)} /\ log' = log
  <2>1. /\ DOMAIN q = PendingFields /\ q.state = "requesting_challenge_response"
        /\ q.state_send_retry_count = ChallengeRetryCount
        /\ q.id = p.id /\ q.type = p.type /\ q.address = p.address
        /\ q.initiator_nonce = <<s, S.epoch, p.id, 1>>
        /\ q.initial_send_sequence = p.initial_send_sequence
    BY <1>3 DEF PendingOK, PendingFields, InitiatorNonce
  <2> HIDE DEF q
  <2>2. StepOf(s) /\ SameBut(S, sock'[s], {"pending"}) /\ sock'[s].pending = (S.pending \ {p}) \cup {q}
    BY <1>1, <1>5 DEF StepOf, SameBut, SocketFields, Replaced
  <2>3. PendingOK(s, S.epoch, S.next_connection_index, q)
    <3>1. ChallengeRetryCount \in 0 .. ChallengeRetryCount
      BY SocketAssumption
    <3>2. Numbered(s, <<s, S.epoch, p.id, 1>>, <<s, S.epoch, p.id>>)
      BY DEF Numbered
    <3> QED
      BY <1>3, <1>4, <2>1, <3>1, <3>2 DEF PendingOK
  <2>4. SameBut(S, sock'[s], {"pending", "requests", "solver"})
    BY <2>2 DEF SameBut
  <2>5. PacketOK(_send_challenge_request(s, q))
    BY PlainPackets DEF _send_challenge_request, Packet
  <2> QED
    BY <1>2, <1>4, <1>5, <2>1, <2>2, <2>3, <2>4, <2>5, StepReplace
<1>6. CASE /\ sock' = [sock EXCEPT ![s].pending = @ \ {p}]
           /\ log' = Posted(log, s, p.id, "disconnected") /\ net' = net
  <2>1. /\ StepOf(s) /\ SameBut(S, sock'[s], {"pending"})
        /\ sock'[s].pending = S.pending \ {p}
    BY <1>1, <1>6 DEF StepOf, SameBut, SocketFields
  <2> QED
    BY <1>1, <1>2, <1>6, <2>1, StepEndsPending
<1> QED
  BY <1>2, <1>5, <1>6

LEMMA HandleDisconnectKeeps ==
    ASSUME SocketInv, NEW s \in Sockets, NEW m, _handle_disconnect(s, m)
    PROVE  SocketInv'
<1>1. DOMAIN sock = Sockets /\ "disconnected" \in Terminal /\ accepted' = accepted
  BY SocketFacts DEF Terminal, _handle_disconnect
<1>2. CASE \E c \in sock[s].connections : \E T \in _remove_connection(sock[s], c) :
            /\ sock' = [sock EXCEPT ![s] = T]
            /\ log' = Posted(log, s, c.id, "disconnected")
            /\ net' = net
  <2>1. PICK c \in sock[s].connections : \E T \in _remove_connection(sock[s], c) :
            /\ sock' = [sock EXCEPT ![s] = T]
            /\ log' = Posted(log, s, c.id, "disconnected")
            /\ net' = net
    BY <1>2
  <2>2. StepOf(s) /\ sock'[s] \in _remove_connection(sock[s], c)
    BY <1>1, <2>1 DEF StepOf
  <2> QED
    BY <1>1, <2>1, <2>2, StepEndsConnection
<1>3. CASE Undefined(s) /\ log' = log
  BY <1>1, <1>3, UndefinedKeeps
<1> QED
  BY <1>2, <1>3 DEF _handle_disconnect, Pointed
-----------------------------------------------------------------------------
(* The timed parts of process_connections. *)

LEMMA SweepPendingKeeps ==
    ASSUME SocketInv, NEW s \in Sockets, NEW p \in sock[s].pending, SweepPending(s, p)
    PROVE  SocketInv'
<1> DEFINE S == sock[s]
           q == [p EXCEPT !.state_send_retry_count = @ - 1]
<1>1. DOMAIN sock = Sockets /\ DOMAIN S = SocketFields /\ "timed_out" \in Terminal
  BY SocketFacts DEF Terminal
<1>2. PendingOK(s, S.epoch, S.next_connection_index, p)
  BY SocketFacts
<1>3. CASE /\ sock' = [sock EXCEPT ![s].pending = @ \ {p}]
           /\ log' = Posted(log, s, p.id, "timed_out") /\ net' = net /\ accepted' = accepted
  <2>1. /\ StepOf(s) /\ SameBut(S, sock'[s], {"pending"})
        /\ sock'[s].pending = S.pending \ {p}
    BY <1>1, <1>3 DEF StepOf, SameBut, SocketFields
  <2> QED
    BY <1>1, <1>3, <2>1, StepEndsPending
<1>4. CASE /\ p.state_send_retry_count > 0
           /\ sock' = [sock EXCEPT ![s] = Replaced(@, p, q)]
           /\ net' = net \cup {_send_challenge_request(s, q) :
                                 x \in {y \in {p} : y.state = "requesting_challenge_response"}}
           /\ log' = log /\ accepted' = accepted
  <2>1. /\ DOMAIN q = PendingFields /\ q.state = p.state
        /\ q.state_send_retry_count = p.state_send_retry_count - 1
        /\ q.id = p.id /\ q.type = p.type /\ q.address = p.address
        /\ q.initiator_nonce = p.initiator_nonce /\ q.host_nonce = p.host_nonce
        /\ q.shared_secret = p.shared_secret
        /\ q.initial_send_sequence = p.initial_send_sequence
    BY <1>2 DEF PendingOK, PendingFields
  <2> HIDE DEF q
  <2>2. StepOf(s) /\ SameBut(S, sock'[s], {"pending"}) /\ sock'[s].pending = (S.pending \ {p}) \cup {q}
    BY <1>1, <1>4 DEF StepOf, SameBut, SocketFields, Replaced
  <2>3. p.type = "connection_initiator"
    BY <1>2, <1>4, SocketAssumption DEF PendingOK
  <2>4. PendingOK(s, S.epoch, S.next_connection_index, q)
    <3>1. q.state_send_retry_count \in 0 .. ChallengeRetryCount
      <4>1. p.state_send_retry_count \in 0 .. ChallengeRetryCount
        BY <1>2 DEF PendingOK
      <4> QED
        BY <1>4, <2>1, <4>1, SocketAssumption
    <3> QED
      BY <1>2, <2>1, <2>3, <3>1 DEF PendingOK
  <2>5. SameBut(S, sock'[s], {"pending", "requests", "solver"})
    BY <2>2 DEF SameBut
  <2>6. PacketOK(_send_challenge_request(s, q))
    BY PlainPackets DEF _send_challenge_request, Packet
  <2>7. \A r \in net' : r \in net \/ PacketOK(r)
    BY <1>4, <2>6
  <2> QED
    BY <1>4, <2>1, <2>2, <2>3, <2>4, <2>5, <2>7, StepReplace
<1> QED
  BY <1>3, <1>4 DEF SweepPending

LEMMA SweepConnectionKeeps ==
    ASSUME SocketInv, NEW s \in Sockets, NEW c \in sock[s].connections, SweepConnection(s, c)
    PROVE  SocketInv'
<1>1. DOMAIN sock = Sockets /\ "timed_out" \in Terminal
  BY SocketFacts DEF Terminal
<1>2. StepOf(s) /\ sock'[s] \in _remove_connection(sock[s], c)
  BY <1>1 DEF StepOf, SweepConnection
<1> QED
  BY <1>1, <1>2, StepEndsConnection DEF SweepConnection

LEMMA PuzzleResultKeeps ==
    ASSUME SocketInv, NEW s \in Sockets, PuzzleResult(s)
    PROVE  SocketInv'
<1> DEFINE S == sock[s]
           result == Head(S.solver)
           T == [S EXCEPT !.solver = Tail(@)]
           waiting == {p \in S.pending : /\ p.state = "computing_puzzle_solution"
                                         /\ p.puzzle_request_index = result.index}
           Solved(p) == [p EXCEPT !.state = "requesting_connection", !.requests_sent = @ + 1,
                                  !.puzzle_solution = result.solution]
<1>1. DOMAIN sock = Sockets /\ DOMAIN S = SocketFields /\ ShapeOK(s, S)
  BY SocketFacts
<1>2. /\ \/ waiting = {} /\ sock' = [sock EXCEPT ![s] = T]
         \/ \E p \in waiting : sock' = [sock EXCEPT ![s] = Replaced(T, p, Solved(p))]
      /\ net' = net \cup {_send_connect_request(s, Solved(p)) : p \in waiting}
      /\ UNCHANGED <<log, accepted>>
  BY DEF PuzzleResult
<1>3. ASSUME NEW p \in waiting
      PROVE  /\ PendingOK(s, S.epoch, S.next_connection_index, p) /\ p.type = "connection_initiator"
             /\ Solved(p).id = p.id /\ Solved(p).type = p.type
             /\ Solved(p).state = "requesting_connection" /\ p.state = "computing_puzzle_solution"
             /\ PendingOK(s, S.epoch, S.next_connection_index, Solved(p))
             /\ PacketOK(_send_connect_request(s, Solved(p)))
  <2> DEFINE q == Solved(p)
  <2>1. PendingOK(s, S.epoch, S.next_connection_index, p) /\ p.state = "computing_puzzle_solution"
    BY SocketFacts
  <2>2. p.type = "connection_initiator"
    BY <2>1 DEF PendingOK
  <2>3. /\ DOMAIN q = PendingFields /\ q.state = "requesting_connection"
        /\ q.state_send_retry_count = p.state_send_retry_count
        /\ q.id = p.id /\ q.type = p.type /\ q.address = p.address
        /\ q.initiator_nonce = p.initiator_nonce /\ q.host_nonce = p.host_nonce
        /\ q.shared_secret = p.shared_secret
        /\ q.initial_send_sequence = p.initial_send_sequence
    BY <2>1 DEF PendingOK, PendingFields
  <2> HIDE DEF q
  <2>4. PendingOK(s, S.epoch, S.next_connection_index, q)
    BY <2>1, <2>2, <2>3 DEF PendingOK
  <2>5. PacketOK(_send_connect_request(s, q))
    <3> DEFINE m == _send_connect_request(s, q)
    <3>1. /\ m.type = "connect_request" /\ m.from = s /\ m.to = q.address
          /\ m.initiator_nonce = q.initiator_nonce /\ m.body.public_key = s
          /\ m.body.sequence = q.initial_send_sequence
      BY DEF _send_connect_request, Packet
    <3> HIDE DEF m
    <3>2. PacketOK(m)
      BY <2>2, <2>3, <2>4, <3>1 DEF PacketOK, PendingOK
    <3> QED
      BY <3>2 DEF m
  <2> QED
    BY <2>1, <2>2, <2>3, <2>4, <2>5 DEF q
<1>4. \A m \in net' : m \in net \/ PacketOK(m)
  <2>1. \A p \in waiting : PacketOK(_send_connect_request(s, Solved(p)))
    BY <1>3
  <2>2. net' = net \cup {_send_connect_request(s, Solved(p)) : p \in waiting}
    BY <1>2
  <2> HIDE DEF waiting, Solved
  <2> QED
    BY <2>1, <2>2
<1>5. CASE sock' = [sock EXCEPT ![s] = T]
  <2>1. StepOf(s) /\ SameBut(S, sock'[s], {"solver"})
    BY <1>1, <1>5 DEF StepOf, SameBut, SocketFields
  <2> HIDE DEF T, waiting, Solved
  <2>2. /\ sock'[s].status = S.status /\ sock'[s].epoch = S.epoch
        /\ sock'[s].next_connection_index = S.next_connection_index
        /\ sock'[s].connects = S.connects /\ sock'[s].pending = S.pending
        /\ sock'[s].connections = S.connections
        /\ sock'[s].id_table = S.id_table /\ sock'[s].address_table = S.address_table
        /\ sock'[s].puzzle_manager = S.puzzle_manager /\ sock'[s].refreshes = S.refreshes
    BY <2>1 DEF SameBut, SocketFields
  <2>3. ShapeOK(s, sock'[s])
    BY <1>1, <2>1, <2>2 DEF ShapeOK, SameBut
  <2>4. \A x, y : Used(s, S, x, y) => Used(s, sock'[s], x, y)
    BY <2>2, PuzzleKept
  <2> QED
    BY <1>2, <1>4, <2>1, <2>2, <2>3, <2>4, StepSilent
<1>6. CASE \E p \in waiting : sock' = [sock EXCEPT ![s] = Replaced(T, p, Solved(p))]
  <2>1. PICK p \in waiting : sock' = [sock EXCEPT ![s] = Replaced(T, p, Solved(p))]
    BY <1>6
  <2> DEFINE q == Solved(p)
  <2>2. p \in S.pending
    OBVIOUS
  <2>3. /\ p.type = "connection_initiator" /\ q.id = p.id /\ q.type = p.type
        /\ q.state = "requesting_connection" /\ p.state = "computing_puzzle_solution"
        /\ PendingOK(s, S.epoch, S.next_connection_index, q)
    BY <1>3
  <2> HIDE DEF q, waiting
  <2>4. sock' = [sock EXCEPT ![s] = Replaced(T, p, q)]
    BY <2>1 DEF q
  <2>5. /\ StepOf(s) /\ SameBut(S, sock'[s], {"pending", "requests", "solver"})
        /\ sock'[s].pending = (S.pending \ {p}) \cup {q}
    BY <1>1, <2>4 DEF StepOf, SameBut, SocketFields, Replaced
  <2> QED
    BY <1>2, <1>4, <2>2, <2>3, <2>5, StepReplace
<1> QED
  BY <1>2, <1>5, <1>6
-----------------------------------------------------------------------------
(* Connections that are established. *)

\* The host accepted what the initiator s has as c.
Agreed(s, c) ==
    \E a \in accepted :
        /\ a.host = c.address /\ a.connection.address = s
        /\ SameNonces(a.connection, c)
        /\ a.connection.initial_send_sequence = c.initial_recv_sequence
        /\ a.connection.initial_recv_sequence = c.initial_send_sequence
        /\ a.connection.shared_secret = c.shared_secret

LEMMA AcceptGrows ==
    ASSUME AcceptInv, NEW s \in Sockets, StepOf(s), accepted \subseteq accepted',
           \A a \in accepted' : a \in accepted \/ Numbered(a.connection.address, a.connection.initiator_nonce,
                                                           a.connection.initial_recv_sequence),
           \A c \in sock'[s].connections :
                \/ c \in sock[s].connections
                \/ c.is_initiator /\ Agreed(s, c)'
                \/ ~c.is_initiator /\ [host |-> s, connection |-> c] \in accepted',
           \A m \in net' : m \in net \/ PacketOK(m)'
    PROVE  AcceptInv'
<1>1. \A m \in net' : PacketOK(m)'
  <2>1. \A m \in net : PacketOK(m)'
    BY DEF AcceptInv, PacketOK
  <2> QED
    BY <2>1
<1>2. \A t \in Sockets : \A c \in sock[t].connections : c.is_initiator => Agreed(t, c)
  BY DEF AcceptInv, EstablishedMeansAccepted, Agreed
<1>3. \A t \in Sockets : \A c : Agreed(t, c) => Agreed(t, c)'
  BY DEF Agreed, SameNonces
<1>4. \A t \in Sockets : \A c \in sock'[t].connections : c.is_initiator => Agreed(t, c)'
  BY <1>2, <1>3 DEF StepOf
<1>5. EstablishedMeansAccepted'
  BY <1>4 DEF EstablishedMeansAccepted, Agreed
<1>6. \A t \in Sockets : \A c \in sock'[t].connections :
        ~c.is_initiator => [host |-> t, connection |-> c] \in accepted'
  BY DEF AcceptInv, StepOf
<1>7. \A a \in accepted' :
        Numbered(a.connection.address, a.connection.initiator_nonce, a.connection.initial_recv_sequence)
  BY DEF AcceptInv
<1> QED
  BY <1>1, <1>5, <1>6, <1>7 DEF AcceptInv

\* A pending connection is established, on either side.
LEMMA StepEstablishes ==
    ASSUME SocketInv, NEW s \in Sockets, NEW p \in sock[s].pending, NEW c,
           c.id = p.id, c.address = p.address, c.is_initiator \in BOOLEAN,
           c.is_initiator => Numbered(s, c.initiator_nonce, c.initial_send_sequence),
           c.is_initiator => p.type = "connection_initiator",
           p.state # "requesting_challenge_response",
           StepOf(s), sock'[s] = _add_connection([sock[s] EXCEPT !.pending = @ \ {p}], c),
           log' = Posted(log, s, p.id, "established"), OnceInv', AcceptInv'
    PROVE  SocketInv'
<1> DEFINE S == sock[s]
           T == sock'[s]
<1>1. /\ SocketOK(s, S) /\ ShapeOK(s, S) /\ IdsOK(S) /\ TableOK(S) /\ DOMAIN S = SocketFields
      /\ S.next_connection_index \in Nat \ {0}
      /\ \A x \in S.pending : Continues(S, x)
      /\ PendingOK(s, S.epoch, S.next_connection_index, p)
  BY SocketFacts
<1>2. /\ SameBut(S, T, {"pending", "connections", "id_table", "address_table"})
      /\ T.pending = S.pending \ {p} /\ T.connections = S.connections \cup {c}
      /\ T.id_table.disturbed = S.id_table.disturbed /\ TableOK(T)
  <2>1. S.connects = 0 => ~c.is_initiator
    BY <1>1 DEF TableOK, HostOK
  <2>2. T = _add_connection([S EXCEPT !.pending = @ \ {p}], c)
    OBVIOUS
  <2>3. c.id = p.id /\ c.address = p.address
    OBVIOUS
  <2> HIDE DEF S, T
  <2>4. p \in S.pending
    BY DEF S
  <2>5. SameBut(S, T, {"pending", "connections", "id_table", "address_table"})
    BY <1>1, <2>1, <2>2, <2>3, <2>4, AddTables
  <2>6. T.pending = S.pending \ {p} /\ T.connections = S.connections \cup {c}
    BY <1>1, <2>1, <2>2, <2>3, <2>4, AddTables
  <2>7. T.id_table.disturbed = S.id_table.disturbed
    BY <1>1, <2>1, <2>2, <2>3, <2>4, AddTables
  <2>8. TableOK(T)
    BY <1>1, <2>1, <2>2, <2>3, <2>4, AddTables
  <2> QED
    BY <2>5, <2>6, <2>7, <2>8
<1>3. /\ T.status = S.status /\ T.epoch = S.epoch /\ T.next_connection_index = S.next_connection_index
      /\ T.connects = S.connects /\ T.puzzle_manager = S.puzzle_manager /\ T.refreshes = S.refreshes
  BY <1>2 DEF SameBut, SocketFields
<1>4. ConnectionOK(s, S.next_connection_index, c)
  BY <1>1 DEF ConnectionOK, PendingOK
<1>5. ShapeOK(s, T)
  BY <1>1, <1>2, <1>3 DEF ShapeOK, SameBut
<1>6. SocketInv => LocalInv /\ OnceInv /\ AcceptInv /\ TableInv /\ LogInv
  BY DEF SocketInv
<1>7. LocalInv'
  <2>1. SocketOK(s, T)
    BY <1>1, <1>2, <1>3, <1>4, <1>5, MoveKeeps
  <2> QED
    BY <1>6, <2>1, LocalStep
<1>8. TableInv'
  BY <1>2, <1>6 DEF TableInv, StepOf
<1>9. LogInv'
  <2> DEFINE l == EventsOf(<<s, sock[s].epoch, p.id>>)
  <2>1. l # <<>> /\ \A i \in DOMAIN l : l[i] \in Before /\ l[i] \notin Terminal
    BY PendingStory
  <2>2. \A x \in T.pending : x.id # p.id /\ Continues(S, x)
    BY <1>1, <1>2 DEF IdsOK
  <2>3. /\ \A d \in T.connections : d.id # p.id => d \in S.connections
        /\ GoesOn(T, "established") /\ Aged(S, T)
    BY <1>2 DEF GoesOn, Aged
  <2>4. p.id \in 1 .. T.next_connection_index - 1
    BY <1>1, <1>3 DEF PendingOK
  <2>5. "established" \in Events
    BY DEF Events
  <2> HIDE DEF l
  <2>6. T.epoch = S.epoch /\ T.next_connection_index \in Nat
        /\ T.next_connection_index >= S.next_connection_index
    BY <1>1, <1>3
  <2>7. LogInv /\ LocalInv
    BY <1>6
  <2> QED
    BY <2>1, <2>2, <2>3, <2>4, <2>5, <2>6, <2>7, LogPosts DEF l
<1> QED
  BY <1>7, <1>8, <1>9 DEF SocketInv

LEMMA AcceptConnectionKeeps ==
    ASSUME SocketInv, NEW s \in Sockets, NEW p \in sock[s].pending, accept_connection(s, p)
    PROVE  SocketInv'
<1> DEFINE S == sock[s]
           T == sock'[s]
           c == [id |-> p.id, is_initiator |-> FALSE, address |-> p.address,
                 initiator_nonce |-> p.initiator_nonce, host_nonce |-> p.host_nonce,
                 initial_send_sequence |-> p.initial_send_sequence,
                 initial_recv_sequence |-> p.initial_recv_sequence,
                 shared_secret |-> p.shared_secret,
                 cipher |-> [key |-> p.symmetric_key, init_vector |-> p.init_vector]]
           a0 == [host |-> s, connection |-> c]
           r == _send_connect_accept(s, c)
<1>1. /\ DOMAIN sock = Sockets /\ DOMAIN S = SocketFields
      /\ PendingOK(s, S.epoch, S.next_connection_index, p)
  BY SocketFacts
<1>2. /\ p.state = "awaiting_local_accept"
      /\ sock' = [sock EXCEPT ![s] = _add_connection([S EXCEPT !.pending = @ \ {p}], c)]
      /\ net' = net \cup {r}
      /\ log' = Posted(log, s, p.id, "established")
      /\ accepted' = accepted \cup {a0}
  BY DEF accept_connection
<1>3. /\ c.id = p.id /\ ~c.is_initiator /\ c.address = p.address
      /\ c.initiator_nonce = p.initiator_nonce /\ c.host_nonce = p.host_nonce
      /\ c.initial_send_sequence = p.initial_send_sequence
      /\ c.initial_recv_sequence = p.initial_recv_sequence
      /\ c.is_initiator \in BOOLEAN
  OBVIOUS
<1>4. r.type = "connect_accept" /\ Witnessed(r, a0)
  BY DEF Witnessed, _send_connect_accept, Packet, SameNonces
<1>5. a0.host = s /\ a0.connection = c
  OBVIOUS
<1>6. StepOf(s) /\ T = _add_connection([S EXCEPT !.pending = @ \ {p}], c)
  BY <1>1, <1>2 DEF StepOf
<1> HIDE DEF c, r
<1>7. /\ T.epoch = S.epoch /\ T.refreshes = S.refreshes /\ T.puzzle_manager = S.puzzle_manager
      /\ T.pending = S.pending \ {p} /\ T.connections = S.connections \cup {c}
  BY <1>1, <1>6 DEF _add_connection, SocketFields
<1> HIDE DEF a0
<1>8. p \in Hosts(S) /\ p.type = "connection_host"
  BY <1>1, <1>2 DEF Hosts, PendingOK
<1>9. OnceInv'
  <2>1. OnceInv
    BY DEF SocketInv
  <2>2. \A t \in Sockets : \A x, y : Used(t, sock[t], x, y) => Used(t, sock'[t], x, y)
    <3>1. \A x, y : Used(s, S, x, y) => Used(s, T, x, y)
      BY <1>7, PuzzleKept
    <3>2. \A t \in Sockets \ {s} : sock'[t] = sock[t]
      BY <1>6 DEF StepOf
    <3> QED
      BY <3>1, <3>2
  <2>3. \A a \in accepted' :
          /\ a.host \in Sockets
          /\ Used(a.host, sock'[a.host], a.connection.initiator_nonce, a.connection.host_nonce)
    <3>1. \A a \in accepted :
            /\ a.host \in Sockets
            /\ Used(a.host, sock'[a.host], a.connection.initiator_nonce, a.connection.host_nonce)
      BY <2>1, <2>2 DEF OnceInv
    <3>2. Used(s, S, p.initiator_nonce, p.host_nonce)
      BY <1>8, <2>1 DEF OnceInv
    <3>3. Used(s, T, c.initiator_nonce, c.host_nonce)
      BY <1>3, <2>2, <3>2
    <3>4. Used(a0.host, sock'[a0.host], a0.connection.initiator_nonce, a0.connection.host_nonce)
      BY <1>5, <3>3
    <3> QED
      BY <1>2, <1>5, <3>1, <3>4
  <2>4. \A t \in Sockets : Hosts(sock'[t]) \subseteq Hosts(sock[t])
    BY <1>6, <1>7 DEF Hosts, StepOf
  <2>5. ASSUME NEW t \in Sockets, NEW q \in Hosts(sock'[t])
        PROVE  /\ Used(t, sock'[t], q.initiator_nonce, q.host_nonce)
               /\ \A o \in Hosts(sock'[t]) : SameNonces(q, o) => q = o
               /\ \A a \in accepted' : a.host = t => ~SameNonces(a.connection, q)
    <3>1. q \in Hosts(sock[t])
      BY <2>4
    <3>2. Used(t, sock'[t], q.initiator_nonce, q.host_nonce)
      BY <2>1, <2>2, <3>1 DEF OnceInv
    <3>3. \A o \in Hosts(sock'[t]) : SameNonces(q, o) => q = o
      BY <2>1, <2>4, <3>1 DEF OnceInv
    <3>4. \A a \in accepted : a.host = t => ~SameNonces(a.connection, q)
      BY <2>1, <3>1 DEF OnceInv
    <3>5. a0.host = t => ~SameNonces(a0.connection, q)
      <4>1. t = s => q # p
        BY <1>7 DEF Hosts
      <4>2. t = s => ~SameNonces(p, q)
        BY <1>8, <2>1, <3>1, <4>1 DEF OnceInv
      <4> QED
        BY <1>3, <1>5, <4>2 DEF SameNonces
    <3> QED
      BY <1>2, <3>2, <3>3, <3>4, <3>5
  <2>6. SolutionOpensOnce'
    <3>1. \A a \in accepted : a.host = s => ~SameNonces(a.connection, p)
      BY <1>8, <2>1 DEF OnceInv
    <3>2. \A a \in accepted : a.host = a0.host =>
            ~SameNonces(a.connection, a0.connection) /\ ~SameNonces(a0.connection, a.connection)
      BY <1>3, <1>5, <3>1 DEF SameNonces
    <3>3. \A a, b \in accepted : a.host = b.host /\ SameNonces(a.connection, b.connection) => a = b
      BY <2>1 DEF OnceInv, SolutionOpensOnce
    <3>4. \A a, b \in accepted' : a.host = b.host /\ SameNonces(a.connection, b.connection) => a = b
      BY <1>2, <3>2, <3>3
    <3> QED
      BY <3>4 DEF SolutionOpensOnce, SameNonces
  <2>7. \A t \in Sockets : \A q \in Hosts(sock'[t]) :
               /\ Used(t, sock'[t], q.initiator_nonce, q.host_nonce)
               /\ \A o \in Hosts(sock'[t]) : SameNonces(q, o) => q = o
               /\ \A a \in accepted' : a.host = t => ~SameNonces(a.connection, q)
    BY <2>5
  <2> QED
    BY <2>3, <2>6, <2>7 DEF OnceInv, SameNonces
<1>10. AcceptInv'
  <2>1. AcceptInv
    BY DEF SocketInv
  <2>2. PacketOK(r)'
    BY <1>2, <1>4 DEF PacketOK
  <2>3. Numbered(a0.connection.address, a0.connection.initiator_nonce, a0.connection.initial_recv_sequence)
    BY <1>1, <1>3, <1>5, <1>8 DEF PendingOK
  <2>4. \A x \in T.connections : x \in S.connections \/ (~x.is_initiator /\ [host |-> s, connection |-> x] \in accepted')
    BY <1>2, <1>3, <1>7 DEF a0
  <2> QED
    BY <1>2, <1>6, <2>1, <2>2, <2>3, <2>4, AcceptGrows
<1> QED
  BY <1>2, <1>3, <1>6, <1>9, <1>10, StepEstablishes

LEMMA HandleAcceptKeeps ==
    ASSUME SocketInv, NEW s \in Sockets, NEW m \in net, _handle_connect_accept(s, m)
    PROVE  SocketInv'
<1> DEFINE S == sock[s]
           T == sock'[s]
           C(p) == [id |-> p.id, is_initiator |-> TRUE, address |-> p.address,
                    initiator_nonce |-> p.initiator_nonce, host_nonce |-> p.host_nonce,
                    initial_send_sequence |-> p.initial_send_sequence,
                    initial_recv_sequence |-> m.body.sequence,
                    shared_secret |-> p.shared_secret,
                    cipher |-> [key |-> Unset, init_vector |-> Unset]]
<1>1. DOMAIN sock = Sockets /\ DOMAIN S = SocketFields
  BY SocketFacts
<1>2. PICK p \in S.pending :
        /\ p.address = m.from /\ AcceptMatches(p, m) /\ m.body.encrypted_by = p.shared_secret
        /\ sock' = [sock EXCEPT ![s] = _add_connection([sock[s] EXCEPT !.pending = @ \ {p}], C(p))]
        /\ log' = Posted(log, s, p.id, "established")
        /\ net' = net /\ accepted' = accepted
  BY DEF _handle_connect_accept, _find_pending_connection
<1> DEFINE c == C(p)
<1>3. PendingOK(s, S.epoch, S.next_connection_index, p)
  BY SocketFacts
<1>4. p.state = "requesting_connection" /\ SameNonces(p, m)
  BY <1>2 DEF AcceptMatches
<1>5. p.type = "connection_initiator" /\ Numbered(s, p.initiator_nonce, p.initial_send_sequence)
  BY <1>3, <1>4 DEF PendingOK
<1>6. /\ c.id = p.id /\ c.is_initiator /\ c.is_initiator \in BOOLEAN /\ c.address = p.address
      /\ c.initiator_nonce = p.initiator_nonce /\ c.host_nonce = p.host_nonce
      /\ c.initial_send_sequence = p.initial_send_sequence
      /\ c.initial_recv_sequence = m.body.sequence /\ c.shared_secret = p.shared_secret
  OBVIOUS
<1>7. StepOf(s) /\ T = _add_connection([S EXCEPT !.pending = @ \ {p}], c)
  BY <1>1, <1>2 DEF StepOf
<1> HIDE DEF c
<1>8. /\ T.epoch = S.epoch /\ T.refreshes = S.refreshes /\ T.puzzle_manager = S.puzzle_manager
      /\ T.pending = S.pending \ {p} /\ T.connections = S.connections \cup {c}
  BY <1>1, <1>7 DEF _add_connection, SocketFields
<1>9. StepOf(s) /\ OnceInv /\ AcceptInv
  BY <1>7 DEF SocketInv
<1>10. OnceInv'
  <2>1. Hosts(T) \subseteq Hosts(S)
    BY <1>8 DEF Hosts
  <2>2. \A x, y : Used(s, S, x, y) => Used(s, T, x, y)
    BY <1>8, PuzzleKept
  <2> QED
    BY <1>2, <1>9, <2>1, <2>2, OnceKeeps
<1>11. AcceptInv'
  <2>1. m.type = "connect_accept" /\ m.to = s
    BY DEF _handle_connect_accept, Receives
  <2>2. PICK a \in accepted : Witnessed(m, a)
    <3>1. PacketOK(m)
      BY <1>9 DEF AcceptInv
    <3> QED
      BY <2>1, <3>1 DEF PacketOK
  <2>3. Numbered(a.connection.address, a.connection.initiator_nonce, a.connection.initial_recv_sequence)
    BY <1>9 DEF AcceptInv
  <2>4. a.connection.initiator_nonce = p.initiator_nonce /\ a.connection.host_nonce = p.host_nonce
    BY <1>4, <2>2 DEF Witnessed, SameNonces
  <2>5. a.connection.initial_recv_sequence = p.initial_send_sequence
    BY <1>5, <2>3, <2>4 DEF Numbered
  <2>6. /\ a.host = c.address /\ a.connection.address = s
        /\ SameNonces(a.connection, c)
        /\ a.connection.initial_send_sequence = c.initial_recv_sequence
        /\ a.connection.shared_secret = c.shared_secret
    BY <1>2, <1>6, <2>1, <2>2, <2>4 DEF Witnessed, SameNonces
  <2>7. Agreed(s, c)
    BY <1>6, <2>5, <2>6 DEF Agreed
  <2>8. Agreed(s, c)'
    BY <1>2, <2>7 DEF Agreed, SameNonces
  <2>9. \A x \in T.connections : x \in S.connections \/ (x.is_initiator /\ Agreed(s, x)')
    BY <1>6, <1>8, <2>8
  <2>10. net' = net /\ accepted' = accepted
    BY <1>2
  <2> QED
    BY <1>9, <2>9, <2>10, AcceptGrows
<1>12. log' = Posted(log, s, p.id, "established")
  BY <1>2
<1> QED
  BY <1>4, <1>5, <1>6, <1>7, <1>10, <1>11, <1>12, StepEstablishes

\* A restarted socket knows none of the puzzles of before, and its ids start over in
\* an epoch of which nothing was said.
LEMMA RestartKeeps ==
    ASSUME SocketInv, NEW s \in Sockets, Restart(s)
    PROVE  SocketInv'
<1> DEFINE S == sock[s]
           T == sock'[s]
<1>1. DOMAIN sock = Sockets /\ ShapeOK(s, S) /\ S.epoch \in Nat
  BY SocketFacts
<1>2. /\ sock' = [sock EXCEPT ![s] = [NewSocket(s, S.epoch + 1) EXCEPT !.connects = S.connects]]
      /\ net' = net /\ log' = log /\ accepted' = accepted
  BY DEF Restart
<1>3. StepOf(s) /\ T = [NewSocket(s, S.epoch + 1) EXCEPT !.connects = S.connects]
  BY <1>1, <1>2 DEF StepOf
<1>4. /\ DOMAIN T = SocketFields /\ T.status = "open" /\ T.epoch = S.epoch + 1
      /\ T.next_connection_index = 1 /\ T.connects = S.connects /\ T.refreshes = 0
      /\ T.pending = {} /\ T.connections = {}
      /\ T.id_table = NewTable /\ T.address_table = NewTable
      /\ T.puzzle_manager = NewManager(HostNonce(s, S.epoch + 1, 1), HostNonce(s, S.epoch + 1, 0))
  BY <1>3 DEF NewSocket, SocketFields
<1>5. ShapeOK(s, T)
  <2>1. /\ DOMAIN T.puzzle_manager = ManagerFields
        /\ T.puzzle_manager.current_nonce = HostNonce(s, T.epoch, T.refreshes + 1)
        /\ T.puzzle_manager.last_nonce = HostNonce(s, T.epoch, T.refreshes)
    BY <1>4 DEF NewManager, ManagerFields
  <2>2. T.epoch \in Nat
    BY <1>1, <1>4
  <2> QED
    BY <1>1, <1>4, <2>1, <2>2 DEF ShapeOK, Statuses
<1>6. StepOf(s) /\ LocalInv /\ OnceInv /\ AcceptInv /\ TableInv /\ LogInv
  BY <1>3 DEF SocketInv
<1>7. LocalInv'
  <2>1. SocketOK(s, T)
    BY <1>4, <1>5 DEF SocketOK, IdsOK
  <2> QED
    BY <1>6, <2>1, LocalStep
<1>8. OnceInv'
  <2>1. Hosts(T) \subseteq Hosts(S)
    BY <1>4 DEF Hosts
  <2>2. ASSUME NEW x, NEW y, Used(s, S, x, y)
        PROVE  Used(s, T, x, y)
    <3>1. y \in {s} \X Nat \X Nat /\ y[2] \in Nat
      BY <2>2 DEF Used
    <3>2. y[2] < S.epoch \/ y[2] = S.epoch
      BY <1>1, <2>2 DEF Used, ShapeOK, HostNonce
    <3>3. y[2] < T.epoch
      BY <1>1, <1>4, <3>1, <3>2
    <3> QED
      BY <3>1, <3>3 DEF Used
  <2> QED
    BY <1>2, <1>6, <2>1, <2>2, OnceKeeps
<1>9. AcceptInv'
  BY <1>2, <1>4, <1>6, AcceptKeeps
<1>10. TableInv'
  <2>1. TableOK(T)
    BY <1>4, NewTables
  <2> QED
    BY <1>6, <2>1 DEF TableInv, StepOf
<1>11. LogInv'
  <2>1. \A t \in Sockets : \A k \in DOMAIN log : \A e, i \in Nat :
          k = <<t, e, i>> =>
              e < sock'[t].epoch \/ (e = sock'[t].epoch /\ i < sock'[t].next_connection_index)
    <3> SUFFICES ASSUME NEW t \in Sockets, NEW k \in DOMAIN log, NEW e \in Nat, NEW i \in Nat, k = <<t, e, i>>
                 PROVE  e < sock'[t].epoch \/ (e = sock'[t].epoch /\ i < sock'[t].next_connection_index)
      OBVIOUS
    <3>1. e < sock[t].epoch \/ (e = sock[t].epoch /\ i < sock[t].next_connection_index)
      BY <1>6 DEF LogInv
    <3>2. CASE t = s
      BY <1>1, <1>4, <3>1, <3>2
    <3>3. CASE t # s
      BY <1>6, <3>1, <3>3 DEF StepOf
    <3> QED
      BY <3>2, <3>3
  <2>2. \A t \in Sockets \ {s} : \A x : EventsOf(Key(t, x))' = EventsOf(Key(t, x))
    BY <1>2, <1>6 DEF StepOf, EventsOf, Key
  <2>3. \A t \in Sockets : \A p \in sock'[t].pending :
          /\ \A i \in DOMAIN EventsOf(Key(t, p))' : EventsOf(Key(t, p))'[i] \in Before
          /\ p.state # "requesting_challenge_response" => EventsOf(Key(t, p))' # <<>>
    <3>1. \A t \in Sockets : \A p \in sock'[t].pending : t # s /\ p \in sock[t].pending
      BY <1>4, <1>6 DEF StepOf
    <3> QED
      BY <1>6, <2>2, <3>1 DEF LogInv
  <2>4. \A t \in Sockets : \A c \in sock'[t].connections :
          EventsOf(Key(t, c))' # <<>> /\ GoesOn(sock[t], EventsOf(Key(t, c))[Len(EventsOf(Key(t, c)))])'
    <3>1. \A t \in Sockets : \A c \in sock'[t].connections : t # s /\ c \in sock[t].connections
      BY <1>4, <1>6 DEF StepOf
    <3> QED
      BY <1>6, <2>2, <3>1 DEF LogInv, GoesOn, StepOf
  <2>5. \A k \in DOMAIN log' : StoryOK(log'[k])
    BY <1>2, <1>6 DEF LogInv
  <2> QED
    BY <1>2, <2>1, <2>3, <2>4, <2>5 DEF LogInv
<1> QED
  BY <1>7, <1>8, <1>9, <1>10, <1>11 DEF SocketInv
-----------------------------------------------------------------------------
(* A connect request that is taken. *)

\* The tables of nonces told the request from those that were taken before.
LEMMA SuccessIsNew ==
    ASSUME NEW s, ShapeOK(s, sock[s]), NEW m, SolutionResult(s, m) = "success"
    PROVE  /\ m.host_nonce \in {s} \X Nat \X Nat
           /\ KnownNonce(sock[s].puzzle_manager, m.host_nonce)
           /\ ~Used(s, sock[s], m.initiator_nonce, m.host_nonce)
<1> DEFINE S == sock[s]
           pm == S.puzzle_manager
           x == m.initiator_nonce
           y == m.host_nonce
<1>1. KnownNonce(pm, y) /\ x \notin TableOf(pm, y)
  BY DEF SolutionResult, check_solution, check_add
<1>2. /\ S.epoch \in Nat /\ S.refreshes \in Nat
      /\ pm.current_nonce = <<s, S.epoch, S.refreshes + 1>>
      /\ pm.last_nonce = <<s, S.epoch, S.refreshes>>
  BY DEF ShapeOK, HostNonce
<1>3. pm.current_nonce # pm.last_nonce
  BY <1>2
<1>4. y = pm.current_nonce \/ y = pm.last_nonce
  BY <1>1 DEF KnownNonce
<1> HIDE DEF pm, x, y
<1>5. y \in {s} \X Nat \X Nat /\ ~(y[2] < S.epoch) /\ ~(y[2] = S.epoch /\ y[3] < S.refreshes)
  BY <1>2, <1>4
<1>6. ~(y = pm.last_nonce /\ x \in pm.last_nonce_table)
  BY <1>1, <1>3 DEF TableOf
<1>7. ~(y = pm.current_nonce /\ x \in pm.current_nonce_table)
  BY <1>1 DEF TableOf
<1>8. ~Used(s, S, x, y)
  BY <1>5, <1>6, <1>7 DEF Used, pm
<1> QED
  BY <1>1, <1>5, <1>8 DEF pm, x, y

\* What a socket that only answers finds by an address, as long as its tables are in order.
LEMMA FindsByAddress ==
    ASSUME NEW s, NEW S, SocketOK(s, S), TableOK(S), S.connects = 0, NEW addr
    PROVE  /\ _find_pending_connection(S, addr) = {} => \A p \in S.pending : p.address # addr
           /\ ~S.address_table.disturbed =>
                \A pointer \in _find_connection(S, addr) :
                    ~Dangling(S, pointer) /\ Pointed(S, pointer) = {} =>
                        \A c \in S.connections : c.address # addr
<1>1. ASSUME NEW p \in S.pending, p.address = addr PROVE p \in _find_pending_connection(S, addr)
  <2>1. p.id <= p.id
    BY DEF SocketOK, PendingOK, ShapeOK
  <2>2. \A q \in S.pending : q.address = addr => q.id <= p.id
    BY <1>1, <2>1 DEF TableOK, HostOK
  <2> QED
    BY <1>1, <2>2 DEF _find_pending_connection
<1>2. ASSUME ~S.address_table.disturbed, NEW pointer \in _find_connection(S, addr),
             ~Dangling(S, pointer), Pointed(S, pointer) = {}, NEW c \in S.connections, c.address = addr
      PROVE  FALSE
  <2> DEFINE l == [key |-> c.address, value |-> c.id]
  <2>1. l \in S.address_table.entries /\ l.key = addr
    BY <1>2 DEF TableOK, TablesOK
  <2>2. pointer = Null
    BY <1>2 DEF Dangling
  <2> HIDE DEF l
  <2>3. ~MayMiss(S.address_table, addr)
    BY <1>2, <2>1 DEF MayMiss, Entries
  <2>4. PICK e \in S.address_table.entries : e.value = Null
    BY <1>2, <2>2, <2>3 DEF _find_connection, find, Entries
  <2>5. e.value \in 1 .. S.next_connection_index - 1
    BY DEF TableOK, TablesOK
  <2> QED
    BY <2>4, <2>5 DEF Null
<1> QED
  BY <1>1, <1>2

\* The connection is disconnected by its id, or missed.
LEMMA DisconnectLive ==
    ASSUME NEW s \in Sockets, NEW T, SocketOK(s, T), TablesOK(T), NEW c \in T.connections, NEW sent,
           DOMAIN sock = Sockets, _disconnect(s, T, c.id, sent)
    PROVE  /\ StepOf(s)
           /\ \/ /\ Removal(T, sock'[s], c) /\ TablesOK(sock'[s])
                 /\ net' = net \cup sent \cup {DisconnectPacket(s, c)}
              \/ /\ SameBut(T, sock'[s], {}) /\ T.id_table.disturbed
                 /\ net' = net \cup sent
<1>1. PICK pointer \in _find_connection_by_id(T, c.id) :
        \/ \E d \in Pointed(T, pointer) : CloseConnection(s, T, d, sent)
        \/ /\ pointer = Null
           /\ sock' = [sock EXCEPT ![s] = [T EXCEPT !.pending = {p \in @ : p.id # c.id}]]
           /\ net' = net \cup sent
        \/ Dangling(T, pointer) /\ Undefined(s)
  BY DEF _disconnect
<1>2. (pointer = Null /\ T.id_table.disturbed) \/ (pointer = c.id /\ pointer # Null)
  BY <1>1, FoundById
<1>3. DOMAIN T = SocketFields /\ IdsOK(T)
  BY DEF SocketOK, ShapeOK
<1>4. CASE \E d \in Pointed(T, pointer) : CloseConnection(s, T, d, sent)
  <2>1. PICK d \in Pointed(T, pointer) : \E U \in _remove_connection(T, d) :
            sock' = [sock EXCEPT ![s] = U] /\ net' = net \cup sent \cup {DisconnectPacket(s, d)}
    BY <1>4 DEF CloseConnection
  <2>2. d \in T.connections /\ d.id = pointer
    BY DEF Pointed
  <2>3. d.id # Null
    BY <2>2 DEF SocketOK, ConnectionOK, Null
  <2>4. d = c
    BY <1>2, <1>3, <2>2, <2>3 DEF IdsOK
  <2>5. sock'[s] \in _remove_connection(T, c) /\ StepOf(s)
    BY <2>1, <2>4 DEF StepOf
  <2>6. Removal(T, sock'[s], c) /\ TablesOK(sock'[s])
    BY <2>5, RemoveTables
  <2>7. net' = net \cup sent \cup {DisconnectPacket(s, c)}
    BY <2>1, <2>4
  <2> QED
    BY <2>5, <2>6, <2>7
<1>5. CASE /\ pointer = Null
           /\ sock' = [sock EXCEPT ![s] = [T EXCEPT !.pending = {p \in @ : p.id # c.id}]]
           /\ net' = net \cup sent
  <2>1. {p \in T.pending : p.id # c.id} = T.pending
    BY <1>3 DEF IdsOK
  <2>2. sock'[s] = [T EXCEPT !.pending = T.pending] /\ StepOf(s)
    BY <1>5, <2>1 DEF StepOf
  <2>3. SameBut(T, sock'[s], {})
    BY <1>3, <2>2 DEF SameBut, SocketFields
  <2> QED
    BY <1>2, <1>5, <2>2, <2>3
<1>6. CASE Dangling(T, pointer)
  BY <1>2, <1>6 DEF Dangling, Pointed
<1> QED
  BY <1>1, <1>4, <1>5, <1>6

LEMMA NoncesAreSet ==
    ASSUME NEW s, NEW x \in {s} \X Nat \X Nat
    PROVE  x # Unset
<1>1. x = <<x[1], x[2], x[3]>>
  OBVIOUS
<1> QED
  BY <1>1 DEF Unset

\* The request waits in the place of the connection that was found for the address.
LEMMA TakeTable ==
    ASSUME NEW s, NEW S, SocketOK(s, S), TableOK(S), NEW addr, NEW p, p.address = addr,
           p.type = "connection_host", _find_pending_connection(S, addr) = {},
           NEW pointer \in _find_connection(S, addr), ~Dangling(S, pointer), NEW V,
           V.pending = S.pending \cup {p}, V.connects = S.connects, V.connections \subseteq S.connections,
           \/ /\ Pointed(S, pointer) = {}
              /\ V.id_table = S.id_table /\ V.address_table = S.address_table
           \/ V.connections = {}
           \/ V.id_table.disturbed
    PROVE  HostOK(V)
<1> SUFFICES ASSUME S.connects = 0
             PROVE  /\ \A q \in V.pending : q.type = "connection_host"
                    /\ \A x, y \in V.pending : x.address = y.address => x = y
                    /\ \A c \in V.connections : ~c.is_initiator
                    /\ ~V.id_table.disturbed /\ ~V.address_table.disturbed =>
                        \A x, y \in V.pending \cup V.connections : x.address = y.address => x = y
  BY DEF HostOK
<1>1. /\ \A q \in S.pending : q.type = "connection_host"
      /\ \A x, y \in S.pending : x.address = y.address => x = y
      /\ \A c \in S.connections : ~c.is_initiator
      /\ ~S.id_table.disturbed /\ ~S.address_table.disturbed =>
          \A x, y \in S.pending \cup S.connections : x.address = y.address => x = y
  BY DEF TableOK, HostOK
<1>2. \A q \in S.pending : q.address # addr
  BY FindsByAddress
<1>3. ~S.address_table.disturbed /\ Pointed(S, pointer) = {} => \A c \in S.connections : c.address # addr
  BY FindsByAddress
<1>4. \A x, y \in V.pending : x.address = y.address => x = y
  BY <1>1, <1>2
<1>5. ASSUME ~V.id_table.disturbed, ~V.address_table.disturbed,
             NEW x \in V.pending \cup V.connections, NEW y \in V.pending \cup V.connections,
             x.address = y.address
      PROVE  x = y
  <2>1. CASE V.connections = {}
    BY <1>4, <1>5, <2>1
  <2>2. CASE /\ Pointed(S, pointer) = {}
             /\ V.id_table = S.id_table /\ V.address_table = S.address_table
    <3>1. \A z \in S.pending \cup S.connections : z.address # addr
      BY <1>2, <1>3, <1>5, <2>2
    <3>2. \A z \in V.pending \cup V.connections : z = p \/ z \in S.pending \cup S.connections
      OBVIOUS
    <3> QED
      BY <1>1, <1>5, <2>2, <3>1, <3>2
  <2> QED
    BY <1>5, <2>1, <2>2
<1> QED
  BY <1>1, <1>4, <1>5

LEMMA TakeKeeps ==
    ASSUME SocketInv, NEW s \in Sockets, NEW m \in net, Receives(s, m, "connect_request"),
           NEW pointer \in _find_connection(sock[s], m.from), ~Dangling(sock[s], pointer),
           TakeConnectRequest(s, m, Pointed(sock[s], pointer))
    PROVE  SocketInv'
<1> DEFINE S == sock[s]
           V == sock'[s]
           id == S.next_connection_index
           p == [id |-> id, type |-> "connection_host",
                 state |-> "awaiting_local_accept", address |-> m.from,
                 initiator_nonce |-> m.initiator_nonce, host_nonce |-> m.host_nonce,
                 initial_send_sequence |-> RandomSequence(s, id),
                 initial_recv_sequence |-> m.body.sequence,
                 shared_secret |-> compute_shared_secret_key(s, m.body.public_key),
                 symmetric_key |-> m.body.key, init_vector |-> RandomSequence(s, id),
                 client_identity |-> Unset, puzzle_solution |-> Unset, puzzle_request_index |-> 0,
                 puzzle_retried |-> FALSE, state_send_retry_count |-> 0, requests_sent |-> 0]
           existing == Pointed(S, pointer)
           sent == AcceptAgain(s, m, existing)
           T == [S EXCEPT !.puzzle_manager = AddNonce(@, m.initiator_nonce, m.host_nonce),
                          !.next_connection_index = id + 1, !.pending = @ \cup {p}]
<1>1. /\ SocketOK(s, S) /\ ShapeOK(s, S) /\ TableOK(S) /\ DOMAIN sock = Sockets /\ DOMAIN S = SocketFields
      /\ id \in Nat \ {0} /\ \A x \in S.pending : Continues(S, x)
  BY SocketFacts
<1>2. /\ SolutionResult(s, m) = "success" /\ _find_pending_connection(S, m.from) = {}
      /\ \/ existing = {} /\ sock' = [sock EXCEPT ![s] = T] /\ net' = net \cup sent
         \/ \E c \in existing : _disconnect(s, T, c.id, sent)
      /\ log' = Posted(log, s, id, "requested") /\ accepted' = accepted
  BY DEF TakeConnectRequest, ReplaceExisting
<1>3. /\ DOMAIN p = PendingFields /\ p.id = id /\ p.type = "connection_host"
      /\ p.state = "awaiting_local_accept" /\ p.address = m.from
      /\ p.initiator_nonce = m.initiator_nonce /\ p.host_nonce = m.host_nonce
      /\ p.initial_recv_sequence = m.body.sequence /\ p.state_send_retry_count = 0
      /\ p.shared_secret = compute_shared_secret_key(s, m.body.public_key)
  BY DEF PendingFields
<1>4. /\ DOMAIN T = SocketFields /\ T.status = S.status /\ T.epoch = S.epoch
      /\ T.next_connection_index = id + 1 /\ T.connects = S.connects
      /\ T.connections = S.connections /\ T.refreshes = S.refreshes
      /\ T.id_table = S.id_table /\ T.address_table = S.address_table
      /\ T.pending = S.pending \cup {p}
      /\ T.puzzle_manager = AddNonce(S.puzzle_manager, m.initiator_nonce, m.host_nonce)
  <2> HIDE DEF p
  <2> QED
    BY <1>1 DEF SocketFields
<1> HIDE DEF p, T
<1>5. existing \in SUBSET S.connections
  BY DEF Pointed
<1>6. /\ m.from \in Sockets \ {s} /\ m.body.public_key = m.from
      /\ Numbered(m.from, m.initiator_nonce, m.body.sequence)
  <2>1. m.to = s /\ m.type = "connect_request"
    BY DEF Receives
  <2>2. PacketOK(m)
    BY DEF SocketInv, AcceptInv
  <2> QED
    BY <2>1, <2>2 DEF PacketOK
<1>7. /\ m.host_nonce \in {s} \X Nat \X Nat /\ KnownNonce(S.puzzle_manager, m.host_nonce)
      /\ ~Used(s, S, m.initiator_nonce, m.host_nonce)
  BY <1>1, <1>2, SuccessIsNew
<1>8. /\ DOMAIN T.puzzle_manager = ManagerFields
      /\ T.puzzle_manager.current_nonce = S.puzzle_manager.current_nonce
      /\ T.puzzle_manager.last_nonce = S.puzzle_manager.last_nonce
      /\ S.puzzle_manager.current_nonce_table \subseteq T.puzzle_manager.current_nonce_table
      /\ S.puzzle_manager.last_nonce_table \subseteq T.puzzle_manager.last_nonce_table
      /\ m.host_nonce = S.puzzle_manager.current_nonce =>
            m.initiator_nonce \in T.puzzle_manager.current_nonce_table
      /\ m.host_nonce # S.puzzle_manager.current_nonce =>
            m.initiator_nonce \in T.puzzle_manager.last_nonce_table
  <2>1. DOMAIN S.puzzle_manager = ManagerFields
    BY <1>1 DEF ShapeOK
  <2> QED
    BY <1>4, <2>1, AddNonceFacts
<1>9. SocketOK(s, T)
  <2>1. ShapeOK(s, T)
    <3>1. id + 1 \in Nat \ {0}
      BY <1>1
    <3> QED
      BY <1>1, <1>4, <1>8, <3>1 DEF ShapeOK
  <2>2. PendingOK(s, S.epoch, T.next_connection_index, p)
    <3>1. id \in 1 .. (id + 1) - 1 /\ 0 \in 0 .. ChallengeRetryCount
      BY <1>1, SocketAssumption
    <3>2. m.host_nonce # Unset
      BY <1>7, NoncesAreSet
    <3> QED
      BY <1>3, <1>4, <1>6, <3>1, <3>2 DEF PendingOK
  <2>3. T.connections \subseteq S.connections
    BY <1>4
  <2> QED
    BY <1>1, <1>3, <1>4, <2>1, <2>2, <2>3, AddKeeps
<1>10. TablesOK(T)
  <2>1. \A x \in T.pending : (\E y \in S.pending : y.id = x.id) \/ x.id = S.next_connection_index
    BY <1>3, <1>4
  <2>2. /\ T.next_connection_index \in Nat /\ S.next_connection_index \in Nat
        /\ T.next_connection_index >= S.next_connection_index
    BY <1>1, <1>4
  <2> QED
    BY <1>1, <1>4, <2>1, <2>2, TablesKept DEF TableOK
<1>11. /\ StepOf(s) /\ SameBut(T, V, {"connections", "id_table", "address_table"})
       /\ V.connections \subseteq S.connections /\ TablesOK(V) /\ Aged(S, V)
       /\ \/ existing = {} /\ V.id_table = S.id_table /\ V.address_table = S.address_table
          \/ V.connections = {}
          \/ V.id_table.disturbed
       /\ \/ net' = net \cup sent
          \/ \E c : net' = net \cup sent \cup {DisconnectPacket(s, c)}
  <2>1. CASE existing = {} /\ sock' = [sock EXCEPT ![s] = T] /\ net' = net \cup sent
    <3>1. StepOf(s) /\ V = T
      BY <1>1, <2>1 DEF StepOf
    <3>2. SameBut(T, T, {"connections", "id_table", "address_table"})
      BY <1>4 DEF SameBut
    <3> QED
      BY <1>4, <1>10, <2>1, <3>1, <3>2 DEF Aged
  <2>2. CASE \E c \in existing : _disconnect(s, T, c.id, sent)
    <3>1. PICK c \in existing : _disconnect(s, T, c.id, sent)
      BY <2>2
    <3> HIDE DEF existing, sent
    <3>2. c \in T.connections
      BY <1>4, <1>5
    <3>3. /\ StepOf(s)
          /\ \/ /\ Removal(T, V, c) /\ TablesOK(V)
                /\ net' = net \cup sent \cup {DisconnectPacket(s, c)}
             \/ /\ SameBut(T, V, {}) /\ T.id_table.disturbed
                /\ net' = net \cup sent
      BY <1>1, <1>9, <1>10, <3>1, <3>2, DisconnectLive
    <3>4. CASE /\ Removal(T, V, c) /\ TablesOK(V)
               /\ net' = net \cup sent \cup {DisconnectPacket(s, c)}
      <4> HIDE DEF V
      <4> QED
        BY <1>4, <3>3, <3>4 DEF Removal, Aged
    <3>5. CASE /\ SameBut(T, V, {}) /\ T.id_table.disturbed
               /\ net' = net \cup sent
      <4> HIDE DEF V
      <4>1. /\ V.connections = T.connections /\ V.id_table = T.id_table
            /\ V.address_table = T.address_table /\ V.pending = T.pending
            /\ V.next_connection_index = T.next_connection_index
        BY <3>5 DEF SameBut, SocketFields
      <4>2. TablesOK(V)
        BY <1>10, <4>1 DEF TablesOK
      <4>3. SameBut(T, V, {"connections", "id_table", "address_table"})
        BY <3>5 DEF SameBut
      <4> QED
        BY <1>4, <3>3, <3>5, <4>1, <4>2, <4>3 DEF Aged
    <3> QED
      BY <3>3, <3>4, <3>5
  <2> QED
    BY <1>2, <2>1, <2>2
<1>17. /\ V.status = T.status /\ V.epoch = S.epoch /\ V.next_connection_index = id + 1
       /\ V.connects = S.connects /\ V.refreshes = S.refreshes /\ V.pending = S.pending \cup {p}
       /\ V.puzzle_manager = T.puzzle_manager /\ DOMAIN V = SocketFields
  BY <1>4, <1>11 DEF SameBut, SocketFields
<1>18. SocketOK(s, V)
  <2>1. ShapeOK(s, V)
    BY <1>4, <1>9, <1>17 DEF SocketOK, ShapeOK
  <2> HIDE DEF V
  <2>2. V.pending \subseteq T.pending /\ V.connections \subseteq T.connections
    BY <1>4, <1>11, <1>17
  <2> QED
    BY <1>4, <1>9, <1>17, <2>1, <2>2, FewerKeeps
<1>19. LocalInv /\ OnceInv /\ AcceptInv /\ TableInv /\ LogInv
  BY DEF SocketInv
<1> HIDE DEF existing, sent
<1>12. LocalInv'
  BY <1>11, <1>18, <1>19, LocalStep
<1>13. OnceInv'
  <2>1. \A x, y : Used(s, S, x, y) => Used(s, V, x, y)
    BY <1>8, <1>17, UsedKept
  <2>2. \A t \in Sockets : \A x, y : Used(t, sock[t], x, y) => Used(t, sock'[t], x, y)
    BY <1>11, <2>1 DEF StepOf
  <2>3. Used(s, V, p.initiator_nonce, p.host_nonce)
    BY <1>3, <1>7, <1>8, <1>17 DEF Used, KnownNonce
  <2>4. \A a \in accepted : a.host = s => ~SameNonces(a.connection, p)
    BY <1>3, <1>7, <1>19 DEF OnceInv, SameNonces
  <2>5. \A q \in Hosts(S) : ~SameNonces(q, p) /\ ~SameNonces(p, q)
    BY <1>3, <1>7, <1>19 DEF OnceInv, SameNonces
  <2>6. Hosts(V) = Hosts(S) \cup {p}
    BY <1>3, <1>17 DEF Hosts
  <2>7. \A t \in Sockets \ {s} : Hosts(sock'[t]) = Hosts(sock[t])
    BY <1>11 DEF StepOf
  <2>8. \A t \in Sockets : \A q \in Hosts(sock'[t]) : Used(t, sock'[t], q.initiator_nonce, q.host_nonce)
    BY <1>19, <2>2, <2>3, <2>6, <2>7 DEF OnceInv
  <2>9. \A t \in Sockets : \A q \in Hosts(sock'[t]) :
          /\ \A o \in Hosts(sock'[t]) : SameNonces(q, o) => q = o
          /\ \A a \in accepted : a.host = t => ~SameNonces(a.connection, q)
    BY <1>19, <2>4, <2>5, <2>6, <2>7 DEF OnceInv
  <2>10. SolutionOpensOnce'
    BY <1>2, <1>19 DEF OnceInv, SolutionOpensOnce, SameNonces
  <2>11. \A a \in accepted : a.host \in Sockets
           /\ Used(a.host, sock'[a.host], a.connection.initiator_nonce, a.connection.host_nonce)
    BY <1>19, <2>2 DEF OnceInv
  <2>12. accepted' = accepted
    BY <1>2
  <2> QED
    BY <2>8, <2>9, <2>10, <2>11, <2>12 DEF OnceInv, SameNonces
<1>14. AcceptInv'
  <2>1. \A c : PacketOK(DisconnectPacket(s, c))
    BY PlainPackets DEF DisconnectPacket, Packet
  <2>2. \A r \in sent : PacketOK(r)
    BY <1>5, AcceptAgainOK DEF sent
  <2>3. \A r \in net' : r \in net \/ PacketOK(r)
    BY <1>11, <2>1, <2>2
  <2>4. accepted' = accepted
    BY <1>2
  <2> QED
    BY <1>11, <1>19, <2>3, <2>4, AcceptKeeps
<1>15. TableInv'
  <2>1. HostOK(V)
    <3>1. _find_pending_connection(S, m.from) = {}
      BY <1>2
    <3> HIDE DEF V
    <3> QED
      BY <1>1, <1>3, <1>11, <1>17, <3>1, TakeTable DEF existing
  <2> QED
    BY <1>11, <1>19, <2>1 DEF TableInv, TableOK, StepOf
<1>16. LogInv'
  <2> DEFINE l == EventsOf(<<s, sock[s].epoch, id>>)
  <2>1. l = <<>>
    BY <1>19, FreshStory
  <2>2. \A i \in DOMAIN l : l[i] \in Before /\ l[i] \notin Terminal
    BY <2>1
  <2>3. \A x \in V.pending : x.id # id => Continues(S, x)
    BY <1>1, <1>3, <1>17
  <2>4. \A d \in V.connections : d.id # id /\ d \in S.connections
    <3>1. \A d \in S.connections : d.id \in 1 .. id - 1
      BY <1>1 DEF SocketOK, ConnectionOK
    <3>2. \A d \in S.connections : d.id # id
      BY <1>1, <3>1
    <3> QED
      BY <1>11, <3>2
  <2>5. /\ V.next_connection_index \in Nat /\ V.next_connection_index >= id
        /\ id \in 1 .. V.next_connection_index - 1
    BY <1>1, <1>17
  <2>6. "requested" \in Events /\ "requested" \in Before /\ "requested" # "established"
    BY DEF Events, Before
  <2>7. V.epoch = S.epoch /\ log' = Posted(log, s, id, "requested")
    BY <1>2, <1>17
  <2> HIDE DEF l
  <2> QED
    BY <1>11, <1>19, <2>2, <2>3, <2>4, <2>5, <2>6, <2>7, LogPosts DEF l
<1> QED
  BY <1>12, <1>13, <1>14, <1>15, <1>16 DEF SocketInv

LEMMA HandleRequestKeeps ==
    ASSUME SocketInv, NEW s \in Sockets, NEW m \in net, _handle_connect_request(s, m)
    PROVE  SocketInv'
<1>1. Receives(s, m, "connect_request")
  BY DEF _handle_connect_request
<1>2. PICK pointer \in _find_connection(sock[s], m.from) :
        LET existing == Pointed(sock[s], pointer) IN
        \/ Dangling(sock[s], pointer) /\ Undefined(s) /\ UNCHANGED <<log, accepted>>
        \/ /\ ~Dangling(sock[s], pointer)
           /\ \/ IgnoreConnectRequest(s, m, existing)
              \/ RejectConnectRequest(s, m, existing)
              \/ DropConnectRequest(s, m, existing)
              \/ TakeConnectRequest(s, m, existing)
  BY DEF _handle_connect_request
<1> DEFINE existing == Pointed(sock[s], pointer)
<1>3. existing \in SUBSET sock[s].connections
  BY DEF Pointed
<1>4. CASE Undefined(s) /\ UNCHANGED <<log, accepted>>
  BY <1>4, UndefinedKeeps
<1>5. CASE ~Dangling(sock[s], pointer) /\ TakeConnectRequest(s, m, existing)
  BY <1>1, <1>5, TakeKeeps
<1> HIDE DEF existing
<1>6. CASE IgnoreConnectRequest(s, m, existing)
  BY <1>1, <1>3, <1>6, IgnoreKeeps
<1>7. CASE RejectConnectRequest(s, m, existing)
  BY <1>1, <1>3, <1>7, RejectRequestKeeps
<1>8. CASE DropConnectRequest(s, m, existing)
  BY <1>1, <1>3, <1>8, DropKeeps
<1> QED
  BY <1>2, <1>4, <1>5, <1>6, <1>7, <1>8 DEF existing
-----------------------------------------------------------------------------
(* The invariant. *)

LEMMA SocketInit == Init => SocketInv
<1> SUFFICES ASSUME Init PROVE SocketInv
  OBVIOUS
<1>1. DOMAIN sock = Sockets /\ net = {} /\ DOMAIN log = {} /\ accepted = {}
  BY DEF Init
<1>2. ASSUME NEW s \in Sockets
      PROVE  /\ SocketOK(s, sock[s]) /\ TableOK(sock[s])
             /\ sock[s].pending = {} /\ sock[s].connections = {}
  <2> DEFINE S == sock[s]
  <2>1. S = NewSocket(s, 0)
    BY DEF Init
  <2>2. /\ DOMAIN S = SocketFields /\ S.status = "open" /\ S.epoch = 0
        /\ S.next_connection_index = 1 /\ S.connects = 0 /\ S.refreshes = 0
        /\ S.pending = {} /\ S.connections = {}
        /\ S.id_table = NewTable /\ S.address_table = NewTable
        /\ S.puzzle_manager = NewManager(HostNonce(s, 0, 1), HostNonce(s, 0, 0))
    BY <2>1 DEF NewSocket, SocketFields
  <2>3. /\ DOMAIN S.puzzle_manager = ManagerFields
        /\ S.puzzle_manager.current_nonce = HostNonce(s, S.epoch, S.refreshes + 1)
        /\ S.puzzle_manager.last_nonce = HostNonce(s, S.epoch, S.refreshes)
    BY <2>2 DEF NewManager, ManagerFields
  <2>4. MaxConnects[s] \in Nat
    BY SocketAssumption
  <2>5. S.connects \in 0 .. MaxConnects[s]
    BY <2>2, <2>4
  <2>6. ShapeOK(s, S)
    BY <2>2, <2>3, <2>5 DEF ShapeOK, Statuses
  <2> HIDE DEF S
  <2>7. SocketOK(s, S) /\ TableOK(S)
    BY <2>2, <2>6, NewTables DEF SocketOK, IdsOK
  <2> QED
    BY <2>2, <2>7 DEF S
<1>3. LocalInv /\ TableInv
  BY <1>1, <1>2 DEF LocalInv, TableInv
<1>4. OnceInv
  BY <1>1, <1>2 DEF OnceInv, Hosts, SolutionOpensOnce
<1>5. AcceptInv
  BY <1>1, <1>2 DEF AcceptInv, EstablishedMeansAccepted
<1>6. LogInv
  BY <1>1, <1>2 DEF LogInv
<1> QED
  BY <1>3, <1>4, <1>5, <1>6 DEF SocketInv

LEMMA SocketStep == SocketInv /\ [Next]_vars => SocketInv'
<1> SUFFICES ASSUME SocketInv, [Next]_vars PROVE SocketInv'
  OBVIOUS
<1>1. CASE UNCHANGED vars
  BY <1>1 DEF vars, SocketInv, LocalInv, OnceInv, SolutionOpensOnce, SameNonces, AcceptInv, PacketOK,
              EstablishedMeansAccepted, TableInv, LogInv, EventsOf, Key, GoesOn
<1>2. ASSUME NEW s \in Sockets, NEW t \in Targets[s] \ {s}, connect(s, t) PROVE SocketInv'
  <2>1. t \in Sockets \ {s}
    BY SocketAssumption
  <2> QED
    BY <1>2, <2>1, ConnectKeeps
<1>3. ASSUME NEW s \in Sockets, NEW p \in sock[s].pending, accept_connection_challenge(s, p)
      PROVE  SocketInv'
  BY <1>3, AcceptChallengeKeeps
<1>4. ASSUME NEW s \in Sockets, NEW p \in sock[s].pending, accept_connection(s, p) PROVE SocketInv'
  BY <1>4, AcceptConnectionKeeps
<1>5. ASSUME NEW s \in Sockets, NEW id, disconnect(s, id) PROVE SocketInv'
  BY <1>5, DisconnectKeeps
<1>6. ASSUME NEW s \in Sockets, NEW allow \in BOOLEAN, set_allows_connections(s, allow) PROVE SocketInv'
  BY <1>6, SetAllowsKeeps
<1>7. ASSUME NEW s \in Sockets, Destroy(s) PROVE SocketInv'
  BY <1>7, DestroyKeeps
<1>8. ASSUME NEW s \in Sockets, Restart(s) PROVE SocketInv'
  BY <1>8, RestartKeeps
<1>9. ASSUME NEW s \in Sockets, NEW m \in net, Deliver(s, m) PROVE SocketInv'
  BY <1>9, ChallengeRequestKeeps, ChallengeResponseKeeps, HandleRequestKeeps, HandleAcceptKeeps,
     RejectKeeps, HandleDisconnectKeeps DEF Deliver
<1>10. ASSUME NEW s \in Sockets, NEW p \in sock[s].pending, SweepPending(s, p) PROVE SocketInv'
  BY <1>10, SweepPendingKeeps
<1>11. ASSUME NEW s \in Sockets, NEW c \in sock[s].connections, SweepConnection(s, c) PROVE SocketInv'
  BY <1>11, SweepConnectionKeeps
<1>12. ASSUME NEW s \in Sockets, tick(s) PROVE SocketInv'
  BY <1>12, TickKeeps
<1>13. ASSUME NEW s \in Sockets, PuzzleResult(s) PROVE SocketInv'
  BY <1>13, PuzzleResultKeeps
<1>14. ASSUME NEW s \in Sockets, CloseNext(s) PROVE SocketInv'
  BY <1>14, CloseNextKeeps
<1> QED
  BY <1>1, <1>2, <1>3, <1>4, <1>5, <1>6, <1>7, <1>8, <1>9, <1>10, <1>11, <1>12, <1>13,
     <1>14 DEF Next

\* The invariant holds in every state of every number of sockets, attempts, refreshes and
\* restarts, over a network that may lose, repeat and reorder every packet.
THEOREM SocketInvariant == Spec => []SocketInv
BY SocketInit, SocketStep, PTL DEF Spec
-----------------------------------------------------------------------------
(* What it says. *)

\* Type correctness: the members a pending connection's state relies on are set, and no
\* two connections of a socket, pending or established, have the same id.
THEOREM SocketTypes == Spec => []TypeOK
<1>1. SocketInv => TypeOK
  <2> SUFFICES ASSUME SocketInv, NEW s \in Sockets
               PROVE  LET S == sock[s] IN
                      /\ S.status \in {"open", "closing", "closed", "hung", "undefined"}
                      /\ S.next_connection_index \in Nat /\ S.connects \in 0 .. MaxConnects[s]
                      /\ \A p \in S.pending :
                          /\ p.id \in 1 .. S.next_connection_index - 1
                          /\ p.state_send_retry_count \in 0 .. ChallengeRetryCount
                          /\ p.type = "connection_host" <=> p.state = "awaiting_local_accept"
                          /\ p.state # "requesting_challenge_response" =>
                              p.host_nonce # Unset /\ p.shared_secret = compute_shared_secret_key(s, p.address)
                      /\ \A c \in S.connections : c.id \in 1 .. S.next_connection_index - 1
                      /\ \A x, y \in S.pending \cup S.connections : x.id = y.id => x = y
    BY DEF TypeOK
  <2> DEFINE S == sock[s]
  <2>1. SocketOK(s, S) /\ ShapeOK(s, S) /\ IdsOK(S)
    BY SocketFacts
  <2>2. /\ S.status \in {"open", "closing", "closed", "hung", "undefined"}
        /\ S.next_connection_index \in Nat /\ S.connects \in 0 .. MaxConnects[s]
    BY <2>1 DEF ShapeOK, Statuses
  <2>3. \A p \in S.pending :
          /\ p.id \in 1 .. S.next_connection_index - 1
          /\ p.state_send_retry_count \in 0 .. ChallengeRetryCount
          /\ p.type = "connection_host" <=> p.state = "awaiting_local_accept"
          /\ p.state # "requesting_challenge_response" =>
              p.host_nonce # Unset /\ p.shared_secret = compute_shared_secret_key(s, p.address)
    BY <2>1 DEF SocketOK, PendingOK
  <2>4. \A c \in S.connections : c.id \in 1 .. S.next_connection_index - 1
    BY <2>1 DEF SocketOK, ConnectionOK
  <2>5. \A x, y \in S.pending \cup S.connections : x.id = y.id => x = y
    BY <2>1 DEF IdsOK
  <2> QED
    BY <2>2, <2>3, <2>4, <2>5
<1> QED
  BY <1>1, SocketInvariant, PTL

\* The work done for one puzzle opens one connection at the most: whatever copies of a
\* connect request arrive, before or after a refresh or a restart, accept_connection
\* agrees to its nonces once.
THEOREM PuzzleOpensOnce == Spec => []SolutionOpensOnce
<1>1. SocketInv => SolutionOpensOnce
  BY DEF SocketInv, OnceInv
<1> QED
  BY <1>1, SocketInvariant, PTL

\* What an initiator reports as established is what the host's application accepted, with
\* the nonces, the secret and the sequence numbers of that agreement.
THEOREM AcceptedByTheHost == Spec => []EstablishedMeansAccepted
<1>1. SocketInv => EstablishedMeansAccepted
  BY DEF SocketInv, AcceptInv
<1> QED
  BY <1>1, SocketInvariant, PTL

\* A socket that only answers has one connection or one request for each address, the
\* handler of a connect request having replaced the older one, whoever else is connected
\* and whatever was removed, from every state in which both tables are in order: before
\* the first removal, and again once they have become empty.
THEOREM OnePerAddress == Spec => []HostKeepsOne
<1>1. SocketInv => HostKeepsOne
  <2> SUFFICES ASSUME SocketInv, NEW s \in Sockets, NEW t \in Sockets, sock[s].connects = 0,
                      ~sock[s].id_table.disturbed, ~sock[s].address_table.disturbed,
                      NEW H, H = {x \in sock[s].connections : ~x.is_initiator /\ x.address = t}
                             \cup {p \in sock[s].pending : p.type = "connection_host" /\ p.address = t}
               PROVE  Cardinality(H) <= 1
    BY DEF HostKeepsOne
  <2>1. TableOK(sock[s])
    BY SocketFacts
  <2>2. \A x, y \in H : x = y
    BY <2>1 DEF TableOK, HostOK
  <2>3. CASE H = {}
    <3>1. Cardinality(H) = 0
      BY <2>3, FS_EmptySet
    <3> QED
      BY <3>1
  <2>4. CASE \E x : x \in H
    <3>1. PICK x : x \in H
      BY <2>4
    <3>2. H = {x}
      BY <2>2, <3>1
    <3>3. Cardinality(H) = 1
      BY <3>2, FS_Singleton
    <3> QED
      BY <3>3
  <2> QED
    BY <2>3, <2>4
<1> QED
  BY <1>1, SocketInvariant, PTL

\* The events posted for an id are a truthful story of it: announced before it is
\* established, established once, ended once and silent after that, also across restarts.
\* A connection outlives the application's disconnect only if a removal before it has
\* disturbed the table of ids.
THEOREM EventsAreTruthful == Spec => []EventsTellTheTruth
<1>1. SocketInv => EventsTellTheTruth
  <2> SUFFICES ASSUME SocketInv PROVE EventsTellTheTruth
    OBVIOUS
  <2>1. LogInv
    BY DEF SocketInv
  <2>2. \A k \in DOMAIN log : \A i \in DOMAIN log[k] :
          /\ log[k][i] \in Terminal => i = Len(log[k])
          /\ log[k][i] = "established" =>
              i > 1 /\ \A j \in 1 .. i - 1 : log[k][j] \in {"requested", "challenge_response"}
    BY <2>1 DEF LogInv, StoryOK, Before
  <2>3. \A s \in Sockets :
          /\ \A p \in sock[s].pending :
              \A i \in DOMAIN EventsOf(Key(s, p)) :
                  EventsOf(Key(s, p))[i] \in {"requested", "challenge_response"}
          /\ \A c \in sock[s].connections :
              EventsOf(Key(s, c)) # <<>> /\
              LET last == EventsOf(Key(s, c))[Len(EventsOf(Key(s, c)))] IN
              \/ last = "established"
              \/ last = "close_missed" /\ sock[s].id_table.disturbed
    BY <2>1 DEF LogInv, Before, GoesOn
  <2> QED
    BY <2>2, <2>3 DEF EventsTellTheTruth
<1> QED
  BY <1>1, SocketInvariant, PTL
=============================================================================
