------------------------- MODULE IntroductionProofs -------------------------
(***************************************************************************)
(* Theorems about Introduction, for any number of sockets, introductions,  *)
(* attempts and retries: an introduced connection goes on with the socket  *)
(* it was introduced to and in its own part, and, when the applications    *)
(* ask for each remote in one part, it punches only when both have asked.  *)
(***************************************************************************)
EXTENDS Introduction, TorqueSocketProofs, FunctionTheorems

IntroFields == PendingFields \cup {"introducer", "remote_client_id", "possible_addresses"}

\* The ids of the connections to the introducer are not above these.
Base(s) == IF s = Introducer THEN Cardinality(Clients) ELSE 1

\* The introducer's record i is about a as the initiator and b as the host.
Pair(i, a, b) ==
    introductions[i].initiator = ConnectionId[a] /\ introductions[i].host = ConnectionId[b]

\* Introduction i is complete and between the two, whoever is the initiator.
Between(i, s, t) ==
    /\ i \in DOMAIN introductions /\ s \in Clients /\ t \in Clients
    /\ BothReceived(introductions[i])
    /\ Pair(i, s, t) \/ Pair(i, t, s)

AskedFor(s, t, type) ==
    IF type = "introduced_connection_host"
    THEN [socket |-> s, remote |-> t, is_host |-> TRUE] \in asked
    ELSE [socket |-> s, remote |-> t, is_host |-> FALSE] \in asked

\* If the nonce is an introduction's, that introduction is between the two.
NonceOK(nonce, s, t) ==
    \A n \in Nat : nonce = IntroductionNonce(n, 1) => Between(n, s, t)

Attempt(s, p) ==
    /\ p.introducer = 1
    /\ \E t \in Clients : p.remote_client_id = ConnectionId[t] /\ AskedFor(s, t, p.type)
    /\ p.state = "requesting_introduction" => p.possible_addresses = {}
    /\ p.state = "sending_punch_packets" =>
        \E i \in DOMAIN introductions : \E t \in Clients :
            /\ p.possible_addresses = {t} /\ Between(i, s, t)
            /\ SameNonces(p, introductions[i]) /\ AskedFor(s, t, p.type)
    /\ p.state \notin IntroductionStates =>
        /\ p.address \in p.possible_addresses
        /\ p.type = "introduced_connection_host" <=> p.state = "awaiting_connect_request"
    /\ p.state = "requesting_challenge_response" => NonceOK(p.initiator_nonce, s, p.address)

AnyPendingOK(s, p) ==
    /\ p.id \in Nat /\ p.id > Base(s)
    /\ p.type = "connection_host" => DOMAIN p = PendingFields /\ p.state = "awaiting_local_accept"
    /\ p.type # "connection_host" =>
        p.type \in IntroducedTypes /\ DOMAIN p = IntroFields /\ s \in Clients /\ Attempt(s, p)

OldOrNew(s, c) == c \in Connected(Introducer, s).connections \/ (c.id \in Nat /\ c.id > Base(s))

\* The table of ids leads to nothing but the id it was asked for.
IdEntriesOK(S) == TableShape(S.id_table) /\ \A e \in S.id_table.entries : e.key = e.value

FewerIds(S, T) ==
    \/ T.id_table = S.id_table
    \/ TableShape(T.id_table) /\ T.id_table.entries \subseteq S.id_table.entries

SocketsInv ==
    /\ DOMAIN sock = Sockets
    /\ \A s \in Sockets :
        /\ DOMAIN sock[s] = SocketFields
        /\ sock[s].next_connection_index \in Nat /\ sock[s].next_connection_index > Base(s)
        /\ \A p \in sock[s].pending : AnyPendingOK(s, p)
        /\ \A c \in sock[s].connections : OldOrNew(s, c)
        /\ IdEntriesOK(sock[s])

IntroductionNonces(role) == {Introducer} \X {sock[Introducer].epoch} \X {0} \X Nat \X {role}

RecordType ==
    [initiator_nonce : IntroductionNonces(1), host_nonce : IntroductionNonces(2),
     initiator : Nat, host : Nat, initiator_request_received : BOOLEAN,
     host_request_received : BOOLEAN]

\* The nonces of a record are its own, and what it received was asked for.
RecordOK(i, r) ==
    /\ r.initiator_nonce = IntroductionNonce(i, 1) /\ r.host_nonce = IntroductionNonce(i, 2)
    /\ \E a, b \in Clients :
        /\ r.initiator = ConnectionId[a] /\ r.host = ConnectionId[b]
        /\ r.initiator_request_received => AskedFor(a, b, "introduced_connection_initiator")
        /\ r.host_request_received => AskedFor(b, a, "introduced_connection_host")

RecordsInv ==
    /\ asked \subseteq Asks /\ introductions \in Seq(RecordType)
    /\ \A i \in DOMAIN introductions : RecordOK(i, introductions[i])

AnyPacketOK(m) ==
    /\ m.type = "introduced_connection_request" =>
        /\ m.initiator_nonce = <<m.from, 0, 1, 0>> /\ m.body.is_initiator \in BOOLEAN
        /\ \E t \in Clients : m.body.remote_id = ConnectionId[t]
            /\ IF m.body.is_initiator THEN AskedFor(m.from, t, "introduced_connection_initiator")
               ELSE AskedFor(m.from, t, "introduced_connection_host")
    /\ m.type = "connection_introduction" =>
        /\ m.body.remote_id = ConnectionId[m.body.remote_address]
        /\ \E i \in DOMAIN introductions :
            Between(i, m.to, m.body.remote_address) /\ SameNonces(m.body, introductions[i])
    /\ m.type = "punch" =>
        \E i \in DOMAIN introductions : Between(i, m.from, m.to) /\ SameNonces(m, introductions[i])
    /\ m.type = "connect_challenge_request" => NonceOK(m.initiator_nonce, m.from, m.to)

IntroInv == SocketsInv /\ RecordsInv /\ \A m \in net : AnyPacketOK(m)
-----------------------------------------------------------------------------
(* The numbers of the introducer's connections. *)

LEMMA ClientsFinite == IsFiniteSet(Clients) /\ Cardinality(Clients) \in Nat /\ Introducer \notin Clients
<1>1. IsFiniteSet(Sockets)
  BY IntroductionAssumption
<1>2. IsFiniteSet(Clients)
  BY <1>1, FS_Difference DEF Clients, ClientsOf
<1> QED
  BY <1>2, FS_CardinalityType DEF Clients, ClientsOf

\* There is such a numbering, so that no two connections have the same id.
LEMMA ConnectionIds ==
    /\ ConnectionId \in [Clients -> 1 .. Cardinality(Clients)]
    /\ \A s, t \in Clients : ConnectionId[s] = ConnectionId[t] => s = t
<1> DEFINE n == Cardinality(Clients)
           Numbers(f) == \A s, t \in Clients : f[s] = f[t] => s = t
<1>1. ExistsBijection(1 .. n, Clients)
  BY ClientsFinite, FS_CardinalityType
<1>2. ExistsBijection(Clients, 1 .. n)
  BY <1>1, Fun_ExistsBijSymmetric
<1>3. PICK f : f \in Bijection(Clients, 1 .. n)
  BY <1>2 DEF ExistsBijection
<1>4. f \in [Clients -> 1 .. n] /\ Numbers(f)
  BY <1>3, Fun_BijectionProperties
<1>5. ConnectionId = CHOOSE g \in [Clients -> 1 .. n] : Numbers(g)
  BY DEF ConnectionId, AcceptOrder, Clients
<1> HIDE DEF n, Numbers
<1>6. ConnectionId \in [Clients -> 1 .. n] /\ Numbers(ConnectionId)
  BY <1>4, <1>5
<1> QED
  BY <1>6 DEF n, Numbers

LEMMA IdRange ==
    ASSUME NEW t \in Clients
    PROVE  /\ ConnectionId[t] \in Nat /\ ConnectionId[t] >= 1
           /\ ConnectionId[t] <= Base(Introducer) /\ Base(Introducer) \in Nat
BY ConnectionIds, ClientsFinite DEF Base

LEMMA BaseIsNat == ASSUME NEW s PROVE Base(s) \in Nat
BY ClientsFinite DEF Base

\* The connections everything starts with.
LEMMA ConnectedFacts ==
    ASSUME NEW s
    PROVE  /\ DOMAIN Connected(Introducer, s) = SocketFields /\ Connected(Introducer, s).pending = {}
           /\ Connected(Introducer, s).connections =
                {Established(Introducer, s, t) : t \in IF s = Introducer THEN Clients ELSE {s}}
           /\ Connected(Introducer, s).next_connection_index =
                Cardinality(Connected(Introducer, s).connections) + 1
           /\ IdEntriesOK(Connected(Introducer, s))
<1> DEFINE ends == {Established(Introducer, s, t) : t \in IF s = Introducer THEN Clients ELSE {s}}
           ids == {[key |-> c.id, value |-> c.id] : c \in ends}
<1>1. /\ DOMAIN Connected(Introducer, s) = SocketFields /\ Connected(Introducer, s).pending = {}
      /\ Connected(Introducer, s).connections = ends
      /\ Connected(Introducer, s).next_connection_index = Cardinality(ends) + 1
  BY DEF Connected, NewSocket, SocketFields, Clients
<1>2. Connected(Introducer, s).id_table.entries = ids
  BY DEF Connected, NewSocket, SocketFields, Clients
<1>4. TableShape(Connected(Introducer, s).id_table)
  BY DEF Connected, NewSocket, SocketFields, TableShape
<1>3. \A e \in ids : e.key = e.value
  <2> HIDE DEF ends
  <2> QED
    OBVIOUS
<1> HIDE DEF ends, ids
<1> QED
  BY <1>1, <1>2, <1>3, <1>4 DEF IdEntriesOK, ends

LEMMA ClientEnd ==
    ASSUME NEW s \in Clients, NEW c \in Connected(Introducer, s).connections
    PROVE  c.id = 1 /\ c.address = Introducer /\ c.initiator_nonce = <<s, 0, 1, 0>>
<1>1. s # Introducer
  BY DEF Clients, ClientsOf
<1>2. c = Established(Introducer, s, s)
  BY <1>1, ConnectedFacts
<1> QED
  BY <1>1, <1>2 DEF Established

LEMMA IntroducerEnd ==
    ASSUME NEW c \in Connected(Introducer, Introducer).connections
    PROVE  \E t \in Clients :
            c.id = ConnectionId[t] /\ c.address = t /\ c.initiator_nonce = <<t, 0, 1, 0>>
<1>1. Connected(Introducer, Introducer).connections = {Established(Introducer, Introducer, t) : t \in Clients}
  BY ConnectedFacts
<1>2. PICK t \in Clients : c = Established(Introducer, Introducer, t)
  BY <1>1
<1> QED
  BY <1>2 DEF Established, ConnectionId

LEMMA NextIsAbove ==
    ASSUME NEW s \in Sockets
    PROVE  /\ Connected(Introducer, s).next_connection_index \in Nat
           /\ Connected(Introducer, s).next_connection_index > Base(s)
<1>0. Connected(Introducer, s).next_connection_index = Cardinality(Connected(Introducer, s).connections) + 1
  BY ConnectedFacts, Zenon
<1>1. CASE s # Introducer
  <2>1. Connected(Introducer, s).connections = {Established(Introducer, s, s)}
    BY <1>1, ConnectedFacts
  <2>2. Cardinality(Connected(Introducer, s).connections) = 1
    BY <2>1, FS_Singleton
  <2> QED
    BY <1>0, <1>1, <2>2 DEF Base
<1>2. CASE s = Introducer
  <2> DEFINE E(t) == Established(Introducer, Introducer, t)
             ends == {E(t) : t \in Clients}
             f == [t \in Clients |-> E(t)]
  <2>1. \A t, u \in Clients : E(t) = E(u) => t = u
    BY DEF Established
  <2>2. f \in Bijection(Clients, ends)
    <3> HIDE DEF E
    <3>1. f \in [Clients -> ends] /\ \A t, u \in Clients : f[t] = f[u] => t = u
      BY <2>1
    <3>2. \A e \in ends : \E t \in Clients : f[t] = e
      OBVIOUS
    <3> HIDE DEF f, ends
    <3> QED
      BY <3>1, <3>2, Fun_IsBij
  <2>3. Cardinality(ends) = Cardinality(Clients)
    <3>1. ExistsBijection(Clients, ends)
      BY <2>2 DEF ExistsBijection
    <3> HIDE DEF ends
    <3> QED
      BY <3>1, ClientsFinite, FS_Bijection
  <2>4. Connected(Introducer, s).connections = ends
    BY <1>2, ConnectedFacts
  <2> HIDE DEF ends
  <2> QED
    BY <1>0, <1>2, <2>3, <2>4, ClientsFinite DEF Base
<1> QED
  BY <1>1, <1>2

\* A connection that is found by an id from before is one of those.
LEMMA OldById ==
    ASSUME SocketsInv, NEW s \in Sockets, NEW id, id \in Nat, id <= Base(s),
           NEW pointer \in _find_connection_by_id(sock[s], id), NEW c \in Pointed(sock[s], pointer)
    PROVE  c \in Connected(Introducer, s).connections /\ c.id = id
<1>1. c \in sock[s].connections /\ c.id = pointer
  BY DEF Pointed
<1>2. OldOrNew(s, c) /\ IdEntriesOK(sock[s])
  BY <1>1 DEF SocketsInv
<1>3. pointer = id \/ pointer = 0
  BY <1>2 DEF IdEntriesOK, _find_connection_by_id, find, Entries, Null
<1>4. c \in Connected(Introducer, s).connections
  BY <1>1, <1>2, <1>3, BaseIsNat DEF OldOrNew
<1>5. c.id # 0
  <2>1. CASE s = Introducer
    <3>1. PICK t \in Clients : c.id = ConnectionId[t]
      BY <1>4, <2>1, IntroducerEnd
    <3> QED
      BY <3>1, IdRange
  <2>2. CASE s # Introducer
    <3>1. s \in Clients
      BY <2>2 DEF Clients, ClientsOf
    <3> QED
      BY <1>4, <3>1, ClientEnd
  <2> QED
    BY <2>1, <2>2
<1> QED
  BY <1>1, <1>3, <1>4, <1>5
-----------------------------------------------------------------------------
(* Nonces and pairs. *)

LEMMA NonceIsOfOne ==
    ASSUME NEW i, NEW j, IntroductionNonce(i, 1) = IntroductionNonce(j, 1)
    PROVE  i = j
BY DEF IntroductionNonce

LEMMA BetweenSym ==
    ASSUME NEW i, NEW s, NEW t, Between(i, s, t)
    PROVE  Between(i, t, s)
BY DEF Between

LEMMA BetweenOne ==
    ASSUME NEW i, NEW s, NEW t, NEW x, Between(i, x, s), Between(i, s, t)
    PROVE  x = t
BY ConnectionIds DEF Between, Pair

LEMMA RecordNonce ==
    ASSUME RecordsInv, NEW i \in DOMAIN introductions
    PROVE  /\ i \in Nat
           /\ introductions[i].initiator_nonce = IntroductionNonce(i, 1)
           /\ introductions[i].host_nonce = IntroductionNonce(i, 2)
<1>1. introductions \in Seq(RecordType)
  BY DEF RecordsInv
<1>2. i \in Nat
  BY <1>1
<1> QED
  BY <1>2 DEF RecordsInv, RecordOK
-----------------------------------------------------------------------------
(* What a step may change. *)

\* What was asked for, introduced and received stays so.
Grows ==
    /\ asked \subseteq asked' /\ sock'[Introducer].epoch = sock[Introducer].epoch
    /\ DOMAIN introductions \subseteq DOMAIN introductions'
    /\ \A i \in DOMAIN introductions :
        /\ introductions'[i].initiator = introductions[i].initiator
        /\ introductions'[i].host = introductions[i].host
        /\ SameNonces(introductions'[i], introductions[i])
        /\ BothReceived(introductions[i]) => BothReceived(introductions'[i])

LEMMA AskedGrows ==
    ASSUME Grows, NEW s, NEW t, NEW type, AskedFor(s, t, type)
    PROVE  AskedFor(s, t, type)'
BY DEF Grows, AskedFor

LEMMA BetweenGrows ==
    ASSUME Grows, NEW i, NEW s, NEW t, Between(i, s, t)
    PROVE  Between(i, s, t)'
BY DEF Grows, Between, Pair, BothReceived

LEMMA NonceGrows ==
    ASSUME Grows, NEW x, NEW s, NEW t, NonceOK(x, s, t)
    PROVE  NonceOK(x, s, t)'
<1> SUFFICES ASSUME NEW n \in Nat, x = IntroductionNonce(n, 1)' PROVE Between(n, s, t)'
  BY DEF NonceOK
<1>1. x = IntroductionNonce(n, 1)
  BY DEF IntroductionNonce, Grows
<1>2. Between(n, s, t)
  BY <1>1 DEF NonceOK
<1> QED
  BY <1>2, BetweenGrows

LEMMA NoncesGrow ==
    ASSUME Grows, NEW i \in DOMAIN introductions, NEW x, SameNonces(x, introductions[i])
    PROVE  i \in DOMAIN introductions' /\ SameNonces(x, introductions'[i])
BY DEF Grows, SameNonces

LEMMA AttemptGrows ==
    ASSUME Grows, NEW s, NEW p, Attempt(s, p)
    PROVE  Attempt(s, p)'
<1>1. \E t \in Clients : p.remote_client_id = ConnectionId[t] /\ AskedFor(s, t, p.type)'
  BY AskedGrows DEF Attempt
<1>2. ASSUME p.state = "sending_punch_packets"
      PROVE  \E i \in DOMAIN introductions' : \E t \in Clients :
                /\ p.possible_addresses = {t} /\ Between(i, s, t)'
                /\ SameNonces(p, introductions'[i]) /\ AskedFor(s, t, p.type)'
  <2>1. PICK i \in DOMAIN introductions : \E t \in Clients :
            /\ p.possible_addresses = {t} /\ Between(i, s, t)
            /\ SameNonces(p, introductions[i]) /\ AskedFor(s, t, p.type)
    BY <1>2 DEF Attempt
  <2>2. PICK t \in Clients :
            /\ p.possible_addresses = {t} /\ Between(i, s, t)
            /\ SameNonces(p, introductions[i]) /\ AskedFor(s, t, p.type)
    BY <2>1
  <2>3. Between(i, s, t)'
    BY <2>2, BetweenGrows
  <2>4. AskedFor(s, t, p.type)'
    BY <2>2, AskedGrows
  <2>5. i \in DOMAIN introductions' /\ SameNonces(p, introductions'[i])
    BY <2>2, NoncesGrow
  <2> QED
    BY <2>2, <2>3, <2>4, <2>5, Zenon
<1>3. p.state = "requesting_challenge_response" => NonceOK(p.initiator_nonce, s, p.address)'
  BY NonceGrows DEF Attempt
<1>4. /\ p.introducer = 1
      /\ p.state = "requesting_introduction" => p.possible_addresses = {}
      /\ p.state \notin IntroductionStates =>
            /\ p.address \in p.possible_addresses
            /\ p.type = "introduced_connection_host" <=> p.state = "awaiting_connect_request"
  BY DEF Attempt
<1> QED
  BY <1>1, <1>2, <1>3, <1>4, Zenon DEF Attempt, SameNonces

LEMMA PendingGrows ==
    ASSUME Grows, NEW s, NEW p, AnyPendingOK(s, p)
    PROVE  AnyPendingOK(s, p)'
BY AttemptGrows DEF AnyPendingOK

LEMMA PacketGrows ==
    ASSUME Grows, NEW m, AnyPacketOK(m)
    PROVE  AnyPacketOK(m)'
<1>1. ASSUME m.type = "introduced_connection_request"
      PROVE  /\ m.initiator_nonce = <<m.from, 0, 1, 0>> /\ m.body.is_initiator \in BOOLEAN
             /\ \E t \in Clients : m.body.remote_id = ConnectionId[t]
                 /\ IF m.body.is_initiator THEN AskedFor(m.from, t, "introduced_connection_initiator")'
                    ELSE AskedFor(m.from, t, "introduced_connection_host")'
  BY <1>1, AskedGrows DEF AnyPacketOK
<1>2. ASSUME m.type = "connection_introduction"
      PROVE  /\ m.body.remote_id = ConnectionId[m.body.remote_address]
             /\ \E i \in DOMAIN introductions' :
                    Between(i, m.to, m.body.remote_address)' /\ SameNonces(m.body, introductions'[i])
  <2>1. PICK i \in DOMAIN introductions :
            Between(i, m.to, m.body.remote_address) /\ SameNonces(m.body, introductions[i])
    BY <1>2 DEF AnyPacketOK
  <2>2. Between(i, m.to, m.body.remote_address)'
    BY <2>1, BetweenGrows
  <2>3. i \in DOMAIN introductions' /\ SameNonces(m.body, introductions'[i])
    BY <2>1, NoncesGrow
  <2> QED
    BY <1>2, <2>2, <2>3 DEF AnyPacketOK
<1>3. ASSUME m.type = "punch"
      PROVE  \E i \in DOMAIN introductions' :
                Between(i, m.from, m.to)' /\ SameNonces(m, introductions'[i])
  <2>1. PICK i \in DOMAIN introductions : Between(i, m.from, m.to) /\ SameNonces(m, introductions[i])
    BY <1>3 DEF AnyPacketOK
  <2>2. Between(i, m.from, m.to)'
    BY <2>1, BetweenGrows
  <2>3. i \in DOMAIN introductions' /\ SameNonces(m, introductions'[i])
    BY <2>1, NoncesGrow
  <2> QED
    BY <2>2, <2>3
<1>4. m.type = "connect_challenge_request" => NonceOK(m.initiator_nonce, m.from, m.to)'
  BY NonceGrows DEF AnyPacketOK
<1> QED
  BY <1>1, <1>2, <1>3, <1>4, Zenon DEF AnyPacketOK, SameNonces

\* A step of one socket, with what it adds.
LEMMA SocketsStep ==
    ASSUME SocketsInv, Grows, NEW s \in Sockets, StepOf(s), DOMAIN sock'[s] = SocketFields,
           sock'[s].next_connection_index \in Nat, sock'[s].next_connection_index > Base(s),
           \A p \in sock'[s].pending : p \in sock[s].pending \/ AnyPendingOK(s, p)',
           \A c \in sock'[s].connections : c \in sock[s].connections \/ (c.id \in Nat /\ c.id > Base(s)),
           IdEntriesOK(sock'[s])
    PROVE  SocketsInv'
<1>1. \A t \in Sockets : \A p \in sock'[t].pending : AnyPendingOK(t, p)'
  BY PendingGrows DEF SocketsInv, StepOf
<1>2. \A t \in Sockets : \A c \in sock'[t].connections : OldOrNew(t, c)
  BY DEF SocketsInv, StepOf, OldOrNew
<1>4. \A t \in Sockets : IdEntriesOK(sock'[t])
  BY DEF SocketsInv, StepOf
<1>3. \A t \in Sockets :
        /\ DOMAIN sock'[t] = SocketFields
        /\ sock'[t].next_connection_index \in Nat /\ sock'[t].next_connection_index > Base(t)
  BY DEF SocketsInv, StepOf
<1> QED
  BY <1>1, <1>2, <1>3, <1>4 DEF SocketsInv, StepOf

LEMMA PacketsStep ==
    ASSUME IntroInv, Grows, \A m \in net' : m \in net \/ AnyPacketOK(m)'
    PROVE  \A m \in net' : AnyPacketOK(m)'
BY PacketGrows DEF IntroInv

LEMMA RecordsKept ==
    ASSUME RecordsInv, UNCHANGED <<introductions, asked>>,
           sock'[Introducer].epoch = sock[Introducer].epoch
    PROVE  RecordsInv'
<1>1. IntroductionNonces(1)' = IntroductionNonces(1) /\ IntroductionNonces(2)' = IntroductionNonces(2)
  BY DEF IntroductionNonces
<1>2. RecordType' = RecordType
  BY <1>1 DEF RecordType
<1>3. \A i \in DOMAIN introductions : RecordOK(i, introductions[i])'
  BY DEF RecordsInv, RecordOK, IntroductionNonce, AskedFor
<1> QED
  BY <1>2, <1>3 DEF RecordsInv

\* A step of one socket that leaves the introductions alone.
LEMMA QuietStep ==
    ASSUME IntroInv, UNCHANGED <<introductions, asked>>, NEW s \in Sockets, StepOf(s),
           DOMAIN sock'[s] = SocketFields, sock'[s].epoch = sock[s].epoch,
           sock'[s].next_connection_index \in Nat,
           sock'[s].next_connection_index >= sock[s].next_connection_index,
           \A p \in sock'[s].pending : p \in sock[s].pending \/ AnyPendingOK(s, p),
           \A c \in sock'[s].connections : c \in sock[s].connections \/ (c.id \in Nat /\ c.id > Base(s)),
           IdEntriesOK(sock'[s]), \A m \in net' : m \in net \/ AnyPacketOK(m)
    PROVE  IntroInv'
<1>1. sock'[Introducer].epoch = sock[Introducer].epoch
  BY IntroductionAssumption DEF StepOf
<1>2. Grows
  BY <1>1 DEF Grows, SameNonces
<1>3. sock'[s].next_connection_index > Base(s)
  <2>1. sock[s].next_connection_index \in Nat /\ sock[s].next_connection_index > Base(s)
    BY DEF IntroInv, SocketsInv
  <2> QED
    BY <2>1, BaseIsNat
<1>4. SocketsInv'
  <2>1. \A p \in sock'[s].pending : p \in sock[s].pending \/ AnyPendingOK(s, p)'
    BY <1>2, PendingGrows
  <2> QED
    BY <1>2, <1>3, <2>1, SocketsStep DEF IntroInv
<1>5. RecordsInv'
  BY <1>1, RecordsKept DEF IntroInv
<1>6. \A m \in net' : AnyPacketOK(m)'
  <2>1. \A m \in net' : m \in net \/ AnyPacketOK(m)'
    BY <1>2, PacketGrows
  <2> QED
    BY <1>2, <2>1, PacketsStep
<1> QED
  BY <1>4, <1>5, <1>6 DEF IntroInv
-----------------------------------------------------------------------------
(* The handshake's steps. *)

LEMMA IntroFacts ==
    ASSUME IntroInv, NEW s \in Sockets
    PROVE  /\ DOMAIN sock = Sockets /\ DOMAIN sock[s] = SocketFields
           /\ sock[s].next_connection_index \in Nat /\ sock[s].next_connection_index > Base(s)
           /\ \A p \in sock[s].pending : AnyPendingOK(s, p) /\ p.id \in Nat /\ p.id > Base(s)
           /\ IdEntriesOK(sock[s])
BY DEF IntroInv, SocketsInv, AnyPendingOK

\* The fields in which a step may take something away.
Lessened == {"status", "allow_connections", "pending", "connections", "id_table", "address_table",
             "puzzle_manager", "requests", "solver"}

\* Nothing is added but packets.
LEMMA QuietLess ==
    ASSUME IntroInv, UNCHANGED <<introductions, asked>>, NEW s \in Sockets, StepOf(s),
           SameBut(sock[s], sock'[s], Lessened),
           sock'[s].pending \subseteq sock[s].pending,
           sock'[s].connections \subseteq sock[s].connections,
           FewerIds(sock[s], sock'[s]),
           \A m \in net' : m \in net \/ AnyPacketOK(m)
    PROVE  IntroInv'
<1>1. /\ DOMAIN sock'[s] = SocketFields /\ sock'[s].epoch = sock[s].epoch
      /\ sock'[s].next_connection_index = sock[s].next_connection_index
  BY DEF SameBut, SocketFields, Lessened
<1>2. sock'[s].next_connection_index \in Nat
      /\ sock'[s].next_connection_index >= sock[s].next_connection_index
  BY <1>1, IntroFacts
<1>3. IdEntriesOK(sock'[s])
  BY IntroFacts DEF IdEntriesOK, FewerIds
<1> QED
  BY <1>1, <1>2, <1>3, QuietStep

LEMMA QuietReplace ==
    ASSUME IntroInv, UNCHANGED <<introductions, asked>>, NEW s \in Sockets, StepOf(s),
           SameBut(sock[s], sock'[s], {"pending", "requests", "solver"}),
           NEW p, NEW q, AnyPendingOK(s, q), sock'[s].pending = (sock[s].pending \ {p}) \cup {q},
           \A m \in net' : m \in net \/ AnyPacketOK(m)
    PROVE  IntroInv'
<1>1. /\ DOMAIN sock'[s] = SocketFields /\ sock'[s].epoch = sock[s].epoch
      /\ sock'[s].next_connection_index = sock[s].next_connection_index
      /\ sock'[s].connections = sock[s].connections /\ sock'[s].id_table = sock[s].id_table
  BY DEF SameBut, SocketFields
<1>2. sock'[s].next_connection_index \in Nat
      /\ sock'[s].next_connection_index >= sock[s].next_connection_index
  BY <1>1, IntroFacts
<1>3. \A x \in sock'[s].pending : x \in sock[s].pending \/ AnyPendingOK(s, x)
  OBVIOUS
<1>4. IdEntriesOK(sock'[s])
  BY <1>1, IntroFacts DEF IdEntriesOK
<1> QED
  BY <1>1, <1>2, <1>3, <1>4, QuietStep

\* What _add_connection and _remove_connection do to the table of ids.
LEMMA AddedEntries ==
    ASSUME NEW S, DOMAIN S = SocketFields, IdEntriesOK(S), NEW p, NEW c,
           NEW T, T = _add_connection([S EXCEPT !.pending = @ \ {p}], c)
    PROVE  IdEntriesOK(T)
<1> DEFINE e == [key |-> c.id, value |-> c.id]
<1>1. T.id_table = insert(S.id_table, c.id, c.id)
  BY DEF _add_connection, SocketFields
<1>2. TableShape(T.id_table) /\ T.id_table.entries = S.id_table.entries \cup {e}
  BY <1>1 DEF insert, IdEntriesOK, TableShape
<1>3. e.key = e.value
  OBVIOUS
<1> HIDE DEF e
<1> QED
  BY <1>2, <1>3 DEF IdEntriesOK

LEMMA RemovedEntries ==
    ASSUME NEW S, DOMAIN S = SocketFields, NEW c, NEW T \in _remove_connection(S, c)
    PROVE  /\ SameBut(S, T, {"connections", "id_table", "address_table"})
           /\ T.connections \subseteq S.connections /\ FewerIds(S, T)
<1>1. PICK X \in remove(S.id_table, c.id), Y \in remove(S.address_table, c.address) :
        T = [S EXCEPT !.connections = @ \ {c}, !.id_table = X, !.address_table = Y]
  BY DEF _remove_connection
<1>2. X = S.id_table \/ \E e \in S.id_table.entries : X = Without(S.id_table, e)
  BY DEF remove, Entries
<1>3. X = S.id_table \/ (TableShape(X) /\ X.entries \subseteq S.id_table.entries)
  BY <1>2, WithoutTable
<1>4. T.id_table = X
  BY <1>1 DEF SocketFields
<1>5. FewerIds(S, T)
  BY <1>3, <1>4 DEF FewerIds
<1> QED
  BY <1>1, <1>5 DEF SameBut, SocketFields

\* An introduced connection that is in the handshake goes on in it.
LEMMA AttemptGoesOn ==
    ASSUME NEW s, NEW p, NEW q, AnyPendingOK(s, p), p.type # "connection_host",
           p.state \notin IntroductionStates, p.state # "awaiting_connect_request",
           DOMAIN q = DOMAIN p, q.id = p.id, q.type = p.type, q.address = p.address,
           q.introducer = p.introducer, q.remote_client_id = p.remote_client_id,
           q.possible_addresses = p.possible_addresses,
           q.state \notin IntroductionStates, q.state # "awaiting_connect_request",
           q.state = "requesting_challenge_response" => NonceOK(q.initiator_nonce, s, q.address)
    PROVE  AnyPendingOK(s, q)
<1>1. Attempt(s, p)
  BY DEF AnyPendingOK
<1>2. Attempt(s, q)
  BY <1>1 DEF Attempt, IntroductionStates
<1> QED
  BY <1>2 DEF AnyPendingOK

LEMMA PlainIntroPackets ==
    ASSUME NEW m, m.type \in {"connect_challenge_response", "connect_request", "connect_accept",
                              "connect_reject", "disconnect"}
    PROVE  AnyPacketOK(m)
BY DEF AnyPacketOK

LEMMA AcceptChallengeIntro ==
    ASSUME IntroInv, UNCHANGED <<introductions, asked>>, NEW s \in Sockets, NEW p \in sock[s].pending,
           accept_connection_challenge(s, p)
    PROVE  IntroInv'
<1> DEFINE S == sock[s]
           q == [p EXCEPT !.state = "computing_puzzle_solution", !.state_send_retry_count = 0,
                          !.puzzle_request_index = S.requests]
           request == [index |-> S.requests,
                       solution |-> Solution(p.client_identity, p.initiator_nonce, p.host_nonce)]
<1>1. DOMAIN sock = Sockets /\ DOMAIN S = SocketFields /\ AnyPendingOK(s, p)
  BY IntroFacts
<1>2. /\ p.state = "awaiting_local_challenge_accept" /\ net' = net
      /\ sock' = [sock EXCEPT ![s] = [Replaced(S, p, q) EXCEPT !.requests = @ + 1,
                                                                !.solver = Append(@, request)]]
  BY DEF accept_connection_challenge
<1>3. p.type # "connection_host" /\ DOMAIN p = IntroFields
  BY <1>1, <1>2 DEF AnyPendingOK
<1>4. AnyPendingOK(s, q)
  <2>1. DOMAIN q = DOMAIN p /\ q.id = p.id /\ q.type = p.type /\ q.address = p.address
    BY <1>3 DEF IntroFields, PendingFields
  <2>2. /\ q.introducer = p.introducer /\ q.remote_client_id = p.remote_client_id
        /\ q.possible_addresses = p.possible_addresses
    BY <1>3 DEF IntroFields, PendingFields
  <2>3. q.state = "computing_puzzle_solution"
    BY <1>3 DEF IntroFields, PendingFields
  <2> HIDE DEF q
  <2> QED
    BY <1>1, <1>2, <1>3, <2>1, <2>2, <2>3, AttemptGoesOn DEF IntroductionStates
<1> HIDE DEF q, request
<1>5. StepOf(s)
  BY <1>1, <1>2 DEF StepOf
<1>6. sock'[s] = [Replaced(S, p, q) EXCEPT !.requests = @ + 1, !.solver = Append(@, request)]
  BY <1>1, <1>2
<1>7. SameBut(S, sock'[s], {"pending", "requests", "solver"})
      /\ sock'[s].pending = (S.pending \ {p}) \cup {q}
  BY <1>1, <1>6 DEF SameBut, Replaced, SocketFields
<1> QED
  BY <1>2, <1>4, <1>5, <1>7, QuietReplace

LEMMA AcceptConnectionIntro ==
    ASSUME IntroInv, UNCHANGED <<introductions, asked>>, NEW s \in Sockets, NEW p \in sock[s].pending,
           accept_connection(s, p)
    PROVE  IntroInv'
<1> DEFINE S == sock[s]
           c == [id |-> p.id, is_initiator |-> FALSE, address |-> p.address,
                 initiator_nonce |-> p.initiator_nonce, host_nonce |-> p.host_nonce,
                 initial_send_sequence |-> p.initial_send_sequence,
                 initial_recv_sequence |-> p.initial_recv_sequence,
                 shared_secret |-> p.shared_secret,
                 cipher |-> [key |-> p.symmetric_key, init_vector |-> p.init_vector]]
<1>1. /\ DOMAIN sock = Sockets /\ DOMAIN S = SocketFields /\ S.next_connection_index \in Nat
      /\ p.id \in Nat /\ p.id > Base(s)
  BY IntroFacts
<1>2. /\ sock' = [sock EXCEPT ![s] = _add_connection([S EXCEPT !.pending = @ \ {p}], c)]
      /\ net' = net \cup {_send_connect_accept(s, c)}
  BY DEF accept_connection
<1>3. c.id = p.id /\ AnyPacketOK(_send_connect_accept(s, c))
  BY PlainIntroPackets DEF _send_connect_accept, Packet
<1> HIDE DEF c
<1>4. StepOf(s)
  BY <1>1, <1>2 DEF StepOf
<1>5. sock'[s] = _add_connection([S EXCEPT !.pending = @ \ {p}], c)
  BY <1>1, <1>2
<1>6. /\ DOMAIN sock'[s] = SocketFields /\ sock'[s].epoch = S.epoch
      /\ sock'[s].next_connection_index = S.next_connection_index
      /\ sock'[s].pending = S.pending \ {p} /\ sock'[s].connections = S.connections \cup {c}
  BY <1>1, <1>5 DEF _add_connection, SocketFields
<1>7. sock'[s].next_connection_index \in Nat
      /\ sock'[s].next_connection_index >= sock[s].next_connection_index
  BY <1>1, <1>6
<1>8. \A x \in sock'[s].pending : x \in sock[s].pending \/ AnyPendingOK(s, x)
  BY <1>6
<1>9. \A x \in sock'[s].connections : x \in sock[s].connections \/ (x.id \in Nat /\ x.id > Base(s))
  BY <1>1, <1>3, <1>6
<1>10. \A m \in net' : m \in net \/ AnyPacketOK(m)
  BY <1>2, <1>3
<1>11. IdEntriesOK(sock'[s])
  BY <1>1, <1>5, IntroFacts, AddedEntries
<1> QED
  BY <1>4, <1>6, <1>7, <1>8, <1>9, <1>10, <1>11, QuietStep

LEMMA SweepPendingIntro ==
    ASSUME IntroInv, UNCHANGED <<introductions, asked>>, NEW s \in Sockets, NEW p \in sock[s].pending,
           p.state \notin IntroductionStates, SweepPending(s, p)
    PROVE  IntroInv'
<1> DEFINE S == sock[s]
           q == [p EXCEPT !.state_send_retry_count = @ - 1]
<1>1. DOMAIN sock = Sockets /\ DOMAIN S = SocketFields /\ AnyPendingOK(s, p)
  BY IntroFacts
<1>2. CASE sock' = [sock EXCEPT ![s].pending = @ \ {p}] /\ net' = net
  <2>1. StepOf(s) /\ sock'[s] = [S EXCEPT !.pending = @ \ {p}]
    BY <1>1, <1>2 DEF StepOf
  <2>2. SameBut(S, sock'[s], Lessened) /\ sock'[s].pending \subseteq S.pending
        /\ sock'[s].connections = S.connections /\ FewerIds(S, sock'[s])
    BY <1>1, <2>1 DEF SameBut, SocketFields, Lessened, FewerIds
  <2> QED
    BY <1>2, <2>1, <2>2, QuietLess
<1>3. CASE /\ sock' = [sock EXCEPT ![s] = Replaced(@, p, q)]
           /\ net' = net \cup {_send_challenge_request(s, q) :
                                    x \in {y \in {p} : y.state = "requesting_challenge_response"}}
  <2>1. DOMAIN p = DOMAIN q /\ q.id = p.id /\ q.type = p.type /\ q.address = p.address
        /\ q.state = p.state /\ q.initiator_nonce = p.initiator_nonce
    BY <1>1 DEF AnyPendingOK, IntroFields, PendingFields
  <2>2. p.type # "connection_host" =>
            /\ q.introducer = p.introducer /\ q.remote_client_id = p.remote_client_id
            /\ q.possible_addresses = p.possible_addresses
    BY <1>1 DEF AnyPendingOK, IntroFields, PendingFields
  <2> HIDE DEF q
  <2>3. AnyPendingOK(s, q)
    <3>1. CASE p.type = "connection_host"
      BY <1>1, <2>1, <3>1 DEF AnyPendingOK
    <3>2. CASE p.type # "connection_host"
      <4>1. Attempt(s, p)
        BY <1>1, <3>2 DEF AnyPendingOK
      <4>2. Attempt(s, q)
        BY <2>1, <2>2, <3>2, <4>1 DEF Attempt, IntroductionStates
      <4> QED
        BY <1>1, <2>1, <3>2, <4>2 DEF AnyPendingOK
    <3> QED
      BY <3>1, <3>2
  <2>4. StepOf(s) /\ sock'[s] = Replaced(S, p, q)
    BY <1>1, <1>3 DEF StepOf
  <2>5. SameBut(S, sock'[s], {"pending", "requests", "solver"})
        /\ sock'[s].pending = (S.pending \ {p}) \cup {q}
    BY <1>1, <2>4 DEF SameBut, Replaced, SocketFields
  <2>6. p.state = "requesting_challenge_response" => AnyPacketOK(_send_challenge_request(s, q))
    <3>1. p.state = "requesting_challenge_response" => NonceOK(q.initiator_nonce, s, q.address)
      BY <1>1, <2>1 DEF AnyPendingOK, Attempt
    <3> QED
      BY <3>1 DEF AnyPacketOK, _send_challenge_request, Packet
  <2>7. \A m \in net' : m \in net \/ AnyPacketOK(m)
    BY <1>3, <2>6
  <2> QED
    BY <2>3, <2>4, <2>5, <2>7, QuietReplace
<1> QED
  BY <1>2, <1>3 DEF SweepPending

LEMMA SetAllowsIntro ==
    ASSUME IntroInv, UNCHANGED <<introductions, asked>>, NEW s \in Sockets, NEW allow,
           set_allows_connections(s, allow)
    PROVE  IntroInv'
<1>1. DOMAIN sock = Sockets /\ DOMAIN sock[s] = SocketFields
  BY IntroFacts
<1>2. StepOf(s) /\ sock'[s] = [sock[s] EXCEPT !.allow_connections = allow] /\ net' = net
  BY <1>1 DEF set_allows_connections, StepOf
<1>3. SameBut(sock[s], sock'[s], Lessened) /\ FewerIds(sock[s], sock'[s])
      /\ sock'[s].pending = sock[s].pending /\ sock'[s].connections = sock[s].connections
  BY <1>1, <1>2 DEF SameBut, SocketFields, Lessened, FewerIds
<1> QED
  BY <1>2, <1>3, QuietLess

LEMMA UndefinedIntro ==
    ASSUME IntroInv, UNCHANGED <<introductions, asked>>, NEW s \in Sockets, Undefined(s)
    PROVE  IntroInv'
<1>1. DOMAIN sock = Sockets /\ DOMAIN sock[s] = SocketFields
  BY IntroFacts
<1>2. StepOf(s) /\ sock'[s] = [sock[s] EXCEPT !.status = "undefined"] /\ net' = net
  BY <1>1 DEF Undefined, StepOf
<1>3. SameBut(sock[s], sock'[s], Lessened) /\ FewerIds(sock[s], sock'[s])
      /\ sock'[s].pending = sock[s].pending /\ sock'[s].connections = sock[s].connections
  BY <1>1, <1>2 DEF SameBut, SocketFields, Lessened, FewerIds
<1> QED
  BY <1>2, <1>3, QuietLess

\* A connection is removed.
LEMMA RemoveIntro ==
    ASSUME IntroInv, UNCHANGED <<introductions, asked>>, NEW s \in Sockets, NEW c,
           NEW T \in _remove_connection(sock[s], c), sock' = [sock EXCEPT ![s] = T],
           \A m \in net' : m \in net \/ AnyPacketOK(m)
    PROVE  IntroInv'
<1>1. DOMAIN sock = Sockets /\ DOMAIN sock[s] = SocketFields
  BY IntroFacts
<1>2. StepOf(s) /\ sock'[s] = T
  BY <1>1 DEF StepOf
<1>3. /\ SameBut(sock[s], T, {"connections", "id_table", "address_table"})
      /\ T.connections \subseteq sock[s].connections /\ FewerIds(sock[s], T)
  BY <1>1, RemovedEntries
<1>4. SameBut(sock[s], T, Lessened) /\ T.pending = sock[s].pending
  BY <1>1, <1>3 DEF SameBut, SocketFields, Lessened
<1> QED
  BY <1>2, <1>3, <1>4, QuietLess

LEMMA ChallengeRequestIntro ==
    ASSUME IntroInv, UNCHANGED <<introductions, asked>>, NEW s \in Sockets, NEW m,
           _handle_connect_challenge_request(s, m)
    PROVE  IntroInv'
<1> DEFINE r == _send_connect_challenge_response(s, m.from, m.initiator_nonce)
<1>1. sock' = sock /\ net' = net \cup {r}
  BY DEF _handle_connect_challenge_request
<1>2. AnyPacketOK(r)
  BY PlainIntroPackets DEF _send_connect_challenge_response, Packet
<1> HIDE DEF r
<1>3. StepOf(s) /\ SameBut(sock[s], sock'[s], Lessened) /\ FewerIds(sock[s], sock'[s])
  BY <1>1, IntroFacts DEF StepOf, SameBut, FewerIds
<1> QED
  BY <1>1, <1>2, <1>3, QuietLess

LEMMA ChallengeResponseIntro ==
    ASSUME IntroInv, UNCHANGED <<introductions, asked>>, NEW s \in Sockets, NEW m,
           _handle_connect_challenge_response(s, m)
    PROVE  IntroInv'
<1> DEFINE S == sock[s]
           Q(p) == [p EXCEPT !.state = "awaiting_local_challenge_accept",
                             !.client_identity = m.body.identity, !.host_nonce = m.host_nonce,
                             !.shared_secret = compute_shared_secret_key(s, m.from),
                             !.symmetric_key = p.initiator_nonce, !.state_send_retry_count = 0]
<1>1. PICK p \in _find_pending_connection(S, m.from) :
        /\ p.state = "requesting_challenge_response"
        /\ sock' = [sock EXCEPT ![s] = Replaced(@, p, Q(p))]
  BY DEF _handle_connect_challenge_response
<1>2. net' = net
  BY DEF _handle_connect_challenge_response
<1>3. p \in S.pending
  BY DEF _find_pending_connection
<1>4. DOMAIN sock = Sockets /\ DOMAIN S = SocketFields /\ AnyPendingOK(s, p)
  BY <1>3, IntroFacts
<1>5. p.type # "connection_host" /\ DOMAIN p = IntroFields
  BY <1>1, <1>4 DEF AnyPendingOK
<1>6. /\ DOMAIN Q(p) = DOMAIN p /\ Q(p).id = p.id /\ Q(p).type = p.type /\ Q(p).address = p.address
      /\ Q(p).introducer = p.introducer /\ Q(p).remote_client_id = p.remote_client_id
      /\ Q(p).possible_addresses = p.possible_addresses
      /\ Q(p).state = "awaiting_local_challenge_accept"
  BY <1>5 DEF IntroFields, PendingFields
<1> HIDE DEF Q
<1>7. AnyPendingOK(s, Q(p))
  BY <1>1, <1>4, <1>5, <1>6, AttemptGoesOn DEF IntroductionStates
<1>8. StepOf(s) /\ sock'[s] = Replaced(S, p, Q(p))
  BY <1>1, <1>4 DEF StepOf
<1>9. SameBut(S, sock'[s], {"pending", "requests", "solver"})
      /\ sock'[s].pending = (S.pending \ {p}) \cup {Q(p)}
  BY <1>4, <1>8 DEF SameBut, Replaced, SocketFields
<1> QED
  BY <1>2, <1>7, <1>8, <1>9, QuietReplace

LEMMA AcceptAgainIntro ==
    ASSUME NEW s, NEW m, NEW existing
    PROVE  \A r \in AcceptAgain(s, m, existing) : AnyPacketOK(r)
<1>1. \A c : AnyPacketOK(_send_connect_accept(s, c))
  BY PlainIntroPackets DEF _send_connect_accept, Packet
<1> QED
  BY <1>1 DEF AcceptAgain

LEMMA TakeIntro ==
    ASSUME IntroInv, UNCHANGED <<introductions, asked>>, NEW s \in Sockets, NEW m,
           NEW existing, TakeConnectRequest(s, m, existing)
    PROVE  IntroInv'
<1> DEFINE S == sock[s]
           id == S.next_connection_index
           p == [id |-> id, type |-> "connection_host",
                 state |-> "awaiting_local_accept", address |-> m.from,
                 initiator_nonce |-> m.initiator_nonce, host_nonce |-> m.host_nonce,
                 initial_send_sequence |-> RandomSequence(s, id),
                 initial_recv_sequence |-> m.body.sequence,
                 shared_secret |-> compute_shared_secret_key(s, m.body.public_key),
                 symmetric_key |-> m.body.key, init_vector |-> RandomSequence(s, id),
                 client_identity |-> Unset, puzzle_solution |-> Unset, puzzle_request_index |-> 0,
                 puzzle_retried |-> FALSE, state_send_retry_count |-> 0, requests_sent |-> 0]
           sent == AcceptAgain(s, m, existing)
           T == [S EXCEPT !.puzzle_manager = AddNonce(@, m.initiator_nonce, m.host_nonce),
                          !.next_connection_index = id + 1, !.pending = @ \cup {p}]
<1>1. \/ sock' = [sock EXCEPT ![s] = T] /\ net' = net \cup sent
      \/ \E c \in existing : _disconnect(s, T, c.id, sent)
  BY DEF TakeConnectRequest, ReplaceExisting
<1>2. /\ DOMAIN sock = Sockets /\ DOMAIN S = SocketFields
      /\ S.next_connection_index \in Nat /\ S.next_connection_index > Base(s)
      /\ IdEntriesOK(S)
  BY IntroFacts
<1>3. AnyPendingOK(s, p)
  <2>1. p.id = id /\ p.type = "connection_host" /\ p.state = "awaiting_local_accept"
    OBVIOUS
  <2>2. DOMAIN p = PendingFields
    BY DEF PendingFields
  <2> HIDE DEF p
  <2> QED
    BY <1>2, <2>1, <2>2 DEF AnyPendingOK
<1>4. /\ DOMAIN T = SocketFields /\ T.epoch = S.epoch /\ T.next_connection_index = id + 1
      /\ T.pending = S.pending \cup {p} /\ T.connections = S.connections
      /\ T.id_table = S.id_table
  <2> HIDE DEF p, id
  <2> QED
    BY <1>2 DEF SocketFields
<1>5. \A x \in sent : AnyPacketOK(x)
  BY AcceptAgainIntro
<1>6. \A c : AnyPacketOK(DisconnectPacket(s, c))
  BY PlainIntroPackets DEF DisconnectPacket, Packet
<1> HIDE DEF T, p, sent
\* With what the socket is left with, whatever became of the connection.
<1>7. ASSUME NEW U, sock' = [sock EXCEPT ![s] = U], DOMAIN U = SocketFields, U.epoch = T.epoch,
             U.next_connection_index = T.next_connection_index, U.pending \subseteq T.pending,
             U.connections \subseteq T.connections, FewerIds(T, U),
             \A x \in net' : x \in net \/ AnyPacketOK(x)
      PROVE  IntroInv'
  <2>1. StepOf(s) /\ sock'[s] = U
    BY <1>2, <1>7 DEF StepOf
  <2>2. U.next_connection_index \in Nat /\ U.next_connection_index >= S.next_connection_index
    BY <1>2, <1>4, <1>7
  <2>3. \A x \in U.pending : x \in S.pending \/ AnyPendingOK(s, x)
    BY <1>3, <1>4, <1>7
  <2>4. IdEntriesOK(U)
    BY <1>2, <1>4, <1>7 DEF IdEntriesOK, FewerIds
  <2>5. U.connections \subseteq S.connections /\ U.epoch = S.epoch
    BY <1>4, <1>7
  <2> HIDE DEF id
  <2> QED
    BY <1>7, <2>1, <2>2, <2>3, <2>4, <2>5, QuietStep
<1>8. CASE sock' = [sock EXCEPT ![s] = T] /\ net' = net \cup sent
  BY <1>4, <1>5, <1>7, <1>8 DEF FewerIds
<1>9. ASSUME NEW c \in existing, _disconnect(s, T, c.id, sent) PROVE IntroInv'
  <2>1. ASSUME NEW d, NEW U \in _remove_connection(T, d), sock' = [sock EXCEPT ![s] = U],
               net' = net \cup sent \cup {DisconnectPacket(s, d)}
        PROVE  IntroInv'
    <3>1. /\ SameBut(T, U, {"connections", "id_table", "address_table"})
          /\ U.connections \subseteq T.connections /\ FewerIds(T, U)
      BY <1>4, RemovedEntries
    <3>2. /\ DOMAIN U = SocketFields /\ U.epoch = T.epoch
          /\ U.next_connection_index = T.next_connection_index /\ U.pending = T.pending
      BY <1>4, <3>1 DEF SameBut, SocketFields
    <3>3. \A x \in net' : x \in net \/ AnyPacketOK(x)
      BY <1>5, <1>6, <2>1
    <3> QED
      BY <1>7, <2>1, <3>1, <3>2, <3>3
  <2>2. CASE /\ sock' = [sock EXCEPT ![s] = [T EXCEPT !.pending = {q \in @ : q.id # c.id}]]
             /\ net' = net \cup sent
    <3> DEFINE U == [T EXCEPT !.pending = {q \in @ : q.id # c.id}]
    <3>1. /\ DOMAIN U = SocketFields /\ U.epoch = T.epoch
          /\ U.next_connection_index = T.next_connection_index /\ U.pending \subseteq T.pending
          /\ U.connections = T.connections /\ FewerIds(T, U)
      BY <1>4 DEF SocketFields, FewerIds
    <3>2. sock' = [sock EXCEPT ![s] = U]
      BY <2>2
    <3>3. \A x \in net' : x \in net \/ AnyPacketOK(x)
      BY <1>5, <2>2
    <3> HIDE DEF U
    <3> QED
      BY <1>7, <3>1, <3>2, <3>3
  <2>3. CASE Undefined(s)
    BY <2>3, UndefinedIntro
  <2> QED
    BY <1>9, <2>1, <2>2, <2>3 DEF _disconnect, CloseConnection
<1> QED
  BY <1>1, <1>8, <1>9

LEMMA ConnectRequestIntro ==
    ASSUME IntroInv, UNCHANGED <<introductions, asked>>, NEW s \in Sockets, NEW m,
           _handle_connect_request(s, m)
    PROVE  IntroInv'
<1>1. DOMAIN sock = Sockets /\ DOMAIN sock[s] = SocketFields
  BY IntroFacts
<1>2. AnyPacketOK(_send_connect_reject(s, m.from, m.initiator_nonce, m.host_nonce))
  BY PlainIntroPackets DEF _send_connect_reject, Packet
<1>3. ASSUME sock' = sock, \A x \in net' : x \in net \/ AnyPacketOK(x) PROVE IntroInv'
  <2>1. StepOf(s) /\ SameBut(sock[s], sock'[s], Lessened) /\ FewerIds(sock[s], sock'[s])
    BY <1>1, <1>3 DEF StepOf, SameBut, FewerIds
  <2> QED
    BY <1>3, <2>1, QuietLess
<1>4. PICK pointer \in _find_connection(sock[s], m.from) :
        \/ Undefined(s)
        \/ IgnoreConnectRequest(s, m, Pointed(sock[s], pointer))
        \/ RejectConnectRequest(s, m, Pointed(sock[s], pointer))
        \/ DropConnectRequest(s, m, Pointed(sock[s], pointer))
        \/ TakeConnectRequest(s, m, Pointed(sock[s], pointer))
  BY DEF _handle_connect_request
<1> DEFINE existing == Pointed(sock[s], pointer)
<1> HIDE DEF existing
<1>5. CASE IgnoreConnectRequest(s, m, existing)
  BY <1>3, <1>5, AcceptAgainIntro DEF IgnoreConnectRequest
<1>6. CASE RejectConnectRequest(s, m, existing)
  BY <1>2, <1>3, <1>6, AcceptAgainIntro DEF RejectConnectRequest
<1>7. CASE DropConnectRequest(s, m, existing)
  <2> DEFINE pm == AddNonce(sock[s].puzzle_manager, m.initiator_nonce, m.host_nonce)
  <2>1. sock' = [sock EXCEPT ![s].puzzle_manager = pm] /\ net' = net \cup AcceptAgain(s, m, existing)
    BY <1>1, <1>7 DEF DropConnectRequest
  <2> HIDE DEF pm
  <2>2. StepOf(s) /\ sock'[s] = [sock[s] EXCEPT !.puzzle_manager = pm]
    BY <1>1, <2>1 DEF StepOf
  <2>3. SameBut(sock[s], sock'[s], Lessened) /\ FewerIds(sock[s], sock'[s])
        /\ sock'[s].pending = sock[s].pending /\ sock'[s].connections = sock[s].connections
    BY <1>1, <2>2 DEF SameBut, SocketFields, Lessened, FewerIds
  <2>4. \A x \in net' : x \in net \/ AnyPacketOK(x)
    BY <2>1, AcceptAgainIntro
  <2> QED
    BY <2>2, <2>3, <2>4, QuietLess
<1>8. CASE TakeConnectRequest(s, m, existing)
  BY <1>8, TakeIntro
<1> QED
  BY <1>4, <1>5, <1>6, <1>7, <1>8, UndefinedIntro DEF existing

LEMMA AcceptIntro ==
    ASSUME IntroInv, UNCHANGED <<introductions, asked>>, NEW s \in Sockets, NEW m,
           _handle_connect_accept(s, m)
    PROVE  IntroInv'
<1> DEFINE S == sock[s]
           C(p) == [id |-> p.id, is_initiator |-> TRUE, address |-> p.address,
                    initiator_nonce |-> p.initiator_nonce, host_nonce |-> p.host_nonce,
                    initial_send_sequence |-> p.initial_send_sequence,
                    initial_recv_sequence |-> m.body.sequence,
                    shared_secret |-> p.shared_secret,
                    cipher |-> [key |-> Unset, init_vector |-> Unset]]
<1>1. PICK p \in _find_pending_connection(S, m.from) :
        sock' = [sock EXCEPT ![s] = _add_connection([S EXCEPT !.pending = @ \ {p}], C(p))]
  BY DEF _handle_connect_accept
<1>2. net' = net
  BY DEF _handle_connect_accept
<1>3. p \in S.pending
  BY DEF _find_pending_connection
<1>4. /\ DOMAIN sock = Sockets /\ DOMAIN S = SocketFields /\ S.next_connection_index \in Nat
      /\ p.id \in Nat /\ p.id > Base(s)
  BY <1>3, IntroFacts
<1>5. C(p).id = p.id
  OBVIOUS
<1> HIDE DEF C
<1>6. StepOf(s) /\ sock'[s] = _add_connection([S EXCEPT !.pending = @ \ {p}], C(p))
  BY <1>1, <1>4 DEF StepOf
<1>7. /\ DOMAIN sock'[s] = SocketFields /\ sock'[s].epoch = S.epoch
      /\ sock'[s].next_connection_index = S.next_connection_index
      /\ sock'[s].pending = S.pending \ {p} /\ sock'[s].connections = S.connections \cup {C(p)}
  BY <1>4, <1>6 DEF _add_connection, SocketFields
<1>8. sock'[s].next_connection_index \in Nat
      /\ sock'[s].next_connection_index >= sock[s].next_connection_index
  BY <1>4, <1>7
<1>9. \A x \in sock'[s].pending : x \in sock[s].pending \/ AnyPendingOK(s, x)
  BY <1>7
<1>10. \A x \in sock'[s].connections : x \in sock[s].connections \/ (x.id \in Nat /\ x.id > Base(s))
  BY <1>4, <1>5, <1>7
<1>11. IdEntriesOK(sock'[s])
  BY <1>4, <1>6, IntroFacts, AddedEntries
<1> QED
  BY <1>2, <1>6, <1>7, <1>8, <1>9, <1>10, <1>11, QuietStep

\* The nonce of a second attempt is not an introduction's.
LEMMA OwnNonce ==
    ASSUME NEW s, NEW id, NEW n, NEW t, NEW u
    PROVE  NonceOK(InitiatorNonce(s, id, n), t, u)
BY DEF NonceOK, InitiatorNonce, IntroductionNonce

LEMMA RejectIntro ==
    ASSUME IntroInv, UNCHANGED <<introductions, asked>>, NEW s \in Sockets, NEW m,
           _handle_connect_reject(s, m)
    PROVE  IntroInv'
<1> DEFINE S == sock[s]
           Q(p) == [p EXCEPT !.puzzle_retried = TRUE, !.state = "requesting_challenge_response",
                             !.state_send_retry_count = ChallengeRetryCount,
                             !.initiator_nonce = InitiatorNonce(s, p.id, 1)]
<1>1. PICK p \in _find_pending_connection(S, m.from) :
        /\ p.state \in {"requesting_challenge_response", "requesting_connection"}
        /\ \/ /\ sock' = [sock EXCEPT ![s] = Replaced(@, p, Q(p))]
              /\ net' = net \cup {_send_challenge_request(s, Q(p))}
           \/ sock' = [sock EXCEPT ![s].pending = @ \ {p}] /\ net' = net
  BY DEF _handle_connect_reject
<1>2. p \in S.pending
  BY DEF _find_pending_connection
<1>3. DOMAIN sock = Sockets /\ DOMAIN S = SocketFields /\ AnyPendingOK(s, p)
  BY <1>2, IntroFacts
<1>4. p.type # "connection_host" /\ DOMAIN p = IntroFields
  BY <1>1, <1>3 DEF AnyPendingOK
<1>5. CASE /\ sock' = [sock EXCEPT ![s] = Replaced(@, p, Q(p))]
           /\ net' = net \cup {_send_challenge_request(s, Q(p))}
  <2>1. /\ DOMAIN Q(p) = DOMAIN p /\ Q(p).id = p.id /\ Q(p).type = p.type /\ Q(p).address = p.address
        /\ Q(p).introducer = p.introducer /\ Q(p).remote_client_id = p.remote_client_id
        /\ Q(p).possible_addresses = p.possible_addresses
        /\ Q(p).state = "requesting_challenge_response"
        /\ Q(p).initiator_nonce = InitiatorNonce(s, p.id, 1)
    BY <1>4 DEF IntroFields, PendingFields
  <2> HIDE DEF Q
  <2>2. NonceOK(Q(p).initiator_nonce, s, Q(p).address)
    BY <2>1, OwnNonce
  <2>3. AnyPendingOK(s, Q(p))
    BY <1>1, <1>3, <1>4, <2>1, <2>2, AttemptGoesOn DEF IntroductionStates
  <2>4. AnyPacketOK(_send_challenge_request(s, Q(p)))
    BY <2>2 DEF AnyPacketOK, _send_challenge_request, Packet
  <2>5. StepOf(s) /\ sock'[s] = Replaced(S, p, Q(p))
    BY <1>3, <1>5 DEF StepOf
  <2>6. SameBut(S, sock'[s], {"pending", "requests", "solver"})
        /\ sock'[s].pending = (S.pending \ {p}) \cup {Q(p)}
    BY <1>3, <2>5 DEF SameBut, Replaced, SocketFields
  <2>7. \A x \in net' : x \in net \/ AnyPacketOK(x)
    BY <1>5, <2>4
  <2> QED
    BY <2>3, <2>5, <2>6, <2>7, QuietReplace
<1>6. CASE sock' = [sock EXCEPT ![s].pending = @ \ {p}] /\ net' = net
  <2>1. StepOf(s) /\ sock'[s] = [S EXCEPT !.pending = @ \ {p}]
    BY <1>3, <1>6 DEF StepOf
  <2>2. SameBut(S, sock'[s], Lessened) /\ FewerIds(S, sock'[s])
        /\ sock'[s].pending \subseteq S.pending /\ sock'[s].connections = S.connections
    BY <1>3, <2>1 DEF SameBut, SocketFields, Lessened, FewerIds
  <2> QED
    BY <1>6, <2>1, <2>2, QuietLess
<1> QED
  BY <1>1, <1>5, <1>6

LEMMA DisconnectIntro ==
    ASSUME IntroInv, UNCHANGED <<introductions, asked>>, NEW s \in Sockets, NEW m,
           _handle_disconnect(s, m)
    PROVE  IntroInv'
<1>1. CASE Undefined(s)
  BY <1>1, UndefinedIntro
<1>2. CASE \E c \in sock[s].connections : \E T \in _remove_connection(sock[s], c) :
            sock' = [sock EXCEPT ![s] = T] /\ net' = net
  BY <1>2, RemoveIntro
<1> QED
  BY <1>1, <1>2 DEF _handle_disconnect, Pointed

LEMMA PuzzleResultIntro ==
    ASSUME IntroInv, UNCHANGED <<introductions, asked>>, NEW s \in Sockets, PuzzleResult(s)
    PROVE  IntroInv'
<1> DEFINE S == sock[s]
           result == Head(S.solver)
           T == [S EXCEPT !.solver = Tail(@)]
           waiting == {p \in S.pending : /\ p.state = "computing_puzzle_solution"
                                         /\ p.puzzle_request_index = result.index}
           Solved(p) == [p EXCEPT !.state = "requesting_connection", !.requests_sent = @ + 1,
                                  !.puzzle_solution = result.solution]
<1>1. /\ \/ sock' = [sock EXCEPT ![s] = T]
         \/ \E p \in waiting : sock' = [sock EXCEPT ![s] = Replaced(T, p, Solved(p))]
      /\ net' = net \cup {_send_connect_request(s, Solved(p)) : p \in waiting}
  BY DEF PuzzleResult
<1>2. DOMAIN sock = Sockets /\ DOMAIN S = SocketFields
  BY IntroFacts
<1>3. \A x \in net' : x \in net \/ AnyPacketOK(x)
  <2>1. \A q : AnyPacketOK(_send_connect_request(s, q))
    BY PlainIntroPackets DEF _send_connect_request, Packet
  <2> HIDE DEF Solved, waiting
  <2> QED
    BY <1>1, <2>1
<1>4. DOMAIN T = SocketFields /\ SameBut(S, T, {"solver"}) /\ T.pending = S.pending
      /\ T.connections = S.connections /\ T.id_table = S.id_table
  BY <1>2 DEF SameBut, SocketFields
<1>5. CASE sock' = [sock EXCEPT ![s] = T]
  <2> HIDE DEF T
  <2>1. StepOf(s) /\ sock'[s] = T
    BY <1>2, <1>5 DEF StepOf
  <2>2. SameBut(S, T, Lessened) /\ FewerIds(S, T)
    BY <1>4 DEF SameBut, Lessened, FewerIds
  <2> QED
    BY <1>3, <1>4, <2>1, <2>2, QuietLess
<1>6. ASSUME NEW p \in waiting, sock' = [sock EXCEPT ![s] = Replaced(T, p, Solved(p))]
      PROVE  IntroInv'
  <2>1. p \in S.pending /\ p.state = "computing_puzzle_solution"
    OBVIOUS
  <2>2. AnyPendingOK(s, p)
    BY <2>1, IntroFacts
  <2>3. p.type # "connection_host" /\ DOMAIN p = IntroFields
    BY <2>1, <2>2 DEF AnyPendingOK
  <2>4. /\ DOMAIN Solved(p) = DOMAIN p /\ Solved(p).id = p.id /\ Solved(p).type = p.type
        /\ Solved(p).address = p.address /\ Solved(p).state = "requesting_connection"
        /\ Solved(p).introducer = p.introducer /\ Solved(p).remote_client_id = p.remote_client_id
        /\ Solved(p).possible_addresses = p.possible_addresses
    BY <2>3 DEF IntroFields, PendingFields
  <2> HIDE DEF Solved, T, waiting
  <2>5. AnyPendingOK(s, Solved(p))
    BY <2>1, <2>2, <2>3, <2>4, AttemptGoesOn DEF IntroductionStates
  <2>6. StepOf(s) /\ sock'[s] = Replaced(T, p, Solved(p))
    BY <1>2, <1>6 DEF StepOf
  <2>7. SameBut(S, sock'[s], {"pending", "requests", "solver"})
        /\ sock'[s].pending = (S.pending \ {p}) \cup {Solved(p)}
    BY <1>4, <2>6 DEF SameBut, Replaced, SocketFields
  <2> QED
    BY <1>3, <2>5, <2>6, <2>7, QuietReplace
<1> HIDE DEF T, Solved, waiting
<1> QED
  BY <1>1, <1>5, <1>6

LEMMA HandshakeIntro ==
    ASSUME IntroInv, HandshakeStep
    PROVE  IntroInv'
<1>1. UNCHANGED <<introductions, asked>>
  BY DEF HandshakeStep
<1>2. PICK s \in Sockets :
        \/ \E p \in sock[s].pending :
            \/ accept_connection_challenge(s, p)
            \/ accept_connection(s, p)
            \/ p.state \notin IntroductionStates /\ SweepPending(s, p)
        \/ \E allow \in BOOLEAN : set_allows_connections(s, allow)
        \/ \E m \in net : Deliver(s, m)
        \/ \E c \in sock[s].connections : SweepConnection(s, c)
        \/ PuzzleResult(s)
  BY DEF HandshakeStep
<1>3. CASE \E p \in sock[s].pending :
            \/ accept_connection_challenge(s, p)
            \/ accept_connection(s, p)
            \/ p.state \notin IntroductionStates /\ SweepPending(s, p)
  BY <1>1, <1>3, AcceptChallengeIntro, AcceptConnectionIntro, SweepPendingIntro
<1>4. CASE \E allow \in BOOLEAN : set_allows_connections(s, allow)
  BY <1>1, <1>4, SetAllowsIntro
<1>5. CASE \E m \in net : Deliver(s, m)
  BY <1>1, <1>5, ChallengeRequestIntro, ChallengeResponseIntro, ConnectRequestIntro, AcceptIntro,
     RejectIntro, DisconnectIntro DEF Deliver
<1>6. CASE \E c \in sock[s].connections : SweepConnection(s, c)
  BY <1>1, <1>6, RemoveIntro DEF SweepConnection
<1>7. CASE PuzzleResult(s)
  BY <1>1, <1>7, PuzzleResultIntro
<1> QED
  BY <1>2, <1>3, <1>4, <1>5, <1>6, <1>7
-----------------------------------------------------------------------------
(* The introducer. *)

LEMMA RecordGrows ==
    ASSUME Grows, NEW i, NEW r, RecordOK(i, r)
    PROVE  RecordOK(i, r)'
<1>1. IntroductionNonce(i, 1)' = IntroductionNonce(i, 1) /\ IntroductionNonce(i, 2)' = IntroductionNonce(i, 2)
  BY DEF Grows, IntroductionNonce
<1>2. PICK a \in Clients, b \in Clients :
        /\ r.initiator = ConnectionId[a] /\ r.host = ConnectionId[b]
        /\ r.initiator_request_received => AskedFor(a, b, "introduced_connection_initiator")
        /\ r.host_request_received => AskedFor(b, a, "introduced_connection_host")
  BY DEF RecordOK
<1>3. /\ r.initiator_request_received => AskedFor(a, b, "introduced_connection_initiator")'
      /\ r.host_request_received => AskedFor(b, a, "introduced_connection_host")'
  BY <1>2, AskedGrows
<1> QED
  BY <1>1, <1>2, <1>3 DEF RecordOK

LEMMA RecordTypeKept ==
    ASSUME sock'[Introducer].epoch = sock[Introducer].epoch
    PROVE  RecordType' = RecordType
<1>1. IntroductionNonces(1)' = IntroductionNonces(1) /\ IntroductionNonces(2)' = IntroductionNonces(2)
  BY DEF IntroductionNonces
<1> QED
  BY <1>1 DEF RecordType

\* A step of the introducer changes its records and sends packets.
LEMMA RecordsStep ==
    ASSUME IntroInv, sock' = sock, asked' = asked, Grows, introductions' \in Seq(RecordType),
           \A i \in DOMAIN introductions' : RecordOK(i, introductions'[i]),
           \A m \in net' : m \in net \/ AnyPacketOK(m)'
    PROVE  IntroInv'
<1>1. RecordsInv'
  <2>1. ASSUME NEW i \in DOMAIN introductions' PROVE RecordOK(i, introductions[i])'
    <3>1. PICK r : r = introductions'[i]
      OBVIOUS
    <3>2. RecordOK(i, r)'
      BY <3>1, RecordGrows
    <3> QED
      BY <3>1, <3>2 DEF RecordOK
  <2>2. asked' \subseteq Asks
    BY DEF IntroInv, RecordsInv
  <2> QED
    BY <2>1, <2>2, RecordTypeKept DEF RecordsInv
<1>2. SocketsInv'
  <2>1. \A t \in Sockets : \A p \in sock[t].pending : AnyPendingOK(t, p)'
    BY PendingGrows DEF IntroInv, SocketsInv
  <2> QED
    BY <2>1 DEF IntroInv, SocketsInv
<1> QED
  BY <1>1, <1>2, PacketsStep DEF IntroInv

LEMMA IntroduceIntro ==
    ASSUME IntroInv, NEW a \in Clients, NEW b \in Clients, introduce_connection(a, b)
    PROVE  IntroInv'
<1> DEFINE n == Len(introductions) + 1
           r == [initiator_nonce |-> IntroductionNonce(n, 1), host_nonce |-> IntroductionNonce(n, 2),
                 initiator |-> ConnectionId[a], host |-> ConnectionId[b],
                 initiator_request_received |-> FALSE, host_request_received |-> FALSE]
<1>1. introductions' = Append(introductions, r) /\ UNCHANGED <<sock, net, asked>>
  BY DEF introduce_connection
<1>2. introductions \in Seq(RecordType) /\ n \in Nat
  BY DEF IntroInv, RecordsInv
<1>3. r \in RecordType
  <2>1. IntroductionNonce(n, 1) \in IntroductionNonces(1) /\ IntroductionNonce(n, 2) \in IntroductionNonces(2)
    BY <1>2 DEF IntroductionNonce, IntroductionNonces
  <2>2. ConnectionId[a] \in Nat /\ ConnectionId[b] \in Nat
    BY IdRange
  <2> HIDE DEF n
  <2> QED
    BY <2>1, <2>2 DEF RecordType
<1>4. RecordOK(n, r)
  BY DEF RecordOK
<1> HIDE DEF r
<1>5. /\ introductions' \in Seq(RecordType) /\ DOMAIN introductions' = DOMAIN introductions \cup {n}
      /\ introductions'[n] = r /\ \A i \in DOMAIN introductions : introductions'[i] = introductions[i]
  BY <1>1, <1>2, <1>3
<1> HIDE DEF n
<1>6. Grows
  BY <1>1, <1>5 DEF Grows, SameNonces
<1>7. \A i \in DOMAIN introductions' : RecordOK(i, introductions'[i])
  BY <1>4, <1>5 DEF IntroInv, RecordsInv
<1> QED
  BY <1>1, <1>5, <1>6, <1>7, RecordsStep

\* Both ends of an introduction that is sent are those of the record.
LEMMA IntroductionSent ==
    ASSUME SocketsInv, NEW i, NEW r, NEW a \in Clients, NEW b \in Clients, NEW x, NEW y,
           i \in DOMAIN introductions', introductions'[i] = r, BothReceived(r),
           r.initiator = ConnectionId[a], r.host = ConnectionId[b],
           \/ x = a /\ y = b
           \/ x = b /\ y = a,
           NEW px \in _find_connection_by_id(sock[Introducer], ConnectionId[x]),
           NEW py \in _find_connection_by_id(sock[Introducer], ConnectionId[y]),
           NEW m \in _send_introduction(Introducer, px, py, r)
    PROVE  AnyPacketOK(m)'
<1>1. PICK c \in Pointed(sock[Introducer], px), d \in Pointed(sock[Introducer], py) :
        m = Packet("connection_introduction", Introducer, c.address, c.initiator_nonce, Unset,
                   [remote_id |-> d.id, remote_address |-> d.address,
                    initiator_nonce |-> r.initiator_nonce, host_nonce |-> r.host_nonce])
  BY DEF _send_introduction
<1>2. x \in Clients /\ y \in Clients /\ Introducer \in Sockets
  BY IntroductionAssumption
<1>3. c.address = x
  <2>0. ConnectionId[x] \in Nat /\ ConnectionId[x] <= Base(Introducer)
    BY <1>2, IdRange
  <2>1. c \in Connected(Introducer, Introducer).connections /\ c.id = ConnectionId[x]
    BY <1>2, <2>0, OldById
  <2>2. PICK t \in Clients : c.id = ConnectionId[t] /\ c.address = t
    BY <2>1, IntroducerEnd
  <2> QED
    BY <1>2, <2>1, <2>2, ConnectionIds
<1>4. d.address = y /\ d.id = ConnectionId[y]
  <2>0. ConnectionId[y] \in Nat /\ ConnectionId[y] <= Base(Introducer)
    BY <1>2, IdRange
  <2>1. d \in Connected(Introducer, Introducer).connections /\ d.id = ConnectionId[y]
    BY <1>2, <2>0, OldById
  <2>2. PICK t \in Clients : d.id = ConnectionId[t] /\ d.address = t
    BY <2>1, IntroducerEnd
  <2>3. t = y
    BY <1>2, <2>1, <2>2, ConnectionIds
  <2> QED
    BY <2>1, <2>2, <2>3
<1>5. /\ m.type = "connection_introduction" /\ m.to = x /\ m.body.remote_address = y
      /\ m.body.remote_id = ConnectionId[y]
      /\ m.body.initiator_nonce = r.initiator_nonce /\ m.body.host_nonce = r.host_nonce
  BY <1>1, <1>3, <1>4 DEF Packet
<1>6. Between(i, x, y)'
  BY <1>2 DEF Between, Pair
<1>7. SameNonces(m.body, introductions'[i])
  BY <1>5 DEF SameNonces
<1> QED
  BY <1>5, <1>6, <1>7 DEF AnyPacketOK, SameNonces

\* The request of a connection that has the packet's nonce.
LEMMA RequestedIntro ==
    ASSUME IntroInv, UNCHANGED asked, NEW s, s = Introducer, NEW m \in net,
           m.type = "introduced_connection_request", NEW c \in sock[s].connections,
           c.initiator_nonce = m.initiator_nonce, NEW I, NEW H,
           m.body.is_initiator => I = c.id /\ H = m.body.remote_id,
           ~m.body.is_initiator => I = m.body.remote_id /\ H = c.id,
           IntroductionRequested(s, m, I, H)
    PROVE  IntroInv'
<1> DEFINE Matches(r) == r.initiator = I /\ r.host = H
           Mark(r) == Marked(r, m)
           matching == {i \in DOMAIN introductions : Matches(introductions[i])}
           complete == {r \in {Mark(introductions[i]) : i \in matching} : BothReceived(r)}
<1>1. s \in Sockets
  BY IntroductionAssumption
<1>2. CASE Undefined(s) /\ UNCHANGED introductions
  BY <1>1, <1>2, UndefinedIntro
<1>3. ASSUME NEW pi \in _find_connection_by_id(sock[s], I), NEW ph \in _find_connection_by_id(sock[s], H),
             introductions' = [i \in DOMAIN introductions |->
                                IF i \in matching THEN Mark(introductions[i]) ELSE introductions[i]],
             net' = net \cup UNION {_send_introduction(s, pi, ph, r) \cup _send_introduction(s, ph, pi, r) :
                                    r \in complete},
             sock' = sock
      PROVE  IntroInv'
  <2>3. PICK t \in Clients :
          /\ m.initiator_nonce = <<m.from, 0, 1, 0>> /\ m.body.is_initiator \in BOOLEAN
          /\ m.body.remote_id = ConnectionId[t]
          /\ IF m.body.is_initiator THEN AskedFor(m.from, t, "introduced_connection_initiator")
             ELSE AskedFor(m.from, t, "introduced_connection_host")
    BY DEF IntroInv, AnyPacketOK
  <2>4. SocketsInv /\ RecordsInv
    BY DEF IntroInv
  <2>5. \/ c.id = ConnectionId[m.from] /\ m.from \in Clients
        \/ c.id \in Nat /\ c.id > Base(Introducer)
    <3>1. c \in sock[Introducer].connections
      OBVIOUS
    <3>2. OldOrNew(Introducer, c)
      BY <2>4, <3>1, IntroductionAssumption DEF SocketsInv
    <3>3. CASE c \in Connected(Introducer, Introducer).connections
      <4>1. PICK u \in Clients : c.id = ConnectionId[u] /\ c.initiator_nonce = <<u, 0, 1, 0>>
        BY <3>3, IntroducerEnd
      <4>2. u = m.from
        BY <2>3, <4>1
      <4> QED
        BY <4>1, <4>2
    <3> QED
      BY <3>2, <3>3 DEF OldOrNew
  <2>6. ASSUME NEW i \in DOMAIN introductions
        PROVE  /\ introductions[i] \in RecordType /\ RecordOK(i, introductions[i])
               /\ \E a, b \in Clients : introductions[i].initiator = ConnectionId[a]
                                         /\ introductions[i].host = ConnectionId[b]
    <3>1. introductions[i] \in RecordType
      BY <2>4 DEF RecordsInv
    <3>2. RecordOK(i, introductions[i])
      BY <2>4 DEF RecordsInv
    <3> QED
      BY <3>1, <3>2 DEF RecordOK
  \* A record that matches is marked with what was asked for.
  <2>7. ASSUME NEW i \in DOMAIN introductions, Matches(introductions[i])
        PROVE  /\ Mark(introductions[i]) \in RecordType /\ RecordOK(i, Mark(introductions[i]))
               /\ Mark(introductions[i]).initiator = introductions[i].initiator
               /\ Mark(introductions[i]).host = introductions[i].host
               /\ SameNonces(Mark(introductions[i]), introductions[i])
               /\ BothReceived(introductions[i]) => BothReceived(Mark(introductions[i]))
    <3> DEFINE r == introductions[i]
               q == Mark(r)
    <3>1. r \in RecordType /\ RecordOK(i, r)
      BY <2>6
    <3>2. PICK a \in Clients, b \in Clients :
              /\ r.initiator = ConnectionId[a] /\ r.host = ConnectionId[b]
              /\ r.initiator_request_received => AskedFor(a, b, "introduced_connection_initiator")
              /\ r.host_request_received => AskedFor(b, a, "introduced_connection_host")
      BY <3>1 DEF RecordOK
    <3>3. c.id = ConnectionId[m.from] /\ m.from \in Clients
      <4>1. r.initiator = c.id \/ r.host = c.id
        BY <2>7
      <4>2. /\ ConnectionId[a] <= Base(Introducer) /\ ConnectionId[b] <= Base(Introducer)
            /\ ConnectionId[a] \in Nat /\ ConnectionId[b] \in Nat /\ Base(Introducer) \in Nat
        BY IdRange
      <4> QED
        BY <2>5, <3>2, <4>1, <4>2
    <3>4. CASE m.body.is_initiator
      <4>1. q = [r EXCEPT !.initiator_request_received = TRUE]
        BY <3>4 DEF Marked
      <4>2. a = m.from /\ b = t
        <5>1. ConnectionId[a] = ConnectionId[m.from] /\ ConnectionId[b] = ConnectionId[t]
          BY <2>3, <2>7, <3>2, <3>3, <3>4
        <5> QED
          BY <3>3, <5>1, ConnectionIds
      <4>3. AskedFor(a, b, "introduced_connection_initiator")
        BY <2>3, <3>4, <4>2
      <4>4. /\ q \in RecordType /\ q.initiator = r.initiator /\ q.host = r.host
            /\ q.initiator_nonce = r.initiator_nonce /\ q.host_nonce = r.host_nonce
            /\ q.initiator_request_received = TRUE
            /\ q.host_request_received = r.host_request_received
        <5> HIDE DEF q, r
        <5> QED
          BY <3>1, <4>1 DEF RecordType
      <4> HIDE DEF q, r
      <4>5. RecordOK(i, q)
        BY <3>1, <3>2, <4>3, <4>4 DEF RecordOK
      <4>6. SameNonces(q, r) /\ (BothReceived(r) => BothReceived(q))
        BY <4>4 DEF SameNonces, BothReceived
      <4>7. q \in RecordType /\ q.initiator = r.initiator /\ q.host = r.host
        BY <4>4
      <4> QED
        BY <4>5, <4>6, <4>7 DEF q, r
    <3>5. CASE ~m.body.is_initiator
      <4>1. q = [r EXCEPT !.host_request_received = TRUE]
        BY <3>5 DEF Marked
      <4>2. b = m.from /\ a = t
        <5>1. ConnectionId[b] = ConnectionId[m.from] /\ ConnectionId[a] = ConnectionId[t]
          BY <2>3, <2>7, <3>2, <3>3, <3>5
        <5> QED
          BY <3>3, <5>1, ConnectionIds
      <4>3. AskedFor(b, a, "introduced_connection_host")
        BY <2>3, <3>5, <4>2
      <4>4. /\ q \in RecordType /\ q.initiator = r.initiator /\ q.host = r.host
            /\ q.initiator_nonce = r.initiator_nonce /\ q.host_nonce = r.host_nonce
            /\ q.host_request_received = TRUE
            /\ q.initiator_request_received = r.initiator_request_received
        <5> HIDE DEF q, r
        <5> QED
          BY <3>1, <4>1 DEF RecordType
      <4> HIDE DEF q, r
      <4>5. RecordOK(i, q)
        BY <3>1, <3>2, <4>3, <4>4 DEF RecordOK
      <4>6. SameNonces(q, r) /\ (BothReceived(r) => BothReceived(q))
        BY <4>4 DEF SameNonces, BothReceived
      <4>7. q \in RecordType /\ q.initiator = r.initiator /\ q.host = r.host
        BY <4>4
      <4> QED
        BY <4>5, <4>6, <4>7 DEF q, r
    <3> QED
      BY <3>4, <3>5
  <2> HIDE DEF Matches, Mark
  <2>8. /\ DOMAIN introductions' = DOMAIN introductions
        /\ \A i \in DOMAIN introductions :
              introductions'[i] = IF Matches(introductions[i]) THEN Mark(introductions[i])
                                  ELSE introductions[i]
    BY <1>3
  <2>9. Grows
    BY <1>3, <2>7, <2>8 DEF Grows, SameNonces
  <2>10. \A i \in DOMAIN introductions' :
           introductions'[i] \in RecordType /\ RecordOK(i, introductions'[i])
    BY <2>6, <2>7, <2>8
  <2>11. introductions' \in Seq(RecordType)
    <3>1. introductions \in Seq(RecordType)
      BY <2>4 DEF RecordsInv
    <3>2. Len(introductions) \in Nat /\ DOMAIN introductions = 1 .. Len(introductions)
      BY <3>1
    <3> DEFINE n == Len(introductions)
               e(i) == IF Matches(introductions[i]) THEN Mark(introductions[i]) ELSE introductions[i]
    <3>3. introductions' = [i \in 1 .. n |-> e(i)]
      BY <1>3, <3>2
    <3>4. n \in Nat /\ \A i \in 1 .. n : e(i) \in RecordType
      BY <2>6, <2>7, <3>2
    <3> HIDE DEF n, e
    <3> QED
      BY <3>3, <3>4, IsASeq
  <2>12. \A x \in net' : x \in net \/ AnyPacketOK(x)'
    <3> SUFFICES ASSUME NEW x \in net', x \notin net PROVE AnyPacketOK(x)'
      OBVIOUS
    <3>1. PICK r \in complete : x \in _send_introduction(s, pi, ph, r) \cup _send_introduction(s, ph, pi, r)
      <4> HIDE DEF complete
      <4> QED
        BY <1>3
    <3>2. PICK i \in DOMAIN introductions : Matches(introductions[i]) /\ r = Mark(introductions[i])
      OBVIOUS
    <3>3. i \in DOMAIN introductions' /\ introductions'[i] = r /\ BothReceived(r)
      BY <2>8, <3>2
    <3>4. PICK a \in Clients, b \in Clients : r.initiator = ConnectionId[a] /\ r.host = ConnectionId[b]
      BY <2>6, <2>7, <3>2
    <3>5. I = ConnectionId[a] /\ H = ConnectionId[b]
      <4>1. introductions[i].initiator = I /\ introductions[i].host = H
        BY <3>2 DEF Matches
      <4> QED
        BY <2>7, <3>2, <3>4, <4>1
    <3>6. /\ pi \in _find_connection_by_id(sock[Introducer], ConnectionId[a])
          /\ ph \in _find_connection_by_id(sock[Introducer], ConnectionId[b])
      BY <3>5
    <3> HIDE DEF complete
    <3>7. CASE x \in _send_introduction(Introducer, pi, ph, r)
      BY <2>4, <3>3, <3>4, <3>6, <3>7, IntroductionSent
    <3>8. CASE x \in _send_introduction(Introducer, ph, pi, r)
      BY <2>4, <3>3, <3>4, <3>6, <3>8, IntroductionSent
    <3> QED
      BY <3>1, <3>7, <3>8
  <2>13. \A i \in DOMAIN introductions' : RecordOK(i, introductions'[i])
    BY <2>10
  <2> QED
    BY <1>3, <2>9, <2>11, <2>12, <2>13, RecordsStep
<1> QED
  BY <1>2, <1>3 DEF IntroductionRequested

LEMMA HandleRequestIntro ==
    ASSUME IntroInv, NEW s \in Sockets, NEW m \in net, _handle_introduction_request(s, m)
    PROVE  IntroInv'
<1>1. m.type = "introduced_connection_request" /\ s = Introducer /\ UNCHANGED asked
  BY DEF _handle_introduction_request, Receives
<1>2. CASE Undefined(s) /\ UNCHANGED introductions
  BY <1>1, <1>2, UndefinedIntro
<1>3. ASSUME NEW c \in sock[s].connections, c.initiator_nonce = m.initiator_nonce, NEW I, NEW H,
             m.body.is_initiator => I = c.id /\ H = m.body.remote_id,
             ~m.body.is_initiator => I = m.body.remote_id /\ H = c.id,
             IntroductionRequested(s, m, I, H)
      PROVE  IntroInv'
  BY <1>1, <1>3, RequestedIntro
<1> QED
  BY <1>2, <1>3 DEF _handle_introduction_request, Pointed
-----------------------------------------------------------------------------
(* The two that are introduced. *)

\* A request for an introduction has the nonce of the connection to the introducer, and
\* its application asked for it.
LEMMA RequestSent ==
    ASSUME SocketsInv, NEW s \in Clients, NEW p, p.introducer = 1, NEW t \in Clients,
           p.remote_client_id = ConnectionId[t], p.type \in IntroducedTypes, AskedFor(s, t, p.type)',
           NEW pointer \in _find_connection_by_id(sock[s], 1),
           NEW m \in _send_introduction_request(s, p, pointer)
    PROVE  AnyPacketOK(m)'
<1>1. PICK c \in Pointed(sock[s], pointer) :
        m = Packet("introduced_connection_request", s, c.address, c.initiator_nonce, Unset,
                   [remote_id |-> p.remote_client_id,
                    is_initiator |-> p.type = "introduced_connection_initiator"])
  BY DEF _send_introduction_request
<1>2. s \in Sockets /\ s # Introducer /\ Base(s) = 1
  BY DEF Clients, ClientsOf, Base
<1>3. c \in Connected(Introducer, s).connections
  BY <1>1, <1>2, OldById
<1>4. c.initiator_nonce = <<s, 0, 1, 0>>
  BY <1>3, ClientEnd
<1>5. /\ m.type = "introduced_connection_request" /\ m.from = s /\ m.initiator_nonce = <<s, 0, 1, 0>>
      /\ m.body.remote_id = ConnectionId[t]
      /\ m.body.is_initiator = (p.type = "introduced_connection_initiator")
  BY <1>1, <1>4 DEF Packet
<1>6. m.body.is_initiator \in BOOLEAN
  BY <1>5
<1>7. CASE p.type = "introduced_connection_initiator"
  BY <1>5, <1>6, <1>7 DEF AnyPacketOK
<1>8. CASE p.type = "introduced_connection_host"
  <2>1. ~m.body.is_initiator
    BY <1>5, <1>8
  <2> QED
    BY <1>5, <1>6, <1>8, <2>1 DEF AnyPacketOK
<1> QED
  BY <1>7, <1>8 DEF IntroducedTypes

LEMMA ConnectIntroducedIntro ==
    ASSUME IntroInv, NEW a \in Asks, connect_introduced(a)
    PROVE  IntroInv'
<1> DEFINE s == a.socket
           S == sock[s]
           id == S.next_connection_index
           new == [id |-> id,
                   type |-> IF a.is_host THEN "introduced_connection_host"
                            ELSE "introduced_connection_initiator",
                   state |-> "requesting_introduction", address |-> AnyAddress,
                   initiator_nonce |-> InitiatorNonce(s, id, 0), host_nonce |-> Unset,
                   initial_send_sequence |-> RandomSequence(s, id), initial_recv_sequence |-> Unset,
                   shared_secret |-> {}, symmetric_key |-> Unset, init_vector |-> Unset,
                   client_identity |-> Unset, puzzle_solution |-> Unset, puzzle_request_index |-> 0,
                   puzzle_retried |-> FALSE, state_send_retry_count |-> ChallengeRetryCount,
                   requests_sent |-> 0, introducer |-> 1, remote_client_id |-> ConnectionId[a.remote],
                   possible_addresses |-> {}]
<1>0. PICK p : p = new
  OBVIOUS
<1>17. PICK pointer \in _find_connection_by_id(S, p.introducer) :
        \/ /\ asked' = asked \cup {a} /\ introductions' = introductions
           /\ sock' = [sock EXCEPT ![s].pending = @ \cup {p}, ![s].next_connection_index = id + 1]
           /\ net' = net \cup _send_introduction_request(s, p, pointer)
        \/ Undefined(s) /\ UNCHANGED <<introductions, asked>>
  BY <1>0 DEF connect_introduced
<1>18. CASE Undefined(s) /\ UNCHANGED <<introductions, asked>>
  <2>1. s \in Sockets
    BY IntroductionAssumption DEF Clients, ClientsOf
  <2> HIDE DEF s
  <2> QED
    BY <1>18, <2>1, UndefinedIntro
<1> SUFFICES ASSUME ~(Undefined(s) /\ UNCHANGED <<introductions, asked>>) PROVE IntroInv'
  BY <1>18
<1>1. /\ asked' = asked \cup {a} /\ introductions' = introductions
      /\ sock' = [sock EXCEPT ![s].pending = @ \cup {p}, ![s].next_connection_index = id + 1]
      /\ net' = net \cup _send_introduction_request(s, p, pointer)
  BY <1>17
<1>2. s \in Clients /\ a.remote \in Clients /\ a.is_host \in BOOLEAN
      /\ a = [socket |-> s, remote |-> a.remote, is_host |-> a.is_host]
  BY IntroductionAssumption
<1>3. s \in Sockets /\ Base(s) = 1
  BY <1>2 DEF Clients, ClientsOf, Base
<1>4. /\ DOMAIN sock = Sockets /\ DOMAIN S = SocketFields
      /\ S.next_connection_index \in Nat /\ S.next_connection_index > Base(s)
      /\ IdEntriesOK(S)
  BY <1>3, IntroFacts
<1>5. p.type \in IntroducedTypes /\ AskedFor(s, a.remote, p.type)'
  <2>0. p.type = IF a.is_host THEN "introduced_connection_host" ELSE "introduced_connection_initiator"
    BY <1>0
  <2>1. a \in asked'
    BY <1>1
  <2>2. CASE a.is_host
    BY <1>2, <2>0, <2>1, <2>2 DEF IntroducedTypes, AskedFor
  <2>3. CASE ~a.is_host
    BY <1>2, <2>0, <2>1, <2>3 DEF IntroducedTypes, AskedFor
  <2> QED
    BY <2>2, <2>3
<1>6. /\ p.id = id /\ p.state = "requesting_introduction" /\ p.introducer = 1
      /\ p.remote_client_id = ConnectionId[a.remote] /\ p.possible_addresses = {}
  BY <1>0
<1>7. DOMAIN p = IntroFields
  BY <1>0 DEF IntroFields, PendingFields
<1> HIDE DEF new
<1>8. Attempt(s, p)'
  <2> HIDE DEF s
  <2> QED
    BY <1>2, <1>5, <1>6 DEF Attempt, IntroductionStates
<1>9. AnyPendingOK(s, p)'
  BY <1>2, <1>4, <1>5, <1>6, <1>7, <1>8 DEF AnyPendingOK, IntroducedTypes
<1>10. StepOf(s)
  BY <1>1, <1>4 DEF StepOf
<1>11. sock'[s] = [S EXCEPT !.pending = @ \cup {p}, !.next_connection_index = id + 1]
  BY <1>1, <1>3, <1>4
<1>12. /\ DOMAIN sock'[s] = SocketFields /\ sock'[s].epoch = S.epoch
       /\ sock'[s].next_connection_index = id + 1 /\ sock'[s].pending = S.pending \cup {p}
       /\ sock'[s].connections = S.connections /\ sock'[s].id_table = S.id_table
  <2> HIDE DEF id, s
  <2> QED
    BY <1>4, <1>11 DEF SocketFields
<1>13. Grows
  <2>1. sock'[Introducer].epoch = sock[Introducer].epoch
    BY <1>10, <1>12, IntroductionAssumption DEF StepOf
  <2> QED
    BY <1>1, <2>1 DEF Grows, SameNonces
<1>14. SocketsInv'
  <2>1. sock'[s].next_connection_index \in Nat /\ sock'[s].next_connection_index > Base(s)
    BY <1>3, <1>4, <1>12
  <2>2. \A x \in sock'[s].pending : x \in sock[s].pending \/ AnyPendingOK(s, x)'
    BY <1>9, <1>12
  <2>3. SocketsInv
    BY DEF IntroInv
  <2>4. IdEntriesOK(sock'[s])
    BY <1>4, <1>12 DEF IdEntriesOK
  <2> HIDE DEF s
  <2> QED
    BY <1>3, <1>10, <1>12, <1>13, <2>1, <2>2, <2>3, <2>4, SocketsStep
<1>15. RecordsInv'
  <2>1. ASSUME NEW i \in DOMAIN introductions PROVE RecordOK(i, introductions[i])'
    <3>1. PICK r : r = introductions[i]
      OBVIOUS
    <3>2. RecordOK(i, r)
      BY <3>1 DEF IntroInv, RecordsInv
    <3>3. RecordOK(i, r)'
      BY <1>13, <3>2, RecordGrows
    <3> QED
      BY <1>1, <3>1, <3>3 DEF RecordOK
  <2>2. RecordType' = RecordType
    BY <1>13, RecordTypeKept DEF Grows
  <2> QED
    BY <1>1, <2>1, <2>2 DEF IntroInv, RecordsInv
<1>16. \A m \in net' : AnyPacketOK(m)'
  <2>1. SocketsInv
    BY DEF IntroInv
  <2>2. \A m \in _send_introduction_request(s, p, pointer) : AnyPacketOK(m)'
    <3>1. pointer \in _find_connection_by_id(sock[s], 1)
      BY <1>17, <1>6
    <3> HIDE DEF s
    <3> QED
      BY <1>2, <1>5, <1>6, <2>1, <3>1, RequestSent
  <2>3. \A m \in net' : m \in net \/ AnyPacketOK(m)'
    BY <1>1, <2>2
  <2> QED
    BY <1>13, <2>3, PacketsStep
<1> QED
  BY <1>14, <1>15, <1>16 DEF IntroInv

\* A punch goes to the other end of the introduction.
LEMMA PunchSent ==
    ASSUME NEW s, NEW p, NEW i \in DOMAIN introductions, NEW t, p.possible_addresses = {t},
           Between(i, s, t), SameNonces(p, introductions[i]), NEW m \in _send_punch(s, p)
    PROVE  AnyPacketOK(m)
<1>1. m = Packet("punch", s, t, p.initiator_nonce, p.host_nonce, NoBody)
  BY DEF _send_punch
<1>2. /\ m.type = "punch" /\ m.from = s /\ m.to = t
      /\ m.initiator_nonce = p.initiator_nonce /\ m.host_nonce = p.host_nonce
  BY <1>1 DEF Packet
<1>3. SameNonces(m, introductions[i])
  BY <1>2 DEF SameNonces
<1> QED
  BY <1>2, <1>3 DEF AnyPacketOK

LEMMA HandleIntroductionIntro ==
    ASSUME IntroInv, NEW s \in Sockets, NEW m \in net, _handle_introduction(s, m)
    PROVE  IntroInv'
<1>1. UNCHANGED <<introductions, asked>> /\ m.to = s /\ m.type = "connection_introduction"
  BY DEF _handle_introduction, Receives
<1>2. CASE Undefined(s)
  BY <1>1, <1>2, UndefinedIntro
<1>3. ASSUME NEW c, NEW p \in IntroductionFor(sock[s], c, m),
             sock' = [sock EXCEPT ![s] = Replaced(@, p, StartsPunching(p, m))],
             net' = net \cup _send_punch(s, StartsPunching(p, m))
      PROVE  IntroInv'
  <2> DEFINE S == sock[s]
             q == StartsPunching(p, m)
             t == m.body.remote_address
  <2>1. p \in S.pending /\ p.state = "requesting_introduction" /\ p.remote_client_id = m.body.remote_id
    BY DEF IntroductionFor
  <2>2. DOMAIN sock = Sockets /\ DOMAIN S = SocketFields /\ AnyPendingOK(s, p)
    BY <2>1, IntroFacts
  <2>3. /\ p.type # "connection_host" /\ p.type \in IntroducedTypes /\ DOMAIN p = IntroFields
        /\ s \in Clients /\ Attempt(s, p)
    BY <2>1, <2>2 DEF AnyPendingOK
  <2>4. m.body.remote_id = ConnectionId[t]
    BY <1>1 DEF IntroInv, AnyPacketOK
  <2>5. PICK i \in DOMAIN introductions : Between(i, s, t) /\ SameNonces(m.body, introductions[i])
    BY <1>1 DEF IntroInv, AnyPacketOK
  <2>6. t \in Clients
    BY <2>5 DEF Between
  <2>7. AskedFor(s, t, p.type)
    <3>1. PICK u \in Clients : p.remote_client_id = ConnectionId[u] /\ AskedFor(s, u, p.type)
      BY <2>3 DEF Attempt
    <3>2. u = t
      BY <2>1, <2>4, <2>6, <3>1, ConnectionIds
    <3> QED
      BY <3>1, <3>2
  <2>8. p.possible_addresses = {} /\ p.introducer = 1
    BY <2>1, <2>3 DEF Attempt
  <2>9. /\ DOMAIN q = IntroFields /\ q.id = p.id /\ q.type = p.type /\ q.introducer = p.introducer
        /\ q.remote_client_id = p.remote_client_id /\ q.state = "sending_punch_packets"
        /\ q.initiator_nonce = m.body.initiator_nonce /\ q.host_nonce = m.body.host_nonce
        /\ q.possible_addresses = p.possible_addresses \cup {t}
    BY <2>3 DEF StartsPunching, IntroFields, PendingFields
  <2> HIDE DEF q, t
  <2>10. q.possible_addresses = {t} /\ SameNonces(q, introductions[i])
    BY <2>5, <2>8, <2>9 DEF SameNonces
  <2>11. Attempt(s, q)
    <3>1. \E u \in Clients : q.remote_client_id = ConnectionId[u] /\ AskedFor(s, u, q.type)
      BY <2>3, <2>9 DEF Attempt
    <3>2. \E j \in DOMAIN introductions : \E u \in Clients :
            /\ q.possible_addresses = {u} /\ Between(j, s, u)
            /\ SameNonces(q, introductions[j]) /\ AskedFor(s, u, q.type)
      BY <2>5, <2>6, <2>7, <2>9, <2>10
    <3> QED
      BY <2>8, <2>9, <3>1, <3>2 DEF Attempt, IntroductionStates
  <2>12. AnyPendingOK(s, q)
    BY <2>2, <2>3, <2>9, <2>11 DEF AnyPendingOK
  <2>13. \A x \in _send_punch(s, q) : AnyPacketOK(x)
    BY <2>5, <2>10, PunchSent
  <2>14. StepOf(s) /\ sock'[s] = Replaced(S, p, q)
    BY <1>3, <2>2 DEF StepOf, q
  <2>15. SameBut(S, sock'[s], {"pending", "requests", "solver"})
         /\ sock'[s].pending = (S.pending \ {p}) \cup {q}
    BY <2>2, <2>14 DEF SameBut, Replaced, SocketFields
  <2>16. \A x \in net' : x \in net \/ AnyPacketOK(x)
    BY <1>3, <2>13 DEF q
  <2> QED
    BY <1>1, <2>12, <2>14, <2>15, <2>16, QuietReplace
<1> QED
  BY <1>2, <1>3 DEF _handle_introduction

\* The nonces of a punch are those of one introduction, and it is from the other end.
LEMMA FromTheOther ==
    ASSUME RecordsInv, NEW s, NEW t, NEW x, NEW i \in DOMAIN introductions, NEW nonce,
           nonce = introductions[i].initiator_nonce, Between(i, s, t), NonceOK(nonce, x, s)
    PROVE  x = t
<1>1. i \in Nat /\ nonce = IntroductionNonce(i, 1)
  BY RecordNonce
<1>2. Between(i, x, s)
  BY <1>1 DEF NonceOK
<1> QED
  BY <1>2, BetweenOne

LEMMA NonceOfIntroduction ==
    ASSUME RecordsInv, NEW i \in DOMAIN introductions, NEW nonce, NEW s, NEW t,
           nonce = introductions[i].initiator_nonce, Between(i, s, t)
    PROVE  NonceOK(nonce, s, t)
<1>1. nonce = IntroductionNonce(i, 1)
  BY RecordNonce
<1> SUFFICES ASSUME NEW n \in Nat, nonce = IntroductionNonce(n, 1) PROVE Between(n, s, t)
  BY DEF NonceOK
<1>2. n = i
  BY <1>1, NonceIsOfOne
<1> QED
  BY <1>2

LEMMA HandlePunchIntro ==
    ASSUME IntroInv, NEW s \in Sockets, NEW m \in net, _handle_punch(s, m)
    PROVE  IntroInv'
<1> DEFINE S == sock[s]
           punched == {p \in S.pending : Punched(p, m)}
           Starts(p) == [p EXCEPT !.state = "requesting_challenge_response", !.address = m.from,
                                  !.state_send_retry_count = ChallengeRetryCount]
           news == {Starts(p) : p \in punched}
<1>1. /\ UNCHANGED <<introductions, asked>> /\ m.to = s /\ m.type = "punch"
      /\ sock' = [sock EXCEPT ![s].pending = (@ \ punched) \cup news]
      /\ net' = net \cup {_send_challenge_request(s, Starts(p)) : p \in punched}
  BY DEF _handle_punch, Receives
<1>2. DOMAIN sock = Sockets /\ DOMAIN S = SocketFields /\ S.next_connection_index \in Nat
  BY IntroFacts
<1>3. RecordsInv
  BY DEF IntroInv
<1>4. PICK i \in DOMAIN introductions : Between(i, m.from, s) /\ SameNonces(m, introductions[i])
  BY <1>1 DEF IntroInv, AnyPacketOK
<1>5. ASSUME NEW p \in punched
      PROVE  AnyPendingOK(s, Starts(p)) /\ AnyPacketOK(_send_challenge_request(s, Starts(p)))
  <2> DEFINE q == Starts(p)
  <2>1. /\ p \in S.pending /\ p.initiator_nonce = m.initiator_nonce
        /\ p.state = "sending_punch_packets" /\ p.type = "introduced_connection_initiator"
    BY DEF Punched, SameNonces
  <2>2. AnyPendingOK(s, p)
    BY <2>1, IntroFacts
  <2>3. DOMAIN p = IntroFields /\ s \in Clients /\ Attempt(s, p)
    BY <2>1, <2>2 DEF AnyPendingOK
  <2>4. PICK j \in DOMAIN introductions : \E t \in Clients :
            p.possible_addresses = {t} /\ Between(j, s, t) /\ SameNonces(p, introductions[j])
    BY <2>1, <2>3 DEF Attempt
  <2>5. PICK t \in Clients :
            p.possible_addresses = {t} /\ Between(j, s, t) /\ SameNonces(p, introductions[j])
    BY <2>4
  <2>6. NonceOK(p.initiator_nonce, s, m.from) /\ NonceOK(p.initiator_nonce, m.from, s)
    <3>1. p.initiator_nonce = introductions[i].initiator_nonce
      BY <1>4, <2>1 DEF SameNonces
    <3>2. Between(i, s, m.from)
      BY <1>4, BetweenSym
    <3> QED
      BY <1>3, <1>4, <3>1, <3>2, NonceOfIntroduction
  <2>7. m.from = t
    <3>1. p.initiator_nonce = introductions[j].initiator_nonce
      BY <2>5 DEF SameNonces
    <3> QED
      BY <1>3, <2>5, <2>6, <3>1, FromTheOther
  <2>8. /\ DOMAIN q = IntroFields /\ q.id = p.id /\ q.type = p.type /\ q.introducer = p.introducer
        /\ q.remote_client_id = p.remote_client_id /\ q.state = "requesting_challenge_response"
        /\ q.initiator_nonce = p.initiator_nonce /\ q.address = m.from
        /\ q.possible_addresses = p.possible_addresses
    BY <2>3 DEF IntroFields, PendingFields
  <2> HIDE DEF q
  <2>9. Attempt(s, q)
    <3>1. q.address \in q.possible_addresses /\ NonceOK(q.initiator_nonce, s, q.address)
      BY <2>5, <2>6, <2>7, <2>8
    <3> QED
      BY <2>1, <2>3, <2>8, <3>1 DEF Attempt, IntroductionStates
  <2>10. AnyPendingOK(s, q)
    BY <2>1, <2>2, <2>3, <2>8, <2>9 DEF AnyPendingOK, IntroducedTypes
  <2>11. AnyPacketOK(_send_challenge_request(s, q))
    BY <2>6, <2>8 DEF AnyPacketOK, _send_challenge_request, Packet
  <2> QED
    BY <2>10, <2>11 DEF q
<1> HIDE DEF Starts, punched
<1>6. StepOf(s) /\ sock'[s] = [S EXCEPT !.pending = (@ \ punched) \cup news]
  <2> HIDE DEF news
  <2> QED
    BY <1>1, <1>2 DEF StepOf
<1>7. /\ DOMAIN sock'[s] = SocketFields /\ sock'[s].epoch = S.epoch
      /\ sock'[s].next_connection_index = S.next_connection_index
      /\ sock'[s].pending = (S.pending \ punched) \cup news /\ sock'[s].connections = S.connections
      /\ sock'[s].id_table = S.id_table
  <2> HIDE DEF news
  <2> QED
    BY <1>2, <1>6 DEF SocketFields
<1>8. sock'[s].next_connection_index \in Nat
      /\ sock'[s].next_connection_index >= sock[s].next_connection_index
  BY <1>2, <1>7
<1>9. \A x \in sock'[s].pending : x \in sock[s].pending \/ AnyPendingOK(s, x)
  BY <1>5, <1>7
<1>10. \A x \in net' : x \in net \/ AnyPacketOK(x)
  BY <1>1, <1>5
<1>11. IdEntriesOK(sock'[s])
  BY <1>7, IntroFacts DEF IdEntriesOK
<1> QED
  BY <1>1, <1>6, <1>7, <1>8, <1>9, <1>10, <1>11, QuietStep

LEMMA IntroducedRequestIntro ==
    ASSUME IntroInv, NEW s \in Sockets, NEW m \in net, IntroducedChallengeRequest(s, m)
    PROVE  IntroInv'
<1> DEFINE S == sock[s]
           Q(p) == [p EXCEPT !.address = m.from, !.state = "awaiting_connect_request",
                             !.state_send_retry_count = 0]
           r == _send_connect_challenge_response(s, m.from, m.initiator_nonce)
<1>1. /\ UNCHANGED <<introductions, asked>> /\ m.to = s /\ m.type = "connect_challenge_request"
      /\ net' = net \cup {r}
  BY DEF IntroducedChallengeRequest, Receives
<1>2. PICK p \in S.pending :
        Expects(p, m) /\ sock' = [sock EXCEPT ![s] = Replaced(@, p, Q(p))]
  BY DEF IntroducedChallengeRequest
<1>3. /\ p.state = "sending_punch_packets" /\ p.type = "introduced_connection_host"
      /\ p.initiator_nonce = m.initiator_nonce
  BY <1>2 DEF Expects
<1>4. DOMAIN sock = Sockets /\ DOMAIN S = SocketFields /\ AnyPendingOK(s, p)
  BY IntroFacts
<1>5. DOMAIN p = IntroFields /\ s \in Clients /\ Attempt(s, p)
  BY <1>3, <1>4 DEF AnyPendingOK
<1>6. PICK j \in DOMAIN introductions : \E t \in Clients :
        p.possible_addresses = {t} /\ Between(j, s, t) /\ SameNonces(p, introductions[j])
  BY <1>3, <1>5 DEF Attempt
<1>7. PICK t \in Clients :
        p.possible_addresses = {t} /\ Between(j, s, t) /\ SameNonces(p, introductions[j])
  BY <1>6
<1>8. m.from = t
  <2>1. RecordsInv /\ NonceOK(m.initiator_nonce, m.from, s)
    BY <1>1 DEF IntroInv, AnyPacketOK
  <2>2. m.initiator_nonce = introductions[j].initiator_nonce
    BY <1>3, <1>7 DEF SameNonces
  <2> QED
    BY <1>7, <2>1, <2>2, FromTheOther
<1>9. /\ DOMAIN Q(p) = IntroFields /\ Q(p).id = p.id /\ Q(p).type = p.type
      /\ Q(p).introducer = p.introducer /\ Q(p).remote_client_id = p.remote_client_id
      /\ Q(p).state = "awaiting_connect_request" /\ Q(p).address = m.from
      /\ Q(p).possible_addresses = p.possible_addresses
  BY <1>5 DEF IntroFields, PendingFields
<1>10. AnyPacketOK(r)
  BY PlainIntroPackets DEF _send_connect_challenge_response, Packet
<1> HIDE DEF Q, r
<1>11. Attempt(s, Q(p))
  <2>1. Q(p).address \in Q(p).possible_addresses
    BY <1>7, <1>8, <1>9
  <2> QED
    BY <1>3, <1>5, <1>9, <2>1 DEF Attempt, IntroductionStates
<1>12. AnyPendingOK(s, Q(p))
  BY <1>3, <1>4, <1>5, <1>9, <1>11 DEF AnyPendingOK, IntroducedTypes
<1>13. StepOf(s) /\ sock'[s] = Replaced(S, p, Q(p))
  BY <1>2, <1>4 DEF StepOf
<1>14. SameBut(S, sock'[s], {"pending", "requests", "solver"})
       /\ sock'[s].pending = (S.pending \ {p}) \cup {Q(p)}
  BY <1>4, <1>13 DEF SameBut, Replaced, SocketFields
<1>15. \A x \in net' : x \in net \/ AnyPacketOK(x)
  BY <1>1, <1>10
<1> QED
  BY <1>1, <1>12, <1>13, <1>14, <1>15, QuietReplace

LEMMA SweepIntroducedIntro ==
    ASSUME IntroInv, NEW s \in Sockets, NEW p \in sock[s].pending, SweepIntroduced(s, p)
    PROVE  IntroInv'
<1> DEFINE S == sock[s]
           q == [p EXCEPT !.state_send_retry_count = @ - 1]
<1>1. UNCHANGED <<introductions, asked>> /\ p.state \in IntroductionStates
  BY DEF SweepIntroduced
<1>2. DOMAIN sock = Sockets /\ DOMAIN S = SocketFields /\ AnyPendingOK(s, p)
  BY IntroFacts
<1>3. p.type \in IntroducedTypes /\ DOMAIN p = IntroFields /\ s \in Clients /\ Attempt(s, p)
  BY <1>1, <1>2 DEF AnyPendingOK, IntroductionStates
<1>4. CASE sock' = [sock EXCEPT ![s].pending = @ \ {p}] /\ net' = net
  <2>1. StepOf(s) /\ sock'[s] = [S EXCEPT !.pending = @ \ {p}]
    BY <1>2, <1>4 DEF StepOf
  <2>2. SameBut(S, sock'[s], Lessened) /\ FewerIds(S, sock'[s])
        /\ sock'[s].pending \subseteq S.pending /\ sock'[s].connections = S.connections
    BY <1>2, <2>1 DEF SameBut, SocketFields, Lessened, FewerIds
  <2> QED
    BY <1>1, <1>4, <2>1, <2>2, QuietLess
<1>5. ASSUME NEW sent, sock' = [sock EXCEPT ![s] = Replaced(@, p, q)], net' = net \cup sent,
             \/ p.state = "sending_punch_packets" /\ sent = _send_punch(s, q)
             \/ /\ p.state = "requesting_introduction"
                /\ \E pointer \in _find_connection_by_id(S, p.introducer) :
                        sent = _send_introduction_request(s, q, pointer)
      PROVE  IntroInv'
  <2>1. /\ DOMAIN q = IntroFields /\ q.id = p.id /\ q.type = p.type /\ q.introducer = p.introducer
        /\ q.remote_client_id = p.remote_client_id /\ q.state = p.state /\ q.address = p.address
        /\ q.initiator_nonce = p.initiator_nonce /\ q.host_nonce = p.host_nonce
        /\ q.possible_addresses = p.possible_addresses
    BY <1>3 DEF IntroFields, PendingFields
  <2>8. \/ p.state = "sending_punch_packets" /\ sent = _send_punch(s, q)
        \/ /\ p.state = "requesting_introduction"
           /\ \E pointer \in _find_connection_by_id(S, p.introducer) :
                    sent = _send_introduction_request(s, q, pointer)
    BY <1>5
  <2> HIDE DEF q
  <2>2. Attempt(s, q)
    BY <1>3, <2>1 DEF Attempt, SameNonces
  <2>3. AnyPendingOK(s, q)
    BY <1>2, <1>3, <2>1, <2>2 DEF AnyPendingOK, IntroducedTypes
  <2>4. \A m \in sent : AnyPacketOK(m)
    <3>1. CASE p.state = "requesting_introduction"
      <4>1. PICK t \in Clients : q.remote_client_id = ConnectionId[t] /\ AskedFor(s, t, q.type)
        BY <2>2 DEF Attempt
      <4>2. q.introducer = 1 /\ q.type \in IntroducedTypes /\ SocketsInv
        BY <1>3, <2>1, <2>2 DEF Attempt, IntroInv
      <4>3. AskedFor(s, t, q.type)'
        BY <1>1, <4>1 DEF AskedFor
      <4>0. PICK pointer \in _find_connection_by_id(S, p.introducer) :
                sent = _send_introduction_request(s, q, pointer)
        BY <2>8, <3>1
      <4>4. \A m \in _send_introduction_request(s, q, pointer) : AnyPacketOK(m)'
        <5>1. PICK x : x = q
          OBVIOUS
        <5>2. pointer \in _find_connection_by_id(sock[s], 1)
          BY <2>1, <4>0, <4>2
        <5>3. \A m \in _send_introduction_request(s, x, pointer) : AnyPacketOK(m)'
          BY <1>3, <4>1, <4>2, <4>3, <5>1, <5>2, RequestSent
        <5> QED
          BY <5>1, <5>3
      <4>5. \A m \in _send_introduction_request(s, q, pointer) : AnyPacketOK(m)
        <5> SUFFICES ASSUME NEW m \in _send_introduction_request(s, q, pointer) PROVE AnyPacketOK(m)
          OBVIOUS
        <5>1. AnyPacketOK(m)' /\ m.type = "introduced_connection_request"
          BY <4>4 DEF _send_introduction_request, Packet
        <5> QED
          BY <1>1, <5>1 DEF AnyPacketOK, AskedFor
      <4> QED
        BY <4>0, <4>5
    <3>2. CASE p.state # "requesting_introduction"
      <4>1. q.state = "sending_punch_packets"
        BY <1>1, <2>1, <3>2 DEF IntroductionStates
      <4>2. PICK i \in DOMAIN introductions : \E t \in Clients :
                q.possible_addresses = {t} /\ Between(i, s, t) /\ SameNonces(q, introductions[i])
        BY <2>2, <4>1 DEF Attempt
      <4>3. \A m \in _send_punch(s, q) : AnyPacketOK(m)
        BY <4>2, PunchSent
      <4> QED
        BY <2>8, <3>2, <4>3
    <3> QED
      BY <3>1, <3>2
  <2>5. StepOf(s) /\ sock'[s] = Replaced(S, p, q)
    BY <1>2, <1>5 DEF StepOf
  <2>6. SameBut(S, sock'[s], {"pending", "requests", "solver"})
        /\ sock'[s].pending = (S.pending \ {p}) \cup {q}
    BY <1>2, <2>5 DEF SameBut, Replaced, SocketFields
  <2>7. \A m \in net' : m \in net \/ AnyPacketOK(m)
    BY <1>5, <2>4
  <2> QED
    BY <1>1, <2>3, <2>5, <2>6, <2>7, QuietReplace
<1>6. CASE Undefined(s)
  BY <1>1, <1>6, UndefinedIntro
<1> HIDE DEF q
<1> QED
  BY <1>4, <1>5, <1>6 DEF SweepIntroduced, q
-----------------------------------------------------------------------------
(* The invariant. *)

LEMMA IntroInitially == IntroInit => IntroInv
<1> SUFFICES ASSUME IntroInit PROVE IntroInv
  OBVIOUS
<1>1. /\ sock = [s \in Sockets |-> Connected(Introducer, s)] /\ net = {} /\ introductions = <<>> /\ asked = {}
  BY DEF IntroInit, ConnectedInit
<1>2. ASSUME NEW s \in Sockets
      PROVE  /\ DOMAIN sock[s] = SocketFields /\ sock[s].pending = {}
             /\ sock[s].next_connection_index \in Nat /\ sock[s].next_connection_index > Base(s)
             /\ \A c \in sock[s].connections : OldOrNew(s, c)
             /\ IdEntriesOK(sock[s])
  <2>1. sock[s] = Connected(Introducer, s)
    BY <1>1
  <2>2. DOMAIN Connected(Introducer, s) = SocketFields /\ Connected(Introducer, s).pending = {}
        /\ IdEntriesOK(Connected(Introducer, s))
    BY ConnectedFacts, Zenon
  <2>3. \A c \in sock[s].connections : OldOrNew(s, c)
    BY <2>1 DEF OldOrNew
  <2> QED
    BY <2>1, <2>2, <2>3, NextIsAbove
<1>3. DOMAIN sock = Sockets
  BY <1>1
<1>4. SocketsInv
  BY <1>2, <1>3 DEF SocketsInv
<1>5. RecordsInv
  BY <1>1 DEF RecordsInv
<1> QED
  BY <1>1, <1>4, <1>5 DEF IntroInv

LEMMA IntroStays == IntroInv /\ [IntroNext]_intro_vars => IntroInv'
<1> SUFFICES ASSUME IntroInv, [IntroNext]_intro_vars PROVE IntroInv'
  OBVIOUS
<1>1. CASE UNCHANGED intro_vars
  <2>1. UNCHANGED <<sock, net, introductions, asked>> /\ Introducer \in Sockets
    BY <1>1, IntroductionAssumption DEF intro_vars
  <2>2. DOMAIN sock = Sockets /\ DOMAIN sock[Introducer] = SocketFields
    BY <2>1, IntroFacts
  <2>3. StepOf(Introducer) /\ SameBut(sock[Introducer], sock'[Introducer],
            Lessened) /\ FewerIds(sock[Introducer], sock'[Introducer])
    BY <2>1, <2>2 DEF StepOf, SameBut, FewerIds
  <2> QED
    BY <2>1, <2>3, QuietLess
<1>2. ASSUME NEW i \in Introduces, introduce_connection(i[1], i[2]) PROVE IntroInv'
  <2>1. i[1] \in Clients /\ i[2] \in Clients
    BY IntroductionAssumption
  <2> QED
    BY <1>2, <2>1, IntroduceIntro
<1>3. ASSUME NEW a \in Asks, connect_introduced(a) PROVE IntroInv'
  BY <1>3, ConnectIntroducedIntro
<1>4. ASSUME NEW s \in Sockets, NEW m \in net, _handle_introduction_request(s, m) PROVE IntroInv'
  BY <1>4, HandleRequestIntro
<1>5. ASSUME NEW s \in Sockets, NEW m \in net, _handle_introduction(s, m) PROVE IntroInv'
  BY <1>5, HandleIntroductionIntro
<1>6. ASSUME NEW s \in Sockets, NEW m \in net, _handle_punch(s, m) PROVE IntroInv'
  BY <1>6, HandlePunchIntro
<1>7. ASSUME NEW s \in Sockets, NEW m \in net, IntroducedChallengeRequest(s, m) PROVE IntroInv'
  BY <1>7, IntroducedRequestIntro
<1>8. ASSUME NEW s \in Sockets, NEW p \in sock[s].pending, SweepIntroduced(s, p) PROVE IntroInv'
  BY <1>8, SweepIntroducedIntro
<1>9. CASE HandshakeStep
  BY <1>9, HandshakeIntro
<1> QED
  BY <1>1, <1>2, <1>3, <1>4, <1>5, <1>6, <1>7, <1>8, <1>9 DEF IntroNext

\* Every nonce of an introduction, in a packet or in a pending connection, belongs to the
\* two it was made for, and both of their applications asked for it.
THEOREM IntroductionInvariant == IntroSpec => []IntroInv
BY IntroInitially, IntroStays, PTL DEF IntroSpec
-----------------------------------------------------------------------------
(* What it says. *)

\* An introduced host waits for the socket it was introduced to, and an introduced
\* initiator asks the host it was introduced to: however the punches, challenge requests
\* and introductions of several attempts are delayed, repeated or mixed up, none makes a
\* connection go on with another socket or in the other part.
THEOREM OnlyTheIntroduced == IntroSpec => []GoesOnWithTheIntroduced
<1>1. IntroInv => GoesOnWithTheIntroduced
  <2> SUFFICES ASSUME IntroInv, NEW s \in Sockets, NEW p \in IntroducedPending(s),
                      p.state \notin IntroductionStates
               PROVE  /\ p.address \in p.possible_addresses
                      /\ p.type = "introduced_connection_host" <=> p.state = "awaiting_connect_request"
    BY DEF GoesOnWithTheIntroduced
  <2>1. p \in sock[s].pending /\ p.type \in IntroducedTypes
    BY DEF IntroducedPending
  <2>2. AnyPendingOK(s, p) /\ p.type # "connection_host"
    BY <2>1, IntroFacts DEF IntroducedTypes
  <2>3. Attempt(s, p)
    BY <2>2 DEF AnyPendingOK
  <2> QED
    BY <2>3 DEF Attempt
<1> QED
  BY <1>1, IntroductionInvariant, PTL

\* No application asks for the same remote in both parts.
OneRole == \A a, b \in Asks : a.socket = b.socket /\ a.remote = b.remote => a = b

\* A socket punches only an address it was introduced to in these parts, and the
\* application behind it has asked for that too.  An introduction does not say which part
\* it is for: a socket that asks for one remote in both parts may punch in the wrong one.
THEOREM OnlyWhenBothAsked == OneRole => (IntroSpec => []PunchesOnlyTheIntroduced)
<1> SUFFICES ASSUME OneRole PROVE IntroSpec => []PunchesOnlyTheIntroduced
  OBVIOUS
<1>1. IntroInv => PunchesOnlyTheIntroduced
  <2> SUFFICES ASSUME IntroInv, NEW s \in Sockets, NEW p \in IntroducedPending(s),
                      p.state = "sending_punch_packets"
               PROVE  \E i \in DOMAIN introductions : \E t \in p.possible_addresses :
                        /\ SameNonces(p, introductions[i])
                        /\ LET hosting == p.type = "introduced_connection_host"
                               initiator == IF hosting THEN t ELSE s
                               host == IF hosting THEN s ELSE t
                           IN  /\ introductions[i].initiator = ConnectionId[initiator]
                               /\ introductions[i].host = ConnectionId[host]
                               /\ [socket |-> t, remote |-> s, is_host |-> ~hosting] \in asked
    BY DEF PunchesOnlyTheIntroduced
  <2>1. p \in sock[s].pending /\ p.type \in IntroducedTypes
    BY DEF IntroducedPending
  <2>2. AnyPendingOK(s, p) /\ p.type # "connection_host"
    BY <2>1, IntroFacts DEF IntroducedTypes
  <2>3. Attempt(s, p) /\ s \in Clients
    BY <2>2 DEF AnyPendingOK
  <2>4. PICK i \in DOMAIN introductions : \E t \in Clients :
            /\ p.possible_addresses = {t} /\ Between(i, s, t)
            /\ SameNonces(p, introductions[i]) /\ AskedFor(s, t, p.type)
    BY <2>3 DEF Attempt
  <2>5. PICK t \in Clients :
            /\ p.possible_addresses = {t} /\ Between(i, s, t)
            /\ SameNonces(p, introductions[i]) /\ AskedFor(s, t, p.type)
    BY <2>4
  <2>6. PICK a \in Clients, b \in Clients :
            /\ introductions[i].initiator = ConnectionId[a] /\ introductions[i].host = ConnectionId[b]
            /\ introductions[i].initiator_request_received =>
                    AskedFor(a, b, "introduced_connection_initiator")
            /\ introductions[i].host_request_received => AskedFor(b, a, "introduced_connection_host")
    BY DEF IntroInv, RecordsInv, RecordOK
  <2>7. /\ [socket |-> a, remote |-> b, is_host |-> FALSE] \in asked
        /\ [socket |-> b, remote |-> a, is_host |-> TRUE] \in asked
    BY <2>5, <2>6 DEF Between, BothReceived, AskedFor
  <2>8. (a = s /\ b = t) \/ (a = t /\ b = s)
    BY <2>3, <2>5, <2>6, ConnectionIds DEF Between, Pair
  <2>9. asked \subseteq Asks
    BY DEF IntroInv, RecordsInv
  <2>10. CASE p.type = "introduced_connection_host"
    <3>1. [socket |-> s, remote |-> t, is_host |-> TRUE] \in asked
      BY <2>5, <2>10 DEF AskedFor
    <3>2. ~(a = s /\ b = t)
      <4> SUFFICES ASSUME a = s, b = t PROVE FALSE
        OBVIOUS
      <4>1. [socket |-> s, remote |-> t, is_host |-> FALSE] \in asked
        BY <2>7
      <4>2. [socket |-> s, remote |-> t, is_host |-> FALSE] = [socket |-> s, remote |-> t, is_host |-> TRUE]
        BY <2>9, <3>1, <4>1 DEF OneRole
      <4>3. [socket |-> s, remote |-> t, is_host |-> FALSE].is_host
                = [socket |-> s, remote |-> t, is_host |-> TRUE].is_host
        BY <4>2
      <4> QED
        BY <4>3
    <3>3. a = t /\ b = s
      BY <2>8, <3>2
    <3>4. [socket |-> t, remote |-> s, is_host |-> FALSE] \in asked
      BY <2>7, <3>3
    <3> QED
      BY <2>5, <2>6, <2>10, <3>3, <3>4
  <2>11. CASE p.type # "introduced_connection_host"
    <3>1. [socket |-> s, remote |-> t, is_host |-> FALSE] \in asked
      BY <2>5, <2>11 DEF AskedFor
    <3>2. ~(a = t /\ b = s)
      <4> SUFFICES ASSUME a = t, b = s PROVE FALSE
        OBVIOUS
      <4>1. [socket |-> s, remote |-> t, is_host |-> TRUE] \in asked
        BY <2>7
      <4>2. [socket |-> s, remote |-> t, is_host |-> FALSE] = [socket |-> s, remote |-> t, is_host |-> TRUE]
        BY <2>9, <3>1, <4>1 DEF OneRole
      <4>3. [socket |-> s, remote |-> t, is_host |-> FALSE].is_host
                = [socket |-> s, remote |-> t, is_host |-> TRUE].is_host
        BY <4>2
      <4> QED
        BY <4>3
    <3>3. a = s /\ b = t
      BY <2>8, <3>2
    <3>4. [socket |-> t, remote |-> s, is_host |-> TRUE] \in asked
      BY <2>7, <3>3
    <3> QED
      BY <2>5, <2>6, <2>11, <3>3, <3>4
  <2> QED
    BY <2>10, <2>11
<1> QED
  BY <1>1, IntroductionInvariant, PTL
=============================================================================
