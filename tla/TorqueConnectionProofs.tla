----------------------- MODULE TorqueConnectionProofs -----------------------
(***************************************************************************)
(* Theorems about TorqueConnection, for every window size, modulus, bound   *)
(* and pair of initial sequence numbers, as long as no register comes       *)
(* within a reconstruction step of wrapping around (NoWrap; past that the   *)
(* plain comparison of read_packet_header goes wrong, which TLC shows).     *)
(***************************************************************************)
EXTENDS TorqueConnection, TLAPS, SequenceTheorems, WellFoundedInduction

\* No register comes within a reconstruction step of 2^32.
NoWrap ==
    \A s \in Side : InitSeq[s] + MaxPackets[s] + SeqMod + AckMod < UMod

\* The payloads handed to the application of s.
Handed(s) == {packet_events[s][i].payload : i \in 1 .. Len(packet_events[s])}

\* Acknowledged, received and sent numbers are in order and within the window.
OrderInv ==
    \A s \in Side :
        /\ InitSeq[s] <= highest_acked_seq[s]
        /\ highest_acked_seq[s] <= last_seq_recvd[Peer(s)]
        /\ last_seq_recvd[Peer(s)] <= last_send_seq[s]
        /\ last_send_seq[s] <= highest_acked_seq[s] + (W - 2)
        /\ last_send_seq[s] <= InitSeq[s] + MaxPackets[s]

\* s stops repeating only flags its peer has processed; the rest fits the mask.
KnownInv ==
    \A s \in Side :
        /\ last_recv_ack_ack[s] <= highest_acked_seq[Peer(s)]
        /\ last_seq_recvd[s] <= last_recv_ack_ack[s] + W

\* Every packet in flight is one its sender could have written: it carries all
\* the flags its receiver still needs, a set flag stands for a packet that
\* arrived, and the ring remembers what an unacknowledged data packet acked.
NetInv ==
    \A p \in net :
        /\ p.seq <= last_send_seq[p.from]
        /\ p.ack <= last_seq_recvd[p.from]
        /\ p.ack <= highest_acked_seq[Peer(p.from)] + p.bits
        /\ \A i \in p.mask : p.ack - i \in arrived[p.from]
        /\ p.type = "data" /\ p.seq > highest_acked_seq[p.from]
             => last_seq_recvd_at_send[p.from][p.seq % W] = p.ack

\* A set bit of the mask stands for a packet that arrived, none from the future.
MaskInv ==
    \A s \in Side :
        /\ \A i \in ack_mask[s] : last_seq_recvd[s] - i \in arrived[s]
        /\ \A n \in arrived[s] : n <= last_seq_recvd[s]

\* The ring entry of a packet in flight is valid, and once the packet arrived
\* the peer has processed the ack it carried.
RingInv ==
    \A s \in Side : \A n \in highest_acked_seq[s] + 1 .. last_send_seq[s] :
        /\ last_seq_recvd_at_send[s][n % W] \in Uint
        /\ n \in arrived[Peer(s)]
             => last_seq_recvd_at_send[s][n % W] <= highest_acked_seq[Peer(s)]

WindowInv == TypeOK /\ OrderInv /\ KnownInv /\ NetInv /\ MaskInv /\ RingInv

\* What was handed over is flagged in the mask and in every later packet.
FlagInv ==
    \A s \in Side : \A n \in Handed(s) :
        /\ n <= last_seq_recvd[s]
        /\ last_seq_recvd[s] - n < W => last_seq_recvd[s] - n \in ack_mask[s]
        /\ \A p \in net :
             p.from = s /\ n <= p.ack /\ p.ack - n < p.bits /\ p.ack - n < W
               => p.ack - n \in p.mask

\* Notifications are consecutive, and each one is true for good.
NotesInv ==
    \A s \in Side :
        /\ Len(notify_events[s]) = highest_acked_seq[s] - InitSeq[s]
        /\ \A i \in 1 .. Len(notify_events[s]) :
             /\ notify_events[s][i].seq = InitSeq[s] + i
             /\ notify_events[s][i].delivered => InitSeq[s] + i \in arrived[Peer(s)]
             /\ ~notify_events[s][i].delivered => InitSeq[s] + i \notin Handed(Peer(s))

\* Packet events are in the order of their true sequence numbers.
PacketInv ==
    \A s \in Side : \A i \in 1 .. Len(packet_events[s]) :
        /\ packet_events[s][i].seq = packet_events[s][i].payload
        /\ InitSeq[Peer(s)] < packet_events[s][i].payload
        /\ packet_events[s][i].payload <= last_seq_recvd[s]
        /\ i > 1 => packet_events[s][i - 1].payload < packet_events[s][i].payload

EventInv == FlagInv /\ NotesInv /\ PacketInv

-----------------------------------------------------------------------------
(* Arithmetic. *)

\* Division with remainder, as the provers know it.
LEMMA DivMod ==
    ASSUME NEW a \in Int, NEW m \in Nat \ {0}
    PROVE  a = m * (a \div m) + (a % m) /\ a % m \in 0 .. m - 1 /\ a \div m \in Int
OBVIOUS

\* The remainder is the only one in range.
LEMMA Remainder ==
    ASSUME NEW q \in Int, NEW r \in Nat, NEW m \in Nat \ {0}, r < m
    PROVE  (q * m + r) % m = r
OBVIOUS

\* A positive multiple of m is at least m.
LEMMA PositiveMultiple ==
    ASSUME NEW k \in Int, NEW m \in Nat \ {0}, 0 < m * k
    PROVE  m * k >= m
<1>1. k >= 1
  OBVIOUS
<1>2. m * (k - 1) >= 0
  BY <1>1
<1> QED
  BY <1>2

\* The packets of one window have different places in the ring
\* _last_seq_recvd_at_send.
LEMMA DistinctInWindow ==
    ASSUME NEW a \in Int, NEW b \in Int, NEW m \in Nat \ {0}, a < b, b < a + m
    PROVE  a % m # b % m
<1> SUFFICES ASSUME a % m = b % m PROVE FALSE
  OBVIOUS
<1> DEFINE k == (b \div m) - (a \div m)
<1>1. k \in Int
  BY DivMod
<1>2. b - a = m * k
  BY DivMod
<1> HIDE DEF k
<1>3. m * k >= m
  BY <1>1, <1>2, PositiveMultiple
<1> QED
  BY <1>2, <1>3

\* Adding the modulus leaves the remainder.
LEMMA AddModulus ==
    ASSUME NEW x \in Int, NEW m \in Nat \ {0}
    PROVE  (x + m) % m = x % m
<1> DEFINE q == x \div m
           r == x % m
<1>1. q \in Int /\ r \in Nat /\ r < m /\ x = m * q + r
  BY DivMod
<1> HIDE DEF q, r
<1>2. x + m = (q + 1) * m + r
  BY <1>1
<1>3. ((q + 1) * m + r) % m = r
  BY <1>1, Remainder
<1> QED
  BY <1>2, <1>3 DEF r

\* The first number from ref on with the low bits of x.
LEMMA NextCongruent ==
    ASSUME NEW x \in Nat, NEW ref \in Nat, NEW m \in Nat \ {0}, ref <= x, x < ref + m
    PROVE  LET c == (x % m) + (ref - (ref % m)) IN (IF c < ref THEN c + m ELSE c) = x
OBVIOUS

LEMMA UModType == UMod \in Nat \ {0}
BY ModulusAssumption

\* Unsigned addition and subtraction that do not wrap.
LEMMA AddExact ==
    ASSUME NEW a \in Nat, NEW b \in Nat, a + b < UMod
    PROVE  Add(a, b) = a + b
BY UModType DEF Add

LEMMA SubExact ==
    ASSUME NEW a \in Uint, NEW b \in Uint, b <= a
    PROVE  Sub(a, b) = a - b
BY UModType DEF Sub, Uint

LEMMA SubNegative ==
    ASSUME NEW a \in Uint, NEW b \in Uint, a < b
    PROVE  Sub(a, b) = a - b + UMod
BY UModType DEF Sub, Uint

LEMMA AddSubType ==
    ASSUME NEW a \in Int, NEW b \in Int
    PROVE  Add(a, b) \in Uint /\ Sub(a, b) \in Uint
BY UModType DEF Add, Sub, Uint

\* Reading back the low bits of a number at or after the reference finds it.
LEMMA ReconstructAhead ==
    ASSUME NEW x \in Uint, NEW ref \in Uint, NEW m \in Nat \ {0},
           ref <= x, x < ref + m
    PROVE  Reconstruct(x % m, ref, m) = x
<1>1. LET c == (x % m) + (ref - (ref % m)) IN (IF c < ref THEN c + m ELSE c) = x
  <2>1. x \in Nat /\ ref \in Nat
    BY UModType DEF Uint
  <2> QED
    BY <2>1, NextCongruent, Zenon
<1>2. (x % m) + (ref - (ref % m)) \in Int
  BY UModType, DivMod DEF Uint
<1> DEFINE c == (x % m) + (ref - (ref % m))
<1> HIDE DEF c
<1>3. CASE c < ref
  BY <1>1, <1>2, <1>3, UModType DEF Reconstruct, Add, Uint, c
<1>4. CASE ~(c < ref)
  BY <1>1, <1>2, <1>4 DEF Reconstruct, c
<1> QED
  BY <1>3, <1>4

\* Reading back the low bits of an older number yields one m further on.
LEMMA ReconstructBehind ==
    ASSUME NEW x \in Uint, NEW ref \in Uint, NEW m \in Nat \ {0},
           x < ref, ref <= x + m, x + m < UMod
    PROVE  Reconstruct(x % m, ref, m) = x + m
<1>1. (x + m) % m = x % m
  <2>1. x \in Int
    BY UModType DEF Uint
  <2> QED
    BY <2>1, AddModulus, Zenon
<1>2. x + m \in Uint
  BY UModType DEF Uint
<1>3. Reconstruct((x + m) % m, ref, m) = x + m
  BY <1>2, ReconstructAhead, UModType DEF Uint
<1> QED
  BY <1>1, <1>3

\* A non-empty set of naturals below a bound has a greatest element, so that
\* the last successful iteration of the notify loop is well defined.
LEMMA MaxOfBounded ==
    ASSUME NEW n \in Nat, NEW S, S \subseteq 1 .. n, S # {}
    PROVE  Max(S) \in S
<1> DEFINE T == {n - i : i \in S}
<1>1. T \subseteq Nat /\ T # {}
  <2>1. \A i \in S : n - i \in Nat
    OBVIOUS
  <2>2. PICK i \in S : TRUE
    OBVIOUS
  <2> QED
    BY <2>1, <2>2
<1>2. \E x \in T : \A y \in T : ~ (<<y, x>> \in OpToRel(<, Nat))
  BY <1>1, NatLessThanWellFounded, WFMin
<1>3. PICK x \in T : \A y \in T : ~ (y < x)
  BY <1>1, <1>2 DEF OpToRel
<1>4. PICK i \in S : x = n - i
  OBVIOUS
<1>5. \A j \in S : n - j \in T
  OBVIOUS
<1> HIDE DEF T
<1>6. \A j \in S : i >= j
  BY <1>3, <1>4, <1>5
<1> QED
  BY <1>6 DEF Max

-----------------------------------------------------------------------------
(* The window invariant. *)

LEMMA PeerFacts ==
    /\ \A s \in Side : Peer(s) \in Side /\ Peer(Peer(s)) = s /\ Peer(s) # s
    /\ \A s, t \in Side : t = s \/ t = Peer(s)
BY DEF Side, Peer

\* The registers are small naturals, so that unsigned differences are exact.
LEMMA Registers ==
    ASSUME NoWrap, TypeOK, OrderInv, NEW s \in Side
    PROVE  /\ InitSeq[s] \in Uint
           /\ MaxPackets[s] \in Nat
           /\ last_send_seq[s] \in Uint
           /\ last_send_seq[s] + SeqMod + AckMod < UMod
           /\ highest_acked_seq[s] \in Uint
           /\ last_seq_recvd[s] \in Uint
           /\ last_recv_ack_ack[s] \in Uint
<1>1. InitSeq[s] \in Uint /\ MaxPackets[s] \in Nat
  BY BoundAssumption
<1>2. /\ last_send_seq[s] \in Uint /\ highest_acked_seq[s] \in Uint
      /\ last_seq_recvd[s] \in Uint /\ last_recv_ack_ack[s] \in Uint
  BY DEF TypeOK
<1>3. last_send_seq[s] <= InitSeq[s] + MaxPackets[s]
  BY DEF OrderInv
<1>4. InitSeq[s] + MaxPackets[s] + SeqMod + AckMod < UMod
  BY DEF NoWrap
<1> QED
  BY <1>1, <1>2, <1>3, <1>4, ModulusAssumption, UModType DEF Uint

\* A packet the network delivers is accepted exactly when neither of its
\* numbers is behind the receiver's, and is then decoded exactly.
LEMMA Decoding ==
    ASSUME NoWrap, WindowInv, NEW s \in Side, NEW p \in net,
           p.from = Peer(s), Fresh(s, p)
    PROVE  /\ Accepts(s, p) <=> /\ last_seq_recvd[s] <= p.seq
                                /\ highest_acked_seq[s] <= p.ack
           /\ Accepts(s, p) => /\ pk_sequence_number(s, p) = p.seq
                               /\ pk_highest_ack(s, p) = p.ack
           /\ p.seq <= last_seq_recvd[s] + (W - 2)
           /\ p.ack <= last_send_seq[s]
<1> DEFINE t == Peer(s)
<1>t. t \in Side /\ Peer(t) = s
  BY PeerFacts
<1>a. TypeOK /\ OrderInv /\ NetInv
  BY DEF WindowInv
<1>p. /\ p.seq \in Uint /\ p.ack \in Uint
      /\ p.seq <= last_send_seq[t] /\ p.ack <= last_seq_recvd[t]
  BY <1>a DEF TypeOK, NetInv
<1>r. /\ last_send_seq[s] \in Uint /\ last_send_seq[t] \in Uint
      /\ last_seq_recvd[s] \in Uint /\ highest_acked_seq[s] \in Uint
      /\ highest_acked_seq[t] \in Uint /\ last_seq_recvd[t] \in Uint
      /\ last_send_seq[s] + SeqMod + AckMod < UMod
      /\ last_send_seq[t] + SeqMod + AckMod < UMod
  BY <1>a, <1>t, Registers
<1>o. /\ highest_acked_seq[t] <= last_seq_recvd[s]
      /\ last_seq_recvd[s] <= last_send_seq[t]
      /\ last_send_seq[t] <= highest_acked_seq[t] + (W - 2)
      /\ last_seq_recvd[t] <= last_send_seq[s]
      /\ highest_acked_seq[s] <= last_send_seq[s]
      /\ last_send_seq[s] <= highest_acked_seq[s] + (W - 2)
  BY <1>a, <1>t, <1>r DEF OrderInv, Uint
<1>f. /\ Sub(last_send_seq[t], p.seq) <= MaxLag
      /\ Sub(last_send_seq[s], p.ack) <= MaxLag
  BY DEF Fresh
<1>n. /\ UMod \in Nat \ {0} /\ SeqMod \in Nat \ {0} /\ AckMod \in Nat \ {0}
      /\ W \in Nat /\ W >= 4 /\ W <= SeqMod /\ W <= AckMod
      /\ MaxLag \in Nat /\ MaxLag + W <= SeqMod /\ MaxLag < AckMod
  BY ModulusAssumption, WindowAssumption, LagAssumption
<1> HIDE DEF t
<1>1. p.ack <= last_send_seq[s]
  BY <1>p, <1>r, <1>o, <1>n DEF Uint
<1>2. last_send_seq[t] - p.seq <= MaxLag /\ last_send_seq[s] - p.ack <= MaxLag
  BY <1>f, <1>p, <1>r, <1>1, SubExact
<1>3. p.seq <= last_seq_recvd[s] + (W - 2)
  BY <1>p, <1>r, <1>o, <1>n DEF Uint
<1>4. CASE last_seq_recvd[s] <= p.seq
  <2>1. p.seq < last_seq_recvd[s] + SeqMod
    BY <1>3, <1>p, <1>r, <1>n DEF Uint
  <2>2. pk_sequence_number(s, p) = p.seq
    BY <1>4, <2>1, <1>p, <1>r, <1>n, ReconstructAhead DEF pk_sequence_number
  <2>3. Sub(p.seq, last_seq_recvd[s]) = p.seq - last_seq_recvd[s]
    BY <1>4, <1>p, <1>r, SubExact
  <2>4. InSeqWindow(s, p)
    BY <2>2, <2>3, <1>3, <1>p, <1>r, <1>n DEF InSeqWindow, Uint
  <2> QED
    <3>1. CASE highest_acked_seq[s] <= p.ack
      <4>1. p.ack < highest_acked_seq[s] + AckMod
        BY <1>1, <1>p, <1>r, <1>o, <1>n DEF Uint
      <4>2. pk_highest_ack(s, p) = p.ack
        BY <3>1, <4>1, <1>p, <1>r, <1>n, ReconstructAhead DEF pk_highest_ack
      <4> QED
        BY <4>2, <2>2, <2>4, <1>1, <1>3, <1>4, <3>1 DEF Accepts, InAckWindow
    <3>2. CASE ~(highest_acked_seq[s] <= p.ack)
      <4>1. /\ p.ack < highest_acked_seq[s] /\ highest_acked_seq[s] <= p.ack + AckMod
            /\ p.ack + AckMod < UMod /\ p.ack + AckMod > last_send_seq[s]
        BY <3>2, <1>1, <1>2, <1>p, <1>r, <1>o, <1>n DEF Uint
      <4>2. pk_highest_ack(s, p) = p.ack + AckMod
        BY <4>1, <1>p, <1>r, <1>n, ReconstructBehind DEF pk_highest_ack
      <4>3. ~InAckWindow(s, p)
        BY <4>1, <4>2, <1>p, <1>r, <1>n DEF InAckWindow, Uint
      <4> QED
        BY <4>3, <3>2, <1>1, <1>3 DEF Accepts
    <3> QED
      BY <3>1, <3>2
<1>5. CASE ~(last_seq_recvd[s] <= p.seq)
  <2> DEFINE x == p.seq + SeqMod
  <2>1. /\ p.seq < last_seq_recvd[s] /\ last_seq_recvd[s] <= x /\ x < UMod
        /\ x - last_seq_recvd[s] >= W /\ x \in Uint
    BY <1>5, <1>2, <1>p, <1>r, <1>o, <1>n DEF Uint
  <2>2. pk_sequence_number(s, p) = x
    BY <2>1, <1>p, <1>r, <1>n, ReconstructBehind DEF pk_sequence_number
  <2> HIDE DEF x
  <2>3. Sub(x, last_seq_recvd[s]) = x - last_seq_recvd[s]
    BY <2>1, <1>r, SubExact
  <2>4. ~InSeqWindow(s, p)
    BY <2>1, <2>2, <2>3, <1>p, <1>r, <1>n DEF InSeqWindow, Uint
  <2> QED
    BY <2>4, <1>5, <1>1, <1>3 DEF Accepts
<1> QED
  BY <1>4, <1>5

\* ack_byte_count rounds up: the flags on the wire reach back to lraa.
LEMMA RoundUp ==
    ASSUME NEW d \in Nat, NEW g \in Nat \ {0}
    PROVE  /\ ((d + g - 1) \div g) * g \in Nat
           /\ d <= ((d + g - 1) \div g) * g
<1> DEFINE e == d + g - 1
           q == e \div g
           r == e % g
<1>1. e \in Int
  OBVIOUS
<1> HIDE DEF e
<1>2. q \in Int /\ r \in 0 .. g - 1 /\ e = g * q + r
  BY <1>1, DivMod
<1> HIDE DEF q, r
<1>3. d <= q * g /\ q * g \in Int
  BY <1>2 DEF e
<1> QED
  BY <1>3 DEF q, e

\* The ack bytes cover the flags from what the peer knows to what was received.
LEMMA AckBitsFacts ==
    ASSUME NEW recvd \in Uint, NEW lraa \in Uint, lraa <= recvd
    PROVE  AckBits(recvd, lraa) \in Nat /\ recvd <= lraa + AckBits(recvd, lraa)
<1>1. Sub(recvd, lraa) = recvd - lraa /\ recvd - lraa \in Nat
  BY SubExact, UModType DEF Uint
<1>2. AckBits(recvd, lraa) \in Nat /\ recvd - lraa <= AckBits(recvd, lraa)
  BY <1>1, RoundUp, WindowAssumption DEF AckBits
<1> DEFINE n == AckBits(recvd, lraa)
<1> HIDE DEF n
<1>3. n \in Nat /\ recvd <= lraa + n
  BY <1>2, UModType DEF n, Uint
<1> QED
  BY <1>3 DEF n

\* What write_packet_header produces from consistent registers.
LEMMA HeaderFacts ==
    ASSUME NEW s \in Side, NEW type \in PacketType, NEW seq \in Uint,
           NEW recvd \in Uint, NEW lraa \in Uint, lraa <= recvd,
           NEW mask \in SUBSET (0 .. W - 1)
    PROVE  LET h == Header(s, type, seq, recvd, lraa, mask)
           IN  /\ h.from = s /\ h.type = type /\ h.seq = seq /\ h.ack = recvd
               /\ h.bits \in Nat /\ recvd <= lraa + h.bits
               /\ h.mask = {i \in mask : i < h.bits}
<1> DEFINE n == AckBits(recvd, lraa)
<1>3. n \in Nat /\ recvd <= lraa + n
  BY AckBitsFacts
<1> HIDE DEF n
<1>4. Header(s, type, seq, recvd, lraa, mask) =
        [from |-> s, type |-> type, seq |-> seq, ack |-> recvd,
         bits |-> n, mask |-> {i \in mask : i < n}]
  BY DEF Header, n
<1> QED
  BY <1>3, <1>4

LEMMA TransmitFacts ==
    ASSUME NEW N, NEW p
    PROVE  Transmit(N, p) \subseteq N \cup {p}
BY DEF Transmit

LEMMA DeliveredFacts ==
    ASSUME NEW p, NEW N \in Delivered(p)
    PROVE  N \subseteq net
BY DEF Delivered

\* The notify loop and the clamp leave _last_recv_ack_ack at a number the peer
\* has processed an ack for, and no more than a window behind.
LEMMA NewAckAckFacts ==
    ASSUME NoWrap, WindowInv, NEW s \in Side, NEW p \in net,
           p.from = Peer(s), Fresh(s, p), Accepts(s, p)
    PROVE  /\ NewAckAck(s, p) \in Uint
           /\ NewAckAck(s, p) <= highest_acked_seq[Peer(s)]
           /\ NewAckAck(s, p) <= p.seq
           /\ p.seq <= NewAckAck(s, p) + W
           /\ notify_count(s, p) = p.ack - highest_acked_seq[s]
           /\ notify_count(s, p) \in Nat
           /\ \A i \in 1 .. notify_count(s, p) :
                /\ notify_index(s, i) = highest_acked_seq[s] + i
                /\ packet_transmit_success(s, p, i)
                     <=> p.ack - (highest_acked_seq[s] + i) \in p.mask
<1> DEFINE t == Peer(s)
           H == highest_acked_seq[s]
           n(i) == H + i
<1>t. t \in Side /\ Peer(t) = s
  BY PeerFacts
<1>a. TypeOK /\ OrderInv /\ NetInv /\ KnownInv /\ RingInv
  BY DEF WindowInv
<1>d. /\ pk_sequence_number(s, p) = p.seq /\ pk_highest_ack(s, p) = p.ack
      /\ last_seq_recvd[s] <= p.seq /\ H <= p.ack /\ p.ack <= last_send_seq[s]
  BY Decoding
<1>p. /\ p.seq \in Uint /\ p.ack \in Uint /\ p.mask \in SUBSET (0 .. W - 1)
      /\ p.seq <= last_send_seq[t]
      /\ \A i \in p.mask : p.ack - i \in arrived[t]
  BY <1>a DEF TypeOK, NetInv
<1>r. /\ last_send_seq[s] \in Uint /\ last_send_seq[t] \in Uint
      /\ last_seq_recvd[s] \in Uint /\ H \in Uint
      /\ highest_acked_seq[t] \in Uint /\ last_recv_ack_ack[s] \in Uint
      /\ last_send_seq[s] + SeqMod + AckMod < UMod
  BY <1>a, <1>t, Registers
<1>o. /\ highest_acked_seq[t] <= last_seq_recvd[s]
      /\ last_send_seq[t] <= highest_acked_seq[t] + (W - 2)
      /\ last_recv_ack_ack[s] <= highest_acked_seq[t]
  BY <1>a, <1>t DEF OrderInv, KnownInv
<1>n. /\ UMod \in Nat \ {0} /\ SeqMod \in Nat \ {0} /\ AckMod \in Nat \ {0}
      /\ W \in Nat /\ W >= 4 /\ W <= SeqMod
  BY ModulusAssumption, WindowAssumption
<1>1. notify_count(s, p) = p.ack - H /\ notify_count(s, p) \in Nat
  BY <1>d, <1>p, <1>r, SubExact DEF notify_count, Uint
<1>2. ASSUME NEW i \in 1 .. notify_count(s, p)
      PROVE  /\ notify_index(s, i) = n(i) /\ n(i) \in Uint
             /\ n(i) \in H + 1 .. last_send_seq[s] /\ n(i) <= p.ack
             /\ packet_transmit_success(s, p, i) <=> p.ack - n(i) \in p.mask
  <2>1. i \in Nat /\ H + i <= p.ack /\ H + i < UMod /\ H \in Nat /\ H + i \in Uint
    BY <1>1, <1>d, <1>p, <1>r, <1>n DEF Uint
  <2>2. notify_index(s, i) = n(i)
    BY <2>1, AddExact DEF notify_index
  <2>3. Sub(p.ack, n(i)) = p.ack - n(i)
    <3> DEFINE x == n(i)
    <3>1. x \in Uint /\ x <= p.ack
      BY <2>1
    <3> HIDE DEF x
    <3>2. Sub(p.ack, x) = p.ack - x
      BY <3>1, <1>p, SubExact
    <3> QED
      BY <3>2 DEF x
  <2>4. packet_transmit_success(s, p, i) <=> p.ack - n(i) \in p.mask
    BY <2>2, <2>3, <1>d DEF packet_transmit_success
  <2>5. n(i) \in H + 1 .. last_send_seq[s]
    BY <2>1, <1>d, <1>p, <1>r DEF Uint
  <2> QED
    BY <2>1, <2>2, <2>4, <2>5
<1> DEFINE k == NotifiedAckAck(s, p)
<1>3. k \in Uint /\ k <= highest_acked_seq[t]
  <2>1. CASE Successes(s, p) = {}
    BY <2>1, <1>r, <1>o DEF NotifiedAckAck
  <2>2. CASE Successes(s, p) # {}
    <3> DEFINE i == Max(Successes(s, p))
    <3>1. i \in Successes(s, p)
      BY <2>2, <1>1, MaxOfBounded DEF Successes
    <3>2. i \in 1 .. notify_count(s, p) /\ packet_transmit_success(s, p, i)
      BY <3>1 DEF Successes
    <3>3. k = last_seq_recvd_at_send[s][notify_index(s, i) % W]
      BY <2>2 DEF NotifiedAckAck
    <3> HIDE DEF i, k
    <3>4. p.ack - n(i) \in p.mask
      BY <3>2, <1>2
    <3>5. p.ack - (p.ack - n(i)) \in arrived[t]
      BY <3>4, <1>p
    <3>6. n(i) \in arrived[t]
      BY <3>5, <3>2, <1>2, <1>p DEF Uint
    <3>7. /\ last_seq_recvd_at_send[s][n(i) % W] \in Uint
          /\ last_seq_recvd_at_send[s][n(i) % W] <= highest_acked_seq[t]
      BY <3>6, <3>2, <1>2, <1>a, <1>t DEF RingInv
    <3> QED
      BY <3>2, <3>3, <3>7, <1>2
  <2> QED
    BY <2>1, <2>2
<1> HIDE DEF k
<1>4. k <= p.seq /\ Sub(p.seq, k) = p.seq - k
  <2>1. k <= p.seq
    BY <1>3, <1>o, <1>d, <1>p, <1>r DEF Uint
  <2> QED
    BY <2>1, <1>3, <1>p, SubExact
<1>5. NewAckAck(s, p) = IF p.seq - k > W THEN Sub(p.seq, W) ELSE k
  BY <1>4, <1>d DEF NewAckAck, k
<1>6. /\ NewAckAck(s, p) \in Uint
      /\ NewAckAck(s, p) <= highest_acked_seq[t]
      /\ NewAckAck(s, p) <= p.seq
      /\ p.seq <= NewAckAck(s, p) + W
  <2>1. CASE p.seq - k > W
    <3>1. W \in Uint /\ W <= p.seq
      BY <2>1, <1>3, <1>n, <1>p, <1>r DEF Uint
    <3>2. Sub(p.seq, W) = p.seq - W
      BY <3>1, <1>p, SubExact
    <3> QED
      BY <2>1, <3>1, <3>2, <1>5, <1>o, <1>p, <1>r, <1>n DEF Uint
  <2>2. CASE ~(p.seq - k > W)
    BY <2>2, <1>5, <1>3, <1>4, <1>p, <1>n DEF Uint
  <2> QED
    BY <2>1, <2>2
<1> QED
  BY <1>1, <1>2, <1>6

LEMMA InitWindow == NoWrap /\ Init => WindowInv
<1> SUFFICES ASSUME NoWrap, Init PROVE WindowInv
  OBVIOUS
<1>1. \A s \in Side : InitSeq[s] \in Uint /\ MaxPackets[s] \in Nat
  BY BoundAssumption
<1>2. TypeOK
  BY <1>1, PeerFacts, BoundAssumption DEF Init, TypeOK, Unset, Uninitialised
<1>3. OrderInv /\ KnownInv
  BY <1>1, PeerFacts, WindowAssumption, UModType DEF Init, OrderInv, KnownInv, Uint
<1>4. NetInv /\ MaskInv /\ RingInv
  BY <1>1, PeerFacts, UModType DEF Init, NetInv, MaskInv, RingInv, Uint
<1> QED
  BY <1>2, <1>3, <1>4 DEF WindowInv

\* A data packet takes the next sequence number.
LEMMA SendDataFacts ==
    ASSUME NoWrap, WindowInv, NEW s \in Side, SendData(s)
    PROVE  /\ last_send_seq' = [last_send_seq EXCEPT ![s] = last_send_seq[s] + 1]
           /\ last_send_seq[s] + 1 \in Uint
           /\ last_send_seq[s] + 1 <= highest_acked_seq[s] + (W - 2)
           /\ last_send_seq[s] + 1 <= InitSeq[s] + MaxPackets[s]
           /\ last_seq_recvd_at_send' =
                [last_seq_recvd_at_send EXCEPT
                   ![s][(last_send_seq[s] + 1) % W] = last_seq_recvd[s]]
           /\ net' \subseteq net \cup
                {Header(s, "data", last_send_seq[s] + 1, last_seq_recvd[s],
                        last_recv_ack_ack[s], ack_mask[s])}
<1>a. TypeOK /\ OrderInv
  BY DEF WindowInv
<1>r. /\ last_send_seq[s] \in Uint /\ highest_acked_seq[s] \in Uint
      /\ InitSeq[s] \in Uint /\ MaxPackets[s] \in Nat
      /\ last_send_seq[s] + SeqMod + AckMod < UMod
      /\ SeqMod \in Nat /\ AckMod \in Nat \ {0} /\ W \in Nat
  BY <1>a, Registers, ModulusAssumption, WindowAssumption
<1>o. highest_acked_seq[s] <= last_send_seq[s] /\ InitSeq[s] <= last_send_seq[s]
  <2>1. /\ highest_acked_seq[s] <= last_seq_recvd[Peer(s)]
        /\ last_seq_recvd[Peer(s)] <= last_send_seq[s]
        /\ InitSeq[s] <= highest_acked_seq[s]
    BY <1>a DEF OrderInv
  <2>2. last_seq_recvd[Peer(s)] \in Uint
    BY <1>a, PeerFacts DEF TypeOK
  <2> QED
    BY <2>1, <2>2, <1>r, UModType DEF Uint
<1>1. Add(last_send_seq[s], 1) = last_send_seq[s] + 1
  BY <1>r, AddExact, UModType DEF Uint
<1>2. Sub(last_send_seq[s], highest_acked_seq[s]) = last_send_seq[s] - highest_acked_seq[s]
  BY <1>r, <1>o, SubExact
<1>3. Sub(last_send_seq[s], InitSeq[s]) = last_send_seq[s] - InitSeq[s]
  BY <1>r, <1>o, SubExact
<1>4. /\ ~window_full(s) /\ Sub(last_send_seq[s], InitSeq[s]) < MaxPackets[s]
      /\ last_send_seq' = [last_send_seq EXCEPT ![s] = last_send_seq[s] + 1]
      /\ last_seq_recvd_at_send' =
           [last_seq_recvd_at_send EXCEPT
              ![s][(last_send_seq[s] + 1) % W] = last_seq_recvd[s]]
      /\ net' = Transmit(net, Header(s, "data", last_send_seq[s] + 1, last_seq_recvd[s],
                                     last_recv_ack_ack[s], ack_mask[s]))
  BY <1>1 DEF SendData
<1>5. last_send_seq[s] + 1 \in Uint
  BY <1>r, UModType DEF Uint
<1>6. last_send_seq[s] + 1 <= highest_acked_seq[s] + (W - 2)
  BY <1>2, <1>4, <1>r, UModType DEF window_full, Uint
<1>7. last_send_seq[s] + 1 <= InitSeq[s] + MaxPackets[s]
  BY <1>3, <1>4, <1>r, UModType DEF Uint
<1> QED
  BY <1>4, <1>5, <1>6, <1>7, TransmitFacts

\* An accepted packet moves the receiver's registers to its own numbers.
LEMMA ReadPacketFacts ==
    ASSUME NoWrap, WindowInv, NEW s \in Side, NEW p \in net, ReadPacket(s, p)
    PROVE  /\ p.from = Peer(s) /\ Fresh(s, p) /\ Accepts(s, p)
           /\ last_seq_recvd[s] <= p.seq /\ highest_acked_seq[s] <= p.ack
           /\ p.ack <= last_send_seq[s]
           /\ last_seq_recvd' = [last_seq_recvd EXCEPT ![s] = p.seq]
           /\ highest_acked_seq' = [highest_acked_seq EXCEPT ![s] = p.ack]
           /\ last_recv_ack_ack' = [last_recv_ack_ack EXCEPT ![s] = NewAckAck(s, p)]
           /\ ack_mask' = [ack_mask EXCEPT ![s] = ShiftedMask(s, p)]
           /\ ShiftedMask(s, p) =
                {i \in 0 .. W - 1 : i - (p.seq - last_seq_recvd[s]) \in ack_mask[s]}
                  \cup (IF p.type = "data" THEN {0} ELSE {})
           /\ net' \subseteq net \cup
                {Header(s, "ack", last_send_seq[s], p.seq,
                        NewAckAck(s, p), ShiftedMask(s, p))}
           /\ last_send_seq' = last_send_seq
           /\ last_seq_recvd_at_send' = last_seq_recvd_at_send
           /\ arrived' = IF p.type = "data"
                           THEN [arrived EXCEPT ![s] = @ \cup {p.seq}] ELSE arrived
<1>1. p.from = Peer(s) /\ Fresh(s, p) /\ Accepts(s, p)
  BY DEF ReadPacket
<1>2. /\ pk_sequence_number(s, p) = p.seq /\ pk_highest_ack(s, p) = p.ack
      /\ last_seq_recvd[s] <= p.seq /\ highest_acked_seq[s] <= p.ack
      /\ p.ack <= last_send_seq[s]
  BY <1>1, Decoding
<1>3. Sub(p.seq, last_seq_recvd[s]) = p.seq - last_seq_recvd[s]
  <2>1. p.seq \in Uint /\ last_seq_recvd[s] \in Uint
    BY DEF WindowInv, TypeOK
  <2> QED
    BY <1>2, <2>1, SubExact
<1>4. net' \subseteq net \cup
        {Header(s, "ack", last_send_seq[s], p.seq, NewAckAck(s, p), ShiftedMask(s, p))}
  <2> DEFINE h == Header(s, "ack", last_send_seq[s], p.seq,
                         NewAckAck(s, p), ShiftedMask(s, p))
  <2>1. PICK N \in Delivered(p) :
          net' = IF MustAck(s, p) THEN Transmit(N, h) ELSE N
    BY <1>2 DEF ReadPacket
  <2> HIDE DEF h
  <2>2. N \subseteq net
    BY <2>1, DeliveredFacts
  <2>3. Transmit(N, h) \subseteq N \cup {h}
    BY TransmitFacts
  <2> QED
    BY <2>1, <2>2, <2>3 DEF h
<1>5. ShiftedMask(s, p) =
        {i \in 0 .. W - 1 : i - (p.seq - last_seq_recvd[s]) \in ack_mask[s]}
          \cup (IF p.type = "data" THEN {0} ELSE {})
  BY <1>2, <1>3 DEF ShiftedMask
<1> QED
  BY <1>1, <1>2, <1>4, <1>5 DEF ReadPacket, sendVars

-----------------------------------------------------------------------------
(* Every step preserves the window invariant: one lemma per kind of step. *)

\* A packet s writes from its registers satisfies NetInv.
LEMMA WrittenPacket ==
    ASSUME NoWrap, WindowInv, NEW s \in Side,
           NEW type \in PacketType, NEW seq \in Uint
    PROVE  LET h == Header(s, type, seq, last_seq_recvd[s],
                           last_recv_ack_ack[s], ack_mask[s])
           IN  /\ h.from = s /\ h.type = type /\ h.seq = seq
               /\ h.ack = last_seq_recvd[s] /\ h.bits \in Nat
               /\ h.mask = {i \in ack_mask[s] : i < h.bits}
               /\ h.ack <= highest_acked_seq[Peer(s)] + h.bits
<1>a. TypeOK /\ OrderInv /\ KnownInv
  BY DEF WindowInv
<1>1. /\ last_seq_recvd[s] \in Uint /\ last_recv_ack_ack[s] \in Uint
      /\ highest_acked_seq[Peer(s)] \in Uint
      /\ ack_mask[s] \in SUBSET (0 .. W - 1)
  BY <1>a, PeerFacts DEF TypeOK
<1>2. /\ last_recv_ack_ack[s] <= highest_acked_seq[Peer(s)]
      /\ highest_acked_seq[Peer(s)] <= last_seq_recvd[s]
  BY <1>a, PeerFacts DEF KnownInv, OrderInv
<1>3. last_recv_ack_ack[s] <= last_seq_recvd[s]
  BY <1>1, <1>2, UModType DEF Uint
<1> DEFINE h == Header(s, type, seq, last_seq_recvd[s], last_recv_ack_ack[s], ack_mask[s])
<1>4. /\ h.from = s /\ h.type = type /\ h.seq = seq /\ h.ack = last_seq_recvd[s]
      /\ h.bits \in Nat /\ last_seq_recvd[s] <= last_recv_ack_ack[s] + h.bits
      /\ h.mask = {i \in ack_mask[s] : i < h.bits}
  BY <1>1, <1>3, HeaderFacts
<1> HIDE DEF h
<1>5. h.ack <= highest_acked_seq[Peer(s)] + h.bits
  BY <1>1, <1>2, <1>4, UModType DEF Uint
<1> QED
  BY <1>4, <1>5 DEF h

LEMMA SendDataWindow ==
    ASSUME NoWrap, WindowInv, NEW s \in Side, SendData(s)
    PROVE  WindowInv'
<1> DEFINE n == last_send_seq[s] + 1
           h == Header(s, "data", n, last_seq_recvd[s], last_recv_ack_ack[s], ack_mask[s])
           ring == last_seq_recvd_at_send
<1>a. TypeOK /\ OrderInv /\ KnownInv /\ NetInv /\ MaskInv /\ RingInv
  BY DEF WindowInv
<1>b. /\ last_send_seq' = [last_send_seq EXCEPT ![s] = n]
      /\ n \in Uint /\ n <= highest_acked_seq[s] + (W - 2)
      /\ n <= InitSeq[s] + MaxPackets[s]
      /\ ring' = [ring EXCEPT ![s][n % W] = last_seq_recvd[s]]
      /\ net' \subseteq net \cup {h}
  BY SendDataFacts
<1>c. UNCHANGED <<status, recvVars, timerVars, eventVars>>
  BY DEF SendData
<1>d. /\ h.from = s /\ h.type = "data" /\ h.seq = n
      /\ h.ack = last_seq_recvd[s] /\ h.bits \in Nat
      /\ h.mask = {i \in ack_mask[s] : i < h.bits}
      /\ h.ack <= highest_acked_seq[Peer(s)] + h.bits
  BY <1>b, WrittenPacket DEF PacketType
<1>n. n = last_send_seq[s] + 1
  OBVIOUS
<1> HIDE DEF n, h
<1>w. W \in Nat \ {0} /\ W >= 4 /\ n % W \in 0 .. W - 1
  <2>1. n \in Int /\ W \in Nat \ {0}
    BY <1>b, UModType, WindowAssumption DEF Uint
  <2> QED
    BY <2>1, DivMod, WindowAssumption
<1>x. n \in Uint /\ n <= highest_acked_seq[s] + (W - 2) /\ W \in Nat
  BY <1>b, <1>w
<1>t. /\ ring[s] \in [0 .. W - 1 -> Uint \cup {Uninitialised}]
      /\ ack_mask[s] \in SUBSET (0 .. W - 1) /\ last_seq_recvd[s] \in Uint
      /\ last_send_seq[s] \in Uint /\ highest_acked_seq[s] \in Uint
  BY <1>a DEF TypeOK
<1>r. /\ ring' \in [Side -> [0 .. W - 1 -> Uint \cup {Uninitialised}]]
      /\ ring'[s][n % W] = last_seq_recvd[s]
      /\ \A i \in 0 .. W - 1 : i # n % W => ring'[s][i] = ring[s][i]
      /\ ring'[Peer(s)] = ring[Peer(s)]
  BY <1>a, <1>b, <1>t, <1>w, PeerFacts DEF TypeOK
\* The other packets of the window keep their place in the ring.
<1>k. ASSUME NEW m \in Uint, highest_acked_seq[s] < m, m <= last_send_seq[s]
      PROVE  ring'[s][m % W] = ring[s][m % W]
  <2>1. m \in Int /\ n \in Int /\ m < n /\ n < m + W
    BY <1>k, <1>x, <1>n, <1>t, UModType DEF Uint
  <2>2. m % W # n % W /\ m % W \in 0 .. W - 1
    BY <2>1, <1>w, DistinctInWindow, DivMod
  <2> QED
    BY <2>2, <1>r
<1>1. TypeOK'
  <2>1. \A p \in net' :
          /\ p.from \in Side /\ p.type \in PacketType
          /\ p.seq \in Uint /\ p.ack \in Uint
          /\ p.bits \in Nat /\ p.mask \in SUBSET (0 .. W - 1)
    BY <1>a, <1>b, <1>d, <1>t DEF TypeOK, PacketType
  <2>2. last_send_seq' \in [Side -> Uint]
    BY <1>a, <1>b DEF TypeOK
  <2> QED
    BY <1>a, <1>c, <1>r, <2>1, <2>2 DEF TypeOK, recvVars, timerVars, eventVars
<1>2. OrderInv' /\ KnownInv'
  <2>1. \A u \in Side : last_send_seq'[u] = IF u = s THEN n ELSE last_send_seq[u]
    BY <1>a, <1>b DEF TypeOK
  <2>2. last_seq_recvd[Peer(s)] \in Uint /\ last_seq_recvd[Peer(s)] <= n
    <3>1. Peer(s) \in Side /\ last_seq_recvd[Peer(s)] <= last_send_seq[s]
      BY <1>a, PeerFacts DEF OrderInv
    <3>2. last_seq_recvd[Peer(s)] \in Uint
      BY <3>1, <1>a DEF TypeOK
    <3>3. last_seq_recvd[Peer(s)] \in Int /\ last_send_seq[s] \in Int
      BY <3>2, <1>t, UModType DEF Uint
    <3> QED
      BY <3>1, <3>2, <3>3, <1>n
  <2>3. OrderInv'
    BY <2>1, <2>2, <1>a, <1>b, <1>c DEF OrderInv, recvVars
  <2> QED
    BY <2>3, <1>a, <1>c DEF KnownInv, recvVars
<1>3. NetInv'
  <2> SUFFICES ASSUME NEW p \in net'
               PROVE  /\ p.seq <= last_send_seq'[p.from]
                      /\ p.ack <= last_seq_recvd[p.from]
                      /\ p.ack <= highest_acked_seq[Peer(p.from)] + p.bits
                      /\ \A i \in p.mask : p.ack - i \in arrived[p.from]
                      /\ p.type = "data" /\ p.seq > highest_acked_seq[p.from]
                           => ring'[p.from][p.seq % W] = p.ack
    BY <1>c DEF NetInv, recvVars, eventVars
  <2>1. CASE p \in net
    <3>1. /\ p.from \in Side /\ p.seq \in Uint
          /\ p.seq <= last_send_seq[p.from]
          /\ p.ack <= last_seq_recvd[p.from]
          /\ p.ack <= highest_acked_seq[Peer(p.from)] + p.bits
          /\ \A i \in p.mask : p.ack - i \in arrived[p.from]
          /\ p.type = "data" /\ p.seq > highest_acked_seq[p.from]
               => ring[p.from][p.seq % W] = p.ack
      BY <2>1, <1>a DEF TypeOK, NetInv
    <3>2. CASE p.from = s
      <4>1. p.seq <= last_send_seq'[s]
        <5>1. last_send_seq'[s] = n
          BY <1>a, <1>b DEF TypeOK
        <5>2. p.seq <= last_send_seq[s] /\ p.seq \in Int /\ last_send_seq[s] \in Int
          BY <3>1, <3>2, <1>t, UModType DEF Uint
        <5> QED
          BY <5>1, <5>2, <1>n
      <4>2. ASSUME p.type = "data", p.seq > highest_acked_seq[s]
            PROVE  ring'[s][p.seq % W] = p.ack
        <5>1. highest_acked_seq[s] < p.seq /\ p.seq <= last_send_seq[s]
          BY <4>2, <3>1, <3>2, <1>t, UModType DEF Uint
        <5> QED
          BY <5>1, <4>2, <1>k, <3>1, <3>2
      <4> QED
        BY <4>1, <4>2, <3>1, <3>2
    <3>3. CASE p.from # s
      <4>1. p.from = Peer(s)
        BY <3>1, <3>3, PeerFacts
      <4>2. last_send_seq'[p.from] = last_send_seq[p.from]
        BY <3>1, <3>3, <1>a, <1>b DEF TypeOK
      <4> QED
        BY <3>1, <4>1, <4>2, <1>r
    <3> QED
      BY <3>2, <3>3
  <2>2. CASE p = h
    <3>1. last_send_seq'[s] = n
      BY <1>a, <1>b DEF TypeOK
    <3>2. p.seq <= last_send_seq'[s] /\ p.ack <= last_seq_recvd[s]
      BY <2>2, <3>1, <1>d, <1>b, <1>t, UModType DEF Uint
    <3>3. \A i \in p.mask : p.ack - i \in arrived[s]
      BY <2>2, <1>a, <1>d DEF MaskInv
    <3>4. ring'[s][p.seq % W] = p.ack
      BY <2>2, <1>d, <1>r
    <3> QED
      BY <2>2, <3>2, <3>3, <3>4, <1>d
  <2> QED
    BY <2>1, <2>2, <1>b
<1>4. MaskInv'
  BY <1>a, <1>c DEF MaskInv, recvVars, eventVars
<1>5. RingInv'
  <2> SUFFICES ASSUME NEW u \in Side, NEW m \in highest_acked_seq[u] + 1 .. last_send_seq'[u]
               PROVE  /\ ring'[u][m % W] \in Uint
                      /\ m \in arrived[Peer(u)]
                           => ring'[u][m % W] <= highest_acked_seq[Peer(u)]
    BY <1>c DEF RingInv, recvVars, eventVars
  <2>1. CASE u # s
    <3>1. u = Peer(s) /\ last_send_seq'[u] = last_send_seq[u]
      BY <2>1, <1>a, <1>b, PeerFacts DEF TypeOK
    <3> QED
      BY <3>1, <1>a, <1>r DEF RingInv
  <2>2. CASE u = s
    <3>1. last_send_seq'[s] = n
      BY <1>a, <1>b DEF TypeOK
    <3>2. CASE m = n
      <4>1. ring'[u][m % W] \in Uint
        BY <2>2, <3>2, <1>r, <1>t
      <4>2. m \notin arrived[Peer(s)]
        <5>1. /\ last_seq_recvd[Peer(s)] \in Uint
              /\ last_seq_recvd[Peer(s)] <= last_send_seq[s]
              /\ \A a \in arrived[Peer(s)] : a <= last_seq_recvd[Peer(s)]
          BY <1>a, PeerFacts DEF TypeOK, OrderInv, MaskInv
        <5> QED
          BY <5>1, <3>2, <1>n, <1>t, UModType DEF Uint
      <4> QED
        BY <4>1, <4>2, <2>2
    <3>3. CASE m # n
      <4>1. m \in Uint /\ highest_acked_seq[s] < m /\ m <= last_send_seq[s]
            /\ m \in highest_acked_seq[s] + 1 .. last_send_seq[s]
        BY <2>2, <3>1, <3>3, <1>n, <1>t, UModType DEF Uint
      <4>2. /\ ring[s][m % W] \in Uint
            /\ m \in arrived[Peer(s)] => ring[s][m % W] <= highest_acked_seq[Peer(s)]
        BY <4>1, <1>a DEF RingInv
      <4> QED
        BY <4>1, <4>2, <1>k, <2>2
    <3> QED
      BY <3>2, <3>3
  <2> QED
    BY <2>1, <2>2
<1> QED
  BY <1>1, <1>2, <1>3, <1>4, <1>5 DEF WindowInv

LEMMA ReadPacketWindow ==
    ASSUME NoWrap, WindowInv, NEW s \in Side, NEW p \in net, ReadPacket(s, p)
    PROVE  WindowInv'
<1> DEFINE t == Peer(s)
           k == NewAckAck(s, p)
           M == ShiftedMask(s, p)
           h == Header(s, "ack", last_send_seq[s], p.seq, k, M)
           ring == last_seq_recvd_at_send
<1>t. t \in Side /\ Peer(t) = s /\ t # s /\ \A u \in Side : u = s \/ u = t
  BY PeerFacts
<1>a. TypeOK /\ OrderInv /\ KnownInv /\ NetInv /\ MaskInv /\ RingInv
  BY DEF WindowInv
<1>b. /\ p.from = t /\ Fresh(s, p) /\ Accepts(s, p)
      /\ last_seq_recvd[s] <= p.seq /\ highest_acked_seq[s] <= p.ack
      /\ p.ack <= last_send_seq[s]
      /\ last_seq_recvd' = [last_seq_recvd EXCEPT ![s] = p.seq]
      /\ highest_acked_seq' = [highest_acked_seq EXCEPT ![s] = p.ack]
      /\ last_recv_ack_ack' = [last_recv_ack_ack EXCEPT ![s] = k]
      /\ ack_mask' = [ack_mask EXCEPT ![s] = M]
      /\ M = {i \in 0 .. W - 1 : i - (p.seq - last_seq_recvd[s]) \in ack_mask[s]}
               \cup (IF p.type = "data" THEN {0} ELSE {})
      /\ net' \subseteq net \cup {h}
      /\ last_send_seq' = last_send_seq /\ ring' = ring
      /\ arrived' = IF p.type = "data"
                      THEN [arrived EXCEPT ![s] = @ \cup {p.seq}] ELSE arrived
  BY ReadPacketFacts
<1>c. /\ k \in Uint /\ k <= highest_acked_seq[t] /\ k <= p.seq /\ p.seq <= k + W
      /\ notify_count(s, p) \in Nat
      /\ \A i \in 1 .. notify_count(s, p) :
           notify_index(s, i) = highest_acked_seq[s] + i
      /\ notify_count(s, p) = p.ack - highest_acked_seq[s]
  BY <1>b, NewAckAckFacts
<1>p. /\ p.seq \in Uint /\ p.ack \in Uint /\ p.type \in PacketType
      /\ p.mask \in SUBSET (0 .. W - 1)
      /\ p.seq <= last_send_seq[t] /\ p.ack <= last_seq_recvd[t]
      /\ p.type = "data" /\ p.seq > highest_acked_seq[t] => ring[t][p.seq % W] = p.ack
  BY <1>a, <1>b DEF TypeOK, NetInv
<1>r. /\ last_send_seq[s] \in Uint /\ last_send_seq[t] \in Uint
      /\ last_seq_recvd[s] \in Uint /\ last_seq_recvd[t] \in Uint
      /\ highest_acked_seq[s] \in Uint /\ highest_acked_seq[t] \in Uint
      /\ InitSeq[s] \in Uint
  BY <1>a, <1>t, BoundAssumption DEF TypeOK
<1>w. W \in Nat /\ W >= 4 /\ UMod \in Nat \ {0}
  BY WindowAssumption, UModType
<1>m. /\ M \in SUBSET (0 .. W - 1)
      /\ \A i \in M : \/ i = 0 /\ p.type = "data"
                      \/ i - (p.seq - last_seq_recvd[s]) \in ack_mask[s]
  BY <1>b, <1>w
<1>h. /\ h.from = s /\ h.type = "ack" /\ h.seq = last_send_seq[s] /\ h.ack = p.seq
      /\ h.bits \in Nat /\ p.seq <= k + h.bits
      /\ h.mask = {i \in M : i < h.bits}
  <2>1. p.seq \in Uint /\ k \in Uint /\ k <= p.seq
    BY <1>c, <1>p
  <2> DEFINE n == AckBits(p.seq, k)
  <2> HIDE DEF k, M
  <2>2. n \in Nat /\ p.seq <= k + n
    BY <2>1, AckBitsFacts
  <2>3. h = [from |-> s, type |-> "ack", seq |-> last_send_seq[s], ack |-> p.seq,
             bits |-> n, mask |-> {i \in M : i < n}]
    BY DEF Header
  <2> HIDE DEF n, h
  <2> QED
    BY <2>2, <2>3
<1> HIDE DEF k, M, h, t
<1>q. /\ last_seq_recvd'[s] = p.seq /\ last_seq_recvd'[t] = last_seq_recvd[t]
      /\ highest_acked_seq'[s] = p.ack /\ highest_acked_seq'[t] = highest_acked_seq[t]
      /\ last_recv_ack_ack'[s] = k /\ last_recv_ack_ack'[t] = last_recv_ack_ack[t]
      /\ ack_mask'[s] = M /\ ack_mask'[t] = ack_mask[t]
      /\ arrived'[t] = arrived[t]
      /\ arrived'[s] = arrived[s] \cup (IF p.type = "data" THEN {p.seq} ELSE {})
  BY <1>a, <1>b, <1>t DEF TypeOK
<1>1. TypeOK'
  <2>1. \A q \in net' :
          /\ q.from \in Side /\ q.type \in PacketType
          /\ q.seq \in Uint /\ q.ack \in Uint
          /\ q.bits \in Nat /\ q.mask \in SUBSET (0 .. W - 1)
    BY <1>a, <1>b, <1>h, <1>m, <1>p, <1>r DEF TypeOK, PacketType
  <2>2. /\ last_seq_recvd' \in [Side -> Uint] /\ highest_acked_seq' \in [Side -> Uint]
        /\ last_recv_ack_ack' \in [Side -> Uint]
        /\ ack_mask' \in [Side -> SUBSET (0 .. W - 1)]
        /\ last_send_seq' \in [Side -> Uint]
        /\ ring' \in [Side -> [0 .. W - 1 -> Uint \cup {Uninitialised}]]
    BY <1>a, <1>b, <1>c, <1>m, <1>p DEF TypeOK
  <2>3. arrived' \in [Side -> SUBSET Uint]
    BY <1>a, <1>b, <1>p DEF TypeOK
  <2>4. /\ status' \in [Side -> {"up", "timed_out", "trapped"}]
        /\ ping_send_count' \in [Side -> 0 .. PingRetryCount]
        /\ idle' \in [Side -> {Unset} \cup 0 .. PingTimeout]
    BY <1>a, BoundAssumption DEF TypeOK, ReadPacket
  <2>5. packet_events' \in [Side -> Seq(PacketEvent)]
    <3>1. pk_sequence_number(s, p) = p.seq
      BY <1>b, Decoding DEF t
    <3>2. [seq |-> p.seq, payload |-> p.seq] \in PacketEvent
      BY <1>p DEF PacketEvent
    <3>3. packet_events[s] \in Seq(PacketEvent)
      BY <1>a DEF TypeOK
    <3>4. Append(packet_events[s], [seq |-> p.seq, payload |-> p.seq]) \in Seq(PacketEvent)
      BY <3>2, <3>3
    <3> QED
      BY <3>1, <3>4, <1>a DEF TypeOK, ReadPacket
  <2>6. notify_events' \in [Side -> Seq(NotifyEvent)]
    <3>1. ASSUME NEW i \in 1 .. notify_count(s, p)
          PROVE  notify_index(s, i) \in Uint
      BY <1>c, <1>p, <1>r, <1>w DEF Uint
    <3>2. ASSUME NEW i \in 1 .. notify_count(s, p)
          PROVE  [seq |-> notify_index(s, i),
                  delivered |-> packet_transmit_success(s, p, i)] \in NotifyEvent
      BY <3>1 DEF NotifyEvent, packet_transmit_success
    <3>3. NewNotifyEvents(s, p) \in Seq(NotifyEvent)
      BY <3>2, <1>c, IsASeq DEF NewNotifyEvents
    <3>4. notify_events[s] \in Seq(NotifyEvent)
      BY <1>a DEF TypeOK
    <3>5. notify_events[s] \o NewNotifyEvents(s, p) \in Seq(NotifyEvent)
      BY <3>3, <3>4, ConcatProperties
    <3> QED
      BY <3>5, <1>a DEF TypeOK, ReadPacket
  <2> QED
    BY <2>1, <2>2, <2>3, <2>4, <2>5, <2>6 DEF TypeOK
<1>2. OrderInv'
  <2>1. /\ InitSeq[s] <= highest_acked_seq[s]
        /\ last_seq_recvd[t] <= last_send_seq[s]
        /\ last_send_seq[s] <= highest_acked_seq[s] + (W - 2)
        /\ last_send_seq[s] <= InitSeq[s] + MaxPackets[s]
        /\ InitSeq[t] <= highest_acked_seq[t]
        /\ highest_acked_seq[t] <= last_seq_recvd[s]
        /\ last_send_seq[t] <= highest_acked_seq[t] + (W - 2)
        /\ last_send_seq[t] <= InitSeq[t] + MaxPackets[t]
    BY <1>a, <1>t DEF OrderInv, t
  <2>2. /\ InitSeq[s] <= highest_acked_seq'[s]
        /\ highest_acked_seq'[s] <= last_seq_recvd'[t]
        /\ last_seq_recvd'[t] <= last_send_seq[s]
        /\ last_send_seq[s] <= highest_acked_seq'[s] + (W - 2)
    BY <2>1, <1>b, <1>p, <1>q, <1>r, <1>w DEF Uint
  <2>3. highest_acked_seq'[t] <= last_seq_recvd'[s] /\ last_seq_recvd'[s] <= last_send_seq[t]
    BY <2>1, <1>b, <1>p, <1>q, <1>r, <1>w DEF Uint
  <2> QED
    BY <2>1, <2>2, <2>3, <1>b, <1>q, <1>t DEF OrderInv, t
<1>3. KnownInv'
  <2>1. last_recv_ack_ack[t] <= highest_acked_seq[s] /\ last_seq_recvd[t] <= last_recv_ack_ack[t] + W
    BY <1>a, <1>t DEF KnownInv
  <2>2. last_recv_ack_ack[t] \in Uint
    BY <1>a, <1>t DEF TypeOK
  <2>3. last_recv_ack_ack'[t] <= highest_acked_seq'[s]
    BY <2>1, <2>2, <1>b, <1>p, <1>q, <1>r, <1>w DEF Uint
  <2> QED
    BY <2>1, <2>3, <1>c, <1>q, <1>t DEF KnownInv, t
<1>4. MaskInv'
  <2>1. /\ \A i \in ack_mask[s] : last_seq_recvd[s] - i \in arrived[s]
        /\ \A n \in arrived[s] : n <= last_seq_recvd[s]
        /\ arrived[s] \subseteq Uint
    BY <1>a DEF MaskInv, TypeOK
  <2>2. ASSUME NEW i \in M PROVE p.seq - i \in arrived'[s]
    <3>1. CASE i = 0 /\ p.type = "data"
      BY <3>1, <1>q, <1>p, <1>w DEF Uint
    <3>2. CASE i - (p.seq - last_seq_recvd[s]) \in ack_mask[s]
      <4>1. last_seq_recvd[s] - (i - (p.seq - last_seq_recvd[s])) \in arrived[s]
        BY <3>2, <2>1
      <4>2. last_seq_recvd[s] - (i - (p.seq - last_seq_recvd[s])) = p.seq - i
        BY <1>m, <1>p, <1>r, <1>w DEF Uint
      <4> QED
        BY <4>1, <4>2, <1>q
    <3> QED
      BY <3>1, <3>2, <1>m
  <2>3. ASSUME NEW n \in arrived'[s] PROVE n <= p.seq
    BY <2>1, <1>q, <1>b, <1>p, <1>r, <1>w DEF Uint
  <2>4. /\ \A i \in ack_mask[t] : last_seq_recvd[t] - i \in arrived[t]
        /\ \A n \in arrived[t] : n <= last_seq_recvd[t]
    BY <1>a, <1>t DEF MaskInv
  <2> QED
    BY <2>2, <2>3, <2>4, <1>q, <1>t DEF MaskInv
<1>5. NetInv'
  <2> SUFFICES ASSUME NEW q \in net'
               PROVE  /\ q.seq <= last_send_seq[q.from]
                      /\ q.ack <= last_seq_recvd'[q.from]
                      /\ q.ack <= highest_acked_seq'[Peer(q.from)] + q.bits
                      /\ \A i \in q.mask : q.ack - i \in arrived'[q.from]
                      /\ q.type = "data" /\ q.seq > highest_acked_seq'[q.from]
                           => ring[q.from][q.seq % W] = q.ack
    BY <1>b DEF NetInv
  <2>1. CASE q \in net
    <3>1. /\ q.from \in Side /\ q.seq \in Uint /\ q.ack \in Uint /\ q.bits \in Nat
          /\ q.seq <= last_send_seq[q.from]
          /\ q.ack <= last_seq_recvd[q.from]
          /\ q.ack <= highest_acked_seq[Peer(q.from)] + q.bits
          /\ \A i \in q.mask : q.ack - i \in arrived[q.from]
          /\ q.type = "data" /\ q.seq > highest_acked_seq[q.from]
               => ring[q.from][q.seq % W] = q.ack
      BY <2>1, <1>a DEF TypeOK, NetInv
    <3>2. /\ arrived[q.from] \subseteq arrived'[q.from]
          /\ last_seq_recvd[q.from] <= last_seq_recvd'[q.from]
          /\ last_seq_recvd[q.from] \in Uint /\ last_seq_recvd'[q.from] \in Uint
      BY <3>1, <1>q, <1>t, <1>b, <1>p, <1>r, <1>w DEF Uint
    <3>3. \A u \in Side : /\ highest_acked_seq[u] <= highest_acked_seq'[u]
                          /\ highest_acked_seq[u] \in Uint /\ highest_acked_seq'[u] \in Uint
      BY <1>q, <1>t, <1>b, <1>p, <1>r, <1>w DEF Uint
    <3>4. q.ack <= last_seq_recvd'[q.from]
      BY <3>1, <3>2, <1>w DEF Uint
    <3>5. q.ack <= highest_acked_seq'[Peer(q.from)] + q.bits
      BY <3>1, <3>3, <1>w, PeerFacts DEF Uint
    <3>6. q.seq > highest_acked_seq'[q.from] => q.seq > highest_acked_seq[q.from]
      BY <3>1, <3>3, <1>w DEF Uint
    <3> QED
      BY <3>1, <3>2, <3>4, <3>5, <3>6
  <2>2. CASE q = h
    <3>1. q.seq <= last_send_seq[s] /\ q.ack <= last_seq_recvd'[s]
      BY <2>2, <1>h, <1>q, <1>p, <1>r, <1>w DEF Uint
    <3>2. q.ack <= highest_acked_seq'[t] + q.bits
      BY <2>2, <1>h, <1>q, <1>c, <1>p, <1>r, <1>w DEF Uint
    <3>3. \A i \in q.mask : q.ack - i \in arrived'[s]
      BY <2>2, <1>h, <1>q, <1>4 DEF MaskInv
    <3> QED
      BY <2>2, <3>1, <3>2, <3>3, <1>h DEF t
  <2> QED
    BY <2>1, <2>2, <1>b
<1>6. RingInv'
  <2> SUFFICES ASSUME NEW u \in Side, NEW n \in highest_acked_seq'[u] + 1 .. last_send_seq[u]
               PROVE  /\ ring[u][n % W] \in Uint
                      /\ n \in arrived'[Peer(u)]
                           => ring[u][n % W] <= highest_acked_seq'[Peer(u)]
    BY <1>b DEF RingInv
  <2>1. CASE u = s
    <3>1. n \in highest_acked_seq[s] + 1 .. last_send_seq[s]
      BY <2>1, <1>q, <1>b, <1>p, <1>r, <1>w DEF Uint
    <3> QED
      BY <3>1, <2>1, <1>a, <1>q DEF RingInv, t
  <2>2. CASE u = t
    <3>1. n \in highest_acked_seq[t] + 1 .. last_send_seq[t]
      BY <2>2, <1>q
    <3>2. /\ ring[t][n % W] \in Uint
          /\ n \in arrived[s] => ring[t][n % W] <= highest_acked_seq[s]
      BY <3>1, <1>a, <1>t DEF RingInv
    <3>3. CASE n \in arrived[s]
      <4>1. ring[t][n % W] <= p.ack
        BY <3>2, <3>3, <1>b, <1>p, <1>r, <1>w DEF Uint
      <4> QED
        BY <4>1, <2>2, <3>2, <1>q, <1>t
    <3>4. CASE n \notin arrived[s] /\ n \in arrived'[s]
      <4>1. p.type = "data" /\ n = p.seq
        BY <3>4, <1>q
      <4>2. p.seq > highest_acked_seq[t]
        BY <4>1, <3>1, <1>p, <1>r, <1>w DEF Uint
      <4>3. ring[t][n % W] = p.ack
        BY <4>1, <4>2, <1>p
      <4> QED
        BY <4>3, <2>2, <3>2, <1>q, <1>t, <1>p, <1>w DEF Uint
    <3> QED
      BY <3>2, <3>3, <3>4, <2>2, <1>t
  <2> QED
    BY <2>1, <2>2, <1>t
<1> QED
  BY <1>1, <1>2, <1>3, <1>4, <1>5, <1>6 DEF WindowInv

LEMMA SendPingWindow ==
    ASSUME NoWrap, WindowInv, NEW s \in Side, NEW d \in 1 .. PingTimeout + 1, SendPing(s, d)
    PROVE  WindowInv'
<1> DEFINE h == Header(s, "ping", last_send_seq[s], last_seq_recvd[s],
                       last_recv_ack_ack[s], ack_mask[s])
<1>a. TypeOK /\ OrderInv /\ KnownInv /\ NetInv /\ MaskInv /\ RingInv
  BY DEF WindowInv
<1>b. net' \subseteq net \cup {h}
  BY TransmitFacts DEF SendPing
<1>c. UNCHANGED <<status, sendVars, recvVars, eventVars>>
  BY DEF SendPing
<1>t. /\ ack_mask[s] \in SUBSET (0 .. W - 1) /\ last_seq_recvd[s] \in Uint
      /\ last_send_seq[s] \in Uint
  BY <1>a DEF TypeOK
<1>d. /\ h.from = s /\ h.type = "ping" /\ h.seq = last_send_seq[s]
      /\ h.ack = last_seq_recvd[s] /\ h.bits \in Nat
      /\ h.mask = {i \in ack_mask[s] : i < h.bits}
      /\ h.ack <= highest_acked_seq[Peer(s)] + h.bits
  BY <1>t, WrittenPacket DEF PacketType
<1> HIDE DEF h
<1>1. TypeOK'
  <2>1. \A p \in net' :
          /\ p.from \in Side /\ p.type \in PacketType
          /\ p.seq \in Uint /\ p.ack \in Uint
          /\ p.bits \in Nat /\ p.mask \in SUBSET (0 .. W - 1)
    BY <1>a, <1>b, <1>d, <1>t DEF TypeOK, PacketType
  <2>2. ping_send_count' \in [Side -> 0 .. PingRetryCount]
    <3>1. ping_send_count[s] \in 0 .. PingRetryCount /\ ping_send_count[s] < PingRetryCount
      BY <1>a DEF TypeOK, SendPing
    <3>2. ping_send_count[s] + 1 \in 0 .. PingRetryCount
      BY <3>1, BoundAssumption
    <3> QED
      BY <3>2, <1>a DEF TypeOK, SendPing
  <2>3. idle' \in [Side -> {Unset} \cup 0 .. PingTimeout]
    BY <1>a, BoundAssumption DEF TypeOK, SendPing
  <2> QED
    BY <1>a, <1>c, <2>1, <2>2, <2>3 DEF TypeOK, sendVars, recvVars, eventVars
<1>2. OrderInv' /\ KnownInv' /\ MaskInv' /\ RingInv'
  BY <1>a, <1>c DEF OrderInv, KnownInv, MaskInv, RingInv, sendVars, recvVars, eventVars
<1>3. NetInv'
  <2>1. /\ h.seq <= last_send_seq[s] /\ h.ack <= last_seq_recvd[s]
        /\ \A i \in h.mask : h.ack - i \in arrived[s]
    BY <1>a, <1>d, <1>t, UModType DEF MaskInv, Uint
  <2> QED
    BY <2>1, <1>a, <1>b, <1>c, <1>d DEF NetInv, sendVars, recvVars, eventVars
<1> QED
  BY <1>1, <1>2, <1>3 DEF WindowInv

\* Steps that touch only the network, by removal, the status or the timers.
LEMMA QuietWindow ==
    ASSUME WindowInv, net' \subseteq net,
           UNCHANGED <<sendVars, recvVars, eventVars>>,
           status' \in [Side -> {"up", "timed_out", "trapped"}],
           ping_send_count' \in [Side -> 0 .. PingRetryCount],
           idle' \in [Side -> {Unset} \cup 0 .. PingTimeout]
    PROVE  WindowInv'
<1>a. TypeOK /\ OrderInv /\ KnownInv /\ NetInv /\ MaskInv /\ RingInv
  BY DEF WindowInv
<1>1. TypeOK'
  BY <1>a DEF TypeOK, sendVars, recvVars, eventVars
<1>2. OrderInv' /\ KnownInv' /\ MaskInv' /\ RingInv'
  BY <1>a DEF OrderInv, KnownInv, MaskInv, RingInv, sendVars, recvVars, eventVars
<1>3. NetInv'
  BY <1>a DEF NetInv, sendVars, recvVars, eventVars
<1> QED
  BY <1>1, <1>2, <1>3 DEF WindowInv

\* The steps of check_timeout other than sending a ping only touch the timers.
LEMMA QuietSteps ==
    ASSUME TypeOK,
           \/ \E s \in Side : SendDataFull(s)
           \/ \E s \in Side : StartTimer(s)
           \/ \E s \in Side, d \in 1 .. PingTimeout + 1 : WaitTimer(s, d) \/ TimeOut(s, d)
           \/ \E s \in Side, p \in net : DiscardPacket(s, p)
           \/ \E p \in net : LosePacket(p)
           \/ UNCHANGED vars
    PROVE  /\ net' \subseteq net
           /\ UNCHANGED <<sendVars, recvVars, eventVars>>
           /\ status' \in [Side -> {"up", "timed_out", "trapped"}]
           /\ ping_send_count' \in [Side -> 0 .. PingRetryCount]
           /\ idle' \in [Side -> {Unset} \cup 0 .. PingTimeout]
<1>a. /\ status \in [Side -> {"up", "timed_out", "trapped"}]
      /\ ping_send_count \in [Side -> 0 .. PingRetryCount]
      /\ idle \in [Side -> {Unset} \cup 0 .. PingTimeout]
      /\ PingTimeout \in Nat
  BY BoundAssumption DEF TypeOK
<1>1. CASE \E s \in Side : SendDataFull(s)
  BY <1>1, <1>a DEF SendDataFull, timerVars
<1>2. CASE \E s \in Side : StartTimer(s)
  BY <1>2, <1>a DEF StartTimer
<1>3. CASE \E s \in Side, d \in 1 .. PingTimeout + 1 : WaitTimer(s, d)
  <2>1. PICK s \in Side, d \in 1 .. PingTimeout + 1 : WaitTimer(s, d)
    BY <1>3
  <2>2. idle[s] + d \in 0 .. PingTimeout
    BY <2>1, <1>a DEF WaitTimer, Unset
  <2> QED
    BY <2>1, <2>2, <1>a DEF WaitTimer
<1>4. CASE \E s \in Side, d \in 1 .. PingTimeout + 1 : TimeOut(s, d)
  BY <1>4, <1>a DEF TimeOut, timerVars
<1>5. CASE \E s \in Side, p \in net : DiscardPacket(s, p)
  BY <1>5, <1>a, DeliveredFacts DEF DiscardPacket, timerVars
<1>6. CASE \E p \in net : LosePacket(p)
  BY <1>6, <1>a DEF LosePacket, timerVars
<1>7. CASE UNCHANGED vars
  BY <1>7, <1>a DEF vars, timerVars
<1> QED
  BY <1>1, <1>2, <1>3, <1>4, <1>5, <1>6, <1>7

LEMMA NextWindow == NoWrap /\ WindowInv /\ [Next]_vars => WindowInv'
<1> SUFFICES ASSUME NoWrap, WindowInv, [Next]_vars PROVE WindowInv'
  OBVIOUS
<1>1. CASE \E s \in Side : SendData(s)
  BY <1>1, SendDataWindow
<1>2. CASE \E s \in Side, d \in 1 .. PingTimeout + 1 : SendPing(s, d)
  BY <1>2, SendPingWindow
<1>3. CASE \E s \in Side, p \in net : ReadPacket(s, p)
  BY <1>3, ReadPacketWindow
<1>4. CASE \/ \E s \in Side : SendDataFull(s)
           \/ \E s \in Side : StartTimer(s)
           \/ \E s \in Side, d \in 1 .. PingTimeout + 1 : WaitTimer(s, d) \/ TimeOut(s, d)
           \/ \E s \in Side, p \in net : DiscardPacket(s, p)
           \/ \E p \in net : LosePacket(p)
           \/ UNCHANGED vars
  BY <1>4, QuietSteps, QuietWindow DEF WindowInv
<1>5. \A s \in Sweeping : s \in Side
  BY BoundAssumption
<1> QED
  BY <1>1, <1>2, <1>3, <1>4, <1>5 DEF Next, CheckTimeout

\* The window invariant holds throughout every connection.
LEMMA WindowInvariant == NoWrap => (Spec => []WindowInv)
<1> SUFFICES ASSUME NoWrap PROVE Spec => []WindowInv
  OBVIOUS
<1>1. Init => WindowInv
  BY InitWindow
<1>2. WindowInv /\ [Next]_vars => WindowInv'
  BY NextWindow
<1> QED
  BY <1>1, <1>2, PTL DEF Spec

-----------------------------------------------------------------------------
(* The events posted to the application. *)

LEMMA HandedFacts ==
    ASSUME TypeOK, NEW s \in Side
    PROVE  /\ packet_events[s] \in Seq(PacketEvent)
           /\ Handed(s) \subseteq Uint
           /\ \A n : n \in Handed(s) <=> HandedOver(s, n)
<1>1. packet_events[s] \in Seq(PacketEvent)
  BY DEF TypeOK
<1>2. \A i \in 1 .. Len(packet_events[s]) : packet_events[s][i].payload \in Uint
  <2>1. \A i \in 1 .. Len(packet_events[s]) : packet_events[s][i] \in PacketEvent
    BY <1>1, ElementOfSeq
  <2> QED
    BY <2>1 DEF PacketEvent
<1> QED
  BY <1>1, <1>2 DEF Handed, HandedOver

\* A packet s writes from its registers flags everything that was handed over.
LEMMA WrittenFlags ==
    ASSUME NoWrap, WindowInv, FlagInv, NEW s \in Side,
           NEW type \in PacketType, NEW seq \in Uint,
           NEW n \in Handed(s)
    PROVE  LET h == Header(s, type, seq, last_seq_recvd[s],
                           last_recv_ack_ack[s], ack_mask[s])
           IN  h.ack - n < h.bits /\ h.ack - n < W => h.ack - n \in h.mask
<1> DEFINE h == Header(s, type, seq, last_seq_recvd[s], last_recv_ack_ack[s], ack_mask[s])
<1>1. h.ack = last_seq_recvd[s] /\ h.mask = {i \in ack_mask[s] : i < h.bits}
  BY WrittenPacket
<1>2. last_seq_recvd[s] - n < W => last_seq_recvd[s] - n \in ack_mask[s]
  BY DEF FlagInv
<1> HIDE DEF h
<1>3. h.ack - n < h.bits /\ h.ack - n < W => h.ack - n \in h.mask
  BY <1>1, <1>2
<1> QED
  BY <1>3 DEF h

\* Steps other than reading a packet leave the events alone and add to the
\* network at most a packet written from the registers.
LEMMA SendEvents ==
    ASSUME NoWrap, WindowInv, EventInv, NEW s \in Side,
           NEW type \in PacketType, NEW seq \in Uint,
           net' \subseteq net \cup {Header(s, type, seq, last_seq_recvd[s],
                                           last_recv_ack_ack[s], ack_mask[s])},
           UNCHANGED <<recvVars, eventVars>>
    PROVE  EventInv'
<1> DEFINE h == Header(s, type, seq, last_seq_recvd[s], last_recv_ack_ack[s], ack_mask[s])
<1>1. h.from = s
  BY WrittenPacket
<1>2. \A n \in Handed(s) : h.ack - n < h.bits /\ h.ack - n < W => h.ack - n \in h.mask
  BY WrittenFlags DEF EventInv
<1>3. net' \subseteq net \cup {h}
  OBVIOUS
<1> HIDE DEF h
<1>4. \A u : Handed(u)' = Handed(u)
  BY DEF Handed, eventVars
<1>5. FlagInv'
  <2> SUFFICES ASSUME NEW u \in Side, NEW n \in Handed(u)
               PROVE  /\ n <= last_seq_recvd[u]
                      /\ last_seq_recvd[u] - n < W => last_seq_recvd[u] - n \in ack_mask[u]
                      /\ \A p \in net' :
                           p.from = u /\ n <= p.ack /\ p.ack - n < p.bits /\ p.ack - n < W
                             => p.ack - n \in p.mask
    BY <1>4 DEF FlagInv, recvVars
  <2>1. /\ n <= last_seq_recvd[u]
        /\ last_seq_recvd[u] - n < W => last_seq_recvd[u] - n \in ack_mask[u]
        /\ \A p \in net :
             p.from = u /\ n <= p.ack /\ p.ack - n < p.bits /\ p.ack - n < W
               => p.ack - n \in p.mask
    BY DEF EventInv, FlagInv
  <2>2. u = s => (h.ack - n < h.bits /\ h.ack - n < W => h.ack - n \in h.mask)
    BY <1>2
  <2> QED
    BY <2>1, <2>2, <1>1, <1>3
<1>6. NotesInv'
  BY <1>4 DEF EventInv, NotesInv, recvVars, eventVars
<1>7. PacketInv'
  BY DEF EventInv, PacketInv, recvVars, eventVars
<1> QED
  BY <1>5, <1>6, <1>7 DEF EventInv

LEMMA QuietEvents ==
    ASSUME EventInv, net' \subseteq net, UNCHANGED <<recvVars, eventVars>>
    PROVE  EventInv'
<1>1. \A u : Handed(u)' = Handed(u)
  BY DEF Handed, eventVars
<1>2. FlagInv'
  BY <1>1 DEF EventInv, FlagInv, recvVars
<1>3. NotesInv'
  BY <1>1 DEF EventInv, NotesInv, recvVars, eventVars
<1>4. PacketInv'
  BY DEF EventInv, PacketInv, recvVars, eventVars
<1> QED
  BY <1>2, <1>3, <1>4 DEF EventInv

\* Reading a packet posts at most one packet event, with the newest number.
LEMMA ReadPacketEvents ==
    ASSUME NoWrap, WindowInv, NEW s \in Side, NEW p \in net, ReadPacket(s, p)
    PROVE  \/ packet_events' = packet_events
           \/ /\ p.type = "data" /\ last_seq_recvd[s] < p.seq
              /\ packet_events' = [packet_events EXCEPT
                    ![s] = Append(packet_events[s], [seq |-> p.seq, payload |-> p.seq])]
<1>1. p.from = Peer(s) /\ Fresh(s, p) /\ Accepts(s, p) /\ last_seq_recvd[s] <= p.seq
  BY ReadPacketFacts
<1>2. pk_sequence_number(s, p) = p.seq
  BY <1>1, Decoding
<1>3. p.seq \in Uint /\ last_seq_recvd[s] \in Uint
  BY DEF WindowInv, TypeOK
<1>4. CASE IsNewData(s, p)
  <2>1. p.type = "data" /\ last_seq_recvd[s] # p.seq
    BY <1>2, <1>4 DEF IsNewData
  <2>2. last_seq_recvd[s] < p.seq
    BY <2>1, <1>1, <1>3, UModType DEF Uint
  <2> QED
    BY <2>1, <2>2, <1>2, <1>4 DEF ReadPacket
<1>5. CASE ~IsNewData(s, p)
  BY <1>5 DEF ReadPacket
<1> QED
  BY <1>4, <1>5

\* The flag of the j-th newly acknowledged packet lies within mask and window.
LEMMA FlagIndex ==
    ASSUME NEW y \in Nat, NEW a \in Nat, NEW j \in Nat, NEW bits \in Nat, NEW w \in Nat,
           1 <= j, j <= y - a, y <= a + bits, y <= a + (w - 2)
    PROVE  /\ a + j \in Nat /\ a + j <= y
           /\ y - (a + j) < bits /\ y - (a + j) < w
OBVIOUS

\* An index counted from the end of what was notified is one counted from the start.
LEMMA ShiftedIndex ==
    ASSUME NEW a \in Nat, NEW b \in Nat, NEW i \in Nat
    PROVE  a + (i - (a - b)) = b + i
OBVIOUS

LEMMA ReadPacketPreservesEvents ==
    ASSUME NoWrap, WindowInv, EventInv, NEW s \in Side, NEW p \in net, ReadPacket(s, p)
    PROVE  EventInv'
<1> DEFINE t == Peer(s)
           k == NewAckAck(s, p)
           M == ShiftedMask(s, p)
           h == Header(s, "ack", last_send_seq[s], p.seq, k, M)
           x == p.seq
           L == last_seq_recvd[s]
           H == highest_acked_seq[s]
           posted == /\ p.type = "data" /\ L < x
                     /\ packet_events' = [packet_events EXCEPT
                          ![s] = Append(packet_events[s], [seq |-> x, payload |-> x])]
<1>t. t \in Side /\ Peer(t) = s /\ t # s /\ \A u \in Side : u = s \/ u = t
  BY PeerFacts
<1>a. TypeOK /\ OrderInv /\ KnownInv /\ NetInv /\ MaskInv /\ RingInv
  BY DEF WindowInv
<1>b. /\ p.from = t /\ Fresh(s, p) /\ Accepts(s, p)
      /\ L <= x /\ H <= p.ack /\ p.ack <= last_send_seq[s]
      /\ last_seq_recvd' = [last_seq_recvd EXCEPT ![s] = x]
      /\ highest_acked_seq' = [highest_acked_seq EXCEPT ![s] = p.ack]
      /\ ack_mask' = [ack_mask EXCEPT ![s] = M]
      /\ M = {i \in 0 .. W - 1 : i - (x - L) \in ack_mask[s]}
               \cup (IF p.type = "data" THEN {0} ELSE {})
      /\ net' \subseteq net \cup {h}
      /\ arrived' = IF p.type = "data"
                      THEN [arrived EXCEPT ![s] = @ \cup {x}] ELSE arrived
  BY ReadPacketFacts
<1>e. packet_events' = packet_events \/ posted
  BY ReadPacketEvents
<1>c. /\ k \in Uint /\ k <= highest_acked_seq[t] /\ k <= x
      /\ notify_count(s, p) = p.ack - H /\ notify_count(s, p) \in Nat
      /\ \A i \in 1 .. notify_count(s, p) :
           /\ notify_index(s, i) = H + i
           /\ packet_transmit_success(s, p, i) <=> p.ack - (H + i) \in p.mask
  BY <1>b, NewAckAckFacts
<1>p. /\ x \in Uint /\ p.ack \in Uint /\ p.bits \in Nat
      /\ p.ack <= H + p.bits
      /\ \A i \in p.mask : p.ack - i \in arrived[t]
  BY <1>a, <1>b, <1>t DEF TypeOK, NetInv
<1>r. /\ last_send_seq[s] \in Uint /\ L \in Uint /\ H \in Uint
      /\ highest_acked_seq[t] \in Uint /\ InitSeq[s] \in Uint /\ InitSeq[t] \in Uint
      /\ InitSeq[s] <= H /\ InitSeq[t] <= highest_acked_seq[t]
      /\ highest_acked_seq[t] <= L
      /\ last_send_seq[s] <= H + (W - 2)
  BY <1>a, <1>t, BoundAssumption DEF TypeOK, OrderInv
<1>w. W \in Nat /\ W >= 4 /\ UMod \in Nat \ {0}
  BY WindowAssumption, UModType
<1>z. /\ x \in Nat /\ L \in Nat /\ H \in Nat /\ p.ack \in Nat /\ p.bits \in Nat
      /\ InitSeq[s] \in Nat /\ W \in Nat /\ UMod \in Nat
      /\ L <= x /\ H <= p.ack /\ p.ack < UMod /\ InitSeq[s] <= H
      /\ p.ack <= H + p.bits /\ p.ack <= H + (W - 2)
  BY <1>b, <1>p, <1>r, <1>w DEF Uint
<1>m. M \in SUBSET (0 .. W - 1)
  BY <1>b, <1>w
<1>h. /\ h.from = s /\ h.ack = x /\ h.bits \in Nat /\ h.mask = {i \in M : i < h.bits}
  <2>1. p.seq \in Uint /\ k \in Uint /\ k <= p.seq
    BY <1>c, <1>p
  <2> DEFINE n == AckBits(p.seq, k)
  <2> HIDE DEF k, M
  <2>2. n \in Nat /\ p.seq <= k + n
    BY <2>1, AckBitsFacts
  <2>3. h = [from |-> s, type |-> "ack", seq |-> last_send_seq[s], ack |-> p.seq,
             bits |-> n, mask |-> {i \in M : i < n}]
    BY DEF Header
  <2> HIDE DEF n, h
  <2> QED
    BY <2>2, <2>3
<1>f. /\ packet_events[s] \in Seq(PacketEvent)
      /\ Handed(s) \subseteq Uint /\ Handed(t) \subseteq Uint
  BY <1>a, <1>t, HandedFacts
<1>x. x = p.seq
  OBVIOUS
<1> HIDE DEF k, M, h, t, x
<1>q. /\ last_seq_recvd'[s] = x /\ last_seq_recvd'[t] = last_seq_recvd[t]
      /\ highest_acked_seq'[s] = p.ack /\ highest_acked_seq'[t] = highest_acked_seq[t]
      /\ ack_mask'[s] = M /\ ack_mask'[t] = ack_mask[t]
      /\ arrived[s] \subseteq arrived'[s] /\ arrived'[t] = arrived[t]
      /\ packet_events'[t] = packet_events[t]
  BY <1>a, <1>b, <1>e, <1>t DEF TypeOK
<1>g. /\ Handed(t)' = Handed(t)
      /\ \A n \in Handed(s)' : n \in Handed(s) \/ (n = x /\ p.type = "data" /\ L < x)
  <2>1. Handed(t)' = Handed(t)
    BY <1>q DEF Handed
  <2>2. CASE packet_events' = packet_events
    BY <2>1, <2>2 DEF Handed
  <2>3. CASE posted
    <3>1. packet_events'[s] = Append(packet_events[s], [seq |-> x, payload |-> x])
      BY <2>3, <1>a DEF TypeOK
    <3>2. /\ Len(packet_events'[s]) = Len(packet_events[s]) + 1
          /\ Len(packet_events[s]) \in Nat
          /\ packet_events'[s][Len(packet_events[s]) + 1] = [seq |-> x, payload |-> x]
          /\ \A i \in 1 .. Len(packet_events[s]) : packet_events'[s][i] = packet_events[s][i]
      BY <3>1, <1>f
    <3>3. ASSUME NEW i \in 1 .. Len(packet_events'[s])
          PROVE  packet_events'[s][i].payload \in Handed(s) \cup {x}
      <4>1. CASE i = Len(packet_events[s]) + 1
        BY <4>1, <3>2
      <4>2. CASE i # Len(packet_events[s]) + 1
        <5>1. i \in 1 .. Len(packet_events[s])
          BY <4>2, <3>2
        <5> QED
          BY <5>1, <3>2 DEF Handed
      <4> QED
        BY <4>1, <4>2
    <3> QED
      BY <3>3, <2>1, <2>3 DEF Handed
  <2> QED
    BY <2>2, <2>3, <1>e
<1>1. FlagInv'
  <2> SUFFICES ASSUME NEW u \in Side, NEW n \in Handed(u)'
               PROVE  /\ n <= last_seq_recvd'[u]
                      /\ last_seq_recvd'[u] - n < W => last_seq_recvd'[u] - n \in ack_mask'[u]
                      /\ \A q \in net' :
                           q.from = u /\ n <= q.ack /\ q.ack - n < q.bits /\ q.ack - n < W
                             => q.ack - n \in q.mask
    BY DEF FlagInv
  <2>1. CASE u = t
    BY <2>1, <1>g, <1>q, <1>b, <1>h, <1>t DEF EventInv, FlagInv
  <2>2. CASE u = s
    <3>1. n \in Uint
      BY <2>2, <1>g, <1>f, <1>p
    <3>2. n <= x /\ (x - n < W => x - n \in M)
      <4>1. CASE n \in Handed(s)
        <5>1. n <= L /\ (L - n < W => L - n \in ack_mask[s])
          BY <4>1 DEF EventInv, FlagInv
        <5>2. n <= x
          BY <5>1, <3>1, <1>b, <1>p, <1>r, <1>w DEF Uint
        <5>3. ASSUME x - n < W PROVE x - n \in M
          <6>1. L - n < W /\ x - n \in 0 .. W - 1 /\ (x - n) - (x - L) = L - n
            BY <5>2, <5>3, <3>1, <1>b, <1>p, <1>r, <1>w DEF Uint
          <6> QED
            BY <6>1, <5>1, <1>b
        <5> QED
          BY <5>2, <5>3
      <4>2. CASE n = x /\ p.type = "data"
        BY <4>2, <1>b, <1>p, <1>w DEF Uint
      <4> QED
        BY <4>1, <4>2, <2>2, <1>g
    <3>3. ASSUME NEW q \in net', q.from = s, n <= q.ack, q.ack - n < q.bits, q.ack - n < W
          PROVE  q.ack - n \in q.mask
      <4>1. CASE q \in net
        <5>1. q.ack <= L /\ q.ack \in Uint
          BY <4>1, <3>3, <1>a DEF TypeOK, NetInv
        <5>2. ~(L < n)
          BY <5>1, <3>1, <3>3, <1>r, <1>w DEF Uint
        <5>3. n \in Handed(s)
          BY <5>2, <2>2, <1>g
        <5> QED
          BY <5>3, <4>1, <3>3 DEF EventInv, FlagInv
      <4>2. CASE q = h
        BY <4>2, <3>2, <3>3, <1>h
      <4> QED
        BY <4>1, <4>2, <1>b
    <3> QED
      BY <2>2, <3>2, <3>3, <1>q
  <2> QED
    BY <2>1, <2>2, <1>t
<1>2. NotesInv'
  <2> DEFINE ne == notify_events[s]
             nn == NewNotifyEvents(s, p)
  <2>1. notify_events' = [notify_events EXCEPT ![s] = ne \o nn]
    BY DEF ReadPacket
  <2>2. notify_events'[s] = ne \o nn /\ notify_events'[t] = notify_events[t]
    BY <2>1, <1>a, <1>t DEF TypeOK
  <2>3. /\ ne \in Seq(NotifyEvent)
        /\ Len(ne) = H - InitSeq[s] /\ Len(ne) \in Nat
        /\ \A i \in 1 .. Len(ne) :
             /\ ne[i].seq = InitSeq[s] + i
             /\ ne[i].delivered => InitSeq[s] + i \in arrived[t]
             /\ ~ne[i].delivered => InitSeq[s] + i \notin Handed(t)
    BY <1>a DEF TypeOK, EventInv, NotesInv, t
  <2>4. /\ Len(nn) = p.ack - H /\ Len(nn) \in Nat
        /\ nn = [i \in 1 .. Len(nn) |->
                  [seq |-> notify_index(s, i), delivered |-> packet_transmit_success(s, p, i)]]
    BY <1>c DEF NewNotifyEvents
  <2>l. Len(nn) = p.ack - H /\ Len(nn) \in Nat /\ Len(ne) = H - InitSeq[s] /\ Len(ne) \in Nat
    BY <2>3, <2>4
  <2> HIDE DEF ne, nn
  <2>5. ASSUME NEW j \in 1 .. Len(nn)
        PROVE  /\ nn[j].seq = H + j
               /\ nn[j].delivered => H + j \in arrived[t]
               /\ ~nn[j].delivered => H + j \notin Handed(t)
    <3> DEFINE n == H + j
    <3>0. j \in Nat /\ 1 <= j /\ j <= p.ack - H
      BY <2>l
    <3>1. nn[j] = [seq |-> notify_index(s, j), delivered |-> packet_transmit_success(s, p, j)]
      BY <2>4
    <3>2. /\ notify_index(s, j) = n
          /\ packet_transmit_success(s, p, j) <=> p.ack - n \in p.mask
      BY <1>c, <2>4
    <3>3. n \in Nat /\ n <= p.ack /\ p.ack - n < p.bits /\ p.ack - n < W
      BY <3>0, <1>z, FlagIndex
    <3> HIDE DEF n
    <3>4. p.ack - n \in p.mask => n \in arrived[t]
      <4>1. p.ack - (p.ack - n) = n
        BY <3>3, <1>p, <1>w DEF Uint
      <4> QED
        BY <4>1, <1>p
    <3>5. n \in Handed(t) => p.ack - n \in p.mask
      BY <3>3, <1>b, <1>t DEF EventInv, FlagInv
    <3>6. nn[j].seq = n /\ (nn[j].delivered <=> p.ack - n \in p.mask)
      BY <3>1, <3>2
    <3> QED
      BY <3>4, <3>5, <3>6 DEF n
  <2>6. nn \in Seq(NotifyEvent)
    <3>1. \A i \in 1 .. Len(nn) : notify_index(s, i) \in Uint
      <4>1. \A i \in 1 .. p.ack - H : H + i \in Uint
        BY <1>z DEF Uint
      <4> QED
        BY <4>1, <2>l, <1>c
    <3>2. \A i \in 1 .. Len(nn) :
            [seq |-> notify_index(s, i),
             delivered |-> packet_transmit_success(s, p, i)] \in NotifyEvent
      BY <3>1 DEF NotifyEvent, packet_transmit_success
    <3> QED
      BY <3>2, <2>4, IsASeq
  <2>7. /\ Len(ne \o nn) = Len(ne) + Len(nn)
        /\ \A i \in 1 .. Len(ne) + Len(nn) :
             (ne \o nn)[i] = IF i <= Len(ne) THEN ne[i] ELSE nn[i - Len(ne)]
    BY <2>3, <2>6, ConcatProperties
  <2>8. Len(ne \o nn) = p.ack - InitSeq[s]
    <3>1. Len(ne \o nn) = Len(ne) + Len(nn)
      BY <2>7
    <3>2. H \in Int /\ p.ack \in Int /\ InitSeq[s] \in Int
      BY <1>z
    <3> QED
      BY <3>1, <3>2, <2>l
  <2>9. ASSUME NEW i \in 1 .. Len(ne \o nn)
        PROVE  /\ (ne \o nn)[i].seq = InitSeq[s] + i
               /\ (ne \o nn)[i].delivered => InitSeq[s] + i \in arrived[t]
               /\ ~(ne \o nn)[i].delivered => InitSeq[s] + i \notin Handed(t)
    <3>1. CASE i <= Len(ne)
      BY <3>1, <2>3, <2>4, <2>7
    <3>2. CASE ~(i <= Len(ne))
      <4> DEFINE j == i - Len(ne)
      <4>1. i \in 1 .. Len(ne) + Len(nn) /\ j \in 1 .. Len(nn)
        BY <3>2, <2>l, <2>7
      <4>2. i \in Nat /\ j = i - (H - InitSeq[s])
        BY <4>1, <2>l
      <4>3. H + j = InitSeq[s] + i
        <5>1. H \in Nat /\ InitSeq[s] \in Nat
          BY <1>z
        <5> HIDE DEF j, H
        <5> QED
          BY <5>1, <4>2, ShiftedIndex
      <4>4. (ne \o nn)[i] = nn[j]
        BY <4>1, <3>2, <2>7
      <4> HIDE DEF j
      <4> QED
        BY <4>1, <4>3, <4>4, <2>5
    <3> QED
      BY <3>1, <3>2
  <2>10. ASSUME NEW i \in 1 .. Len(notify_events[t])
         PROVE  /\ notify_events[t][i].seq = InitSeq[t] + i
                /\ notify_events[t][i].delivered => InitSeq[t] + i \in arrived'[s]
                /\ ~notify_events[t][i].delivered => InitSeq[t] + i \notin Handed(s)'
    <3>1. /\ notify_events[t][i].seq = InitSeq[t] + i
          /\ notify_events[t][i].delivered => InitSeq[t] + i \in arrived[s]
          /\ ~notify_events[t][i].delivered => InitSeq[t] + i \notin Handed(s)
          /\ Len(notify_events[t]) = highest_acked_seq[t] - InitSeq[t]
      BY <1>t DEF EventInv, NotesInv
    <3>2. InitSeq[t] + i <= L
      BY <3>1, <1>r, <1>w DEF Uint
    <3>3. L < x => InitSeq[t] + i # x
      BY <3>2, <1>p, <1>r, <1>w DEF Uint
    <3> QED
      BY <3>1, <3>3, <1>g, <1>q
  <2>11. Len(notify_events[t]) = highest_acked_seq[t] - InitSeq[t]
    BY <1>t DEF EventInv, NotesInv
  <2>12. /\ Len(notify_events'[s]) = highest_acked_seq'[s] - InitSeq[s]
         /\ \A i \in 1 .. Len(notify_events'[s]) :
              /\ notify_events'[s][i].seq = InitSeq[s] + i
              /\ notify_events'[s][i].delivered => InitSeq[s] + i \in arrived'[Peer(s)]
              /\ ~notify_events'[s][i].delivered => InitSeq[s] + i \notin Handed(Peer(s))'
    BY <2>2, <2>8, <2>9, <1>g, <1>q DEF t
  <2>13. /\ Len(notify_events'[t]) = highest_acked_seq'[t] - InitSeq[t]
         /\ \A i \in 1 .. Len(notify_events'[t]) :
              /\ notify_events'[t][i].seq = InitSeq[t] + i
              /\ notify_events'[t][i].delivered => InitSeq[t] + i \in arrived'[Peer(t)]
              /\ ~notify_events'[t][i].delivered => InitSeq[t] + i \notin Handed(Peer(t))'
    BY <2>2, <2>10, <2>11, <1>q, <1>t
  <2> QED
    BY <2>12, <2>13, <1>t DEF NotesInv
<1>3. PacketInv'
  <2>1. \A i \in 1 .. Len(packet_events[t]) :
          /\ packet_events[t][i].seq = packet_events[t][i].payload
          /\ InitSeq[s] < packet_events[t][i].payload
          /\ packet_events[t][i].payload <= last_seq_recvd[t]
          /\ i > 1 => packet_events[t][i - 1].payload < packet_events[t][i].payload
    BY <1>t DEF EventInv, PacketInv
  <2>2. \A i \in 1 .. Len(packet_events[s]) :
          /\ packet_events[s][i].seq = packet_events[s][i].payload
          /\ InitSeq[t] < packet_events[s][i].payload
          /\ packet_events[s][i].payload <= L
          /\ packet_events[s][i].payload \in Uint
          /\ i > 1 => packet_events[s][i - 1].payload < packet_events[s][i].payload
    BY <1>f DEF EventInv, PacketInv, Handed, t
  <2>u. \A y \in Uint : y <= L => y <= x /\ (L < x => y < x)
    BY <1>z DEF Uint
  <2>3. \A i \in 1 .. Len(packet_events[s]) : packet_events[s][i].payload <= x
    BY <2>2, <2>u
  <2>4. CASE packet_events' = packet_events
    BY <2>1, <2>2, <2>3, <2>4, <1>q, <1>t DEF PacketInv, t
  <2>5. CASE posted
    <3> DEFINE pe == packet_events[s]
               e == [seq |-> x, payload |-> x]
    <3>0. L < x
      BY <2>5
    <3>1. packet_events'[s] = Append(pe, e)
      BY <2>5, <1>a DEF TypeOK
    <3>2. /\ Len(Append(pe, e)) = Len(pe) + 1 /\ Len(pe) \in Nat
          /\ Append(pe, e)[Len(pe) + 1] = e
          /\ \A i \in 1 .. Len(pe) : Append(pe, e)[i] = pe[i]
      BY <1>f
    <3>3. InitSeq[t] < x
      BY <2>5, <1>p, <1>r, <1>w DEF Uint
    <3>4. ASSUME NEW i \in 1 .. Len(pe) + 1
          PROVE  /\ Append(pe, e)[i].seq = Append(pe, e)[i].payload
                 /\ InitSeq[t] < Append(pe, e)[i].payload
                 /\ Append(pe, e)[i].payload <= x
                 /\ i > 1 => Append(pe, e)[i - 1].payload < Append(pe, e)[i].payload
      <4>1. CASE i = Len(pe) + 1
        <5>1. ASSUME i > 1 PROVE pe[i - 1].payload < x
          <6>1. i - 1 \in 1 .. Len(pe)
            BY <4>1, <5>1, <3>2
          <6>2. pe[i - 1].payload <= L /\ pe[i - 1].payload \in Uint
            BY <6>1, <2>2
          <6> QED
            BY <6>2, <3>0, <2>u
        <5>2. i > 1 => Append(pe, e)[i - 1] = pe[i - 1]
          BY <4>1, <3>2
        <5>3. x <= x
          BY <1>p, <1>w DEF Uint
        <5> QED
          BY <4>1, <5>1, <5>2, <5>3, <3>2, <3>3
      <4>2. CASE i # Len(pe) + 1
        <5>1. i \in 1 .. Len(pe) /\ (i > 1 => i - 1 \in 1 .. Len(pe))
          BY <4>2, <3>2
        <5>2. Append(pe, e)[i] = pe[i] /\ (i > 1 => Append(pe, e)[i - 1] = pe[i - 1])
          BY <5>1, <3>2
        <5> QED
          BY <5>1, <5>2, <2>2, <2>3
      <4> QED
        BY <4>1, <4>2
    <3> HIDE DEF pe, e
    <3>5. \A i \in 1 .. Len(packet_events'[s]) :
            /\ packet_events'[s][i].seq = packet_events'[s][i].payload
            /\ InitSeq[Peer(s)] < packet_events'[s][i].payload
            /\ packet_events'[s][i].payload <= last_seq_recvd'[s]
            /\ i > 1 => packet_events'[s][i - 1].payload < packet_events'[s][i].payload
      BY <3>1, <3>2, <3>4, <1>q DEF t
    <3> QED
      BY <3>5, <2>1, <1>q, <1>t DEF PacketInv
  <2> QED
    BY <2>4, <2>5, <1>e
<1> QED
  BY <1>1, <1>2, <1>3 DEF EventInv

LEMMA InitEvents == NoWrap /\ Init => EventInv
<1> SUFFICES ASSUME Init PROVE EventInv
  OBVIOUS
<1>1. \A s \in Side : packet_events[s] = << >> /\ notify_events[s] = << >>
  BY DEF Init
<1>2. \A s \in Side : Handed(s) = {}
  BY <1>1 DEF Handed
<1>3. FlagInv
  BY <1>2 DEF FlagInv
<1>4. NotesInv
  <2>1. \A s \in Side : highest_acked_seq[s] - InitSeq[s] = 0
    BY BoundAssumption, UModType DEF Init, Uint
  <2> QED
    BY <1>1, <2>1 DEF NotesInv
<1>5. PacketInv
  BY <1>1 DEF PacketInv
<1> QED
  BY <1>3, <1>4, <1>5 DEF EventInv

LEMMA NextEvents == NoWrap /\ WindowInv /\ EventInv /\ [Next]_vars => EventInv'
<1> SUFFICES ASSUME NoWrap, WindowInv, EventInv, [Next]_vars PROVE EventInv'
  OBVIOUS
<1>1. ASSUME NEW s \in Side, SendData(s) PROVE EventInv'
  <2>1. UNCHANGED <<recvVars, eventVars>>
    BY <1>1 DEF SendData
  <2> QED
    BY <2>1, <1>1, SendDataFacts, SendEvents DEF PacketType
<1>2. ASSUME NEW s \in Side, NEW d \in 1 .. PingTimeout + 1, SendPing(s, d) PROVE EventInv'
  <2>1. UNCHANGED <<recvVars, eventVars>>
    BY <1>2 DEF SendPing
  <2>2. net' \subseteq net \cup {Header(s, "ping", last_send_seq[s], last_seq_recvd[s],
                                        last_recv_ack_ack[s], ack_mask[s])}
    BY <1>2, TransmitFacts DEF SendPing
  <2>3. last_send_seq[s] \in Uint
    BY DEF WindowInv, TypeOK
  <2> QED
    BY <2>1, <2>2, <2>3, SendEvents DEF PacketType
<1>3. ASSUME NEW s \in Side, NEW p \in net, ReadPacket(s, p) PROVE EventInv'
  BY <1>3, ReadPacketPreservesEvents
<1>4. CASE \/ \E s \in Side : SendDataFull(s)
           \/ \E s \in Side : StartTimer(s)
           \/ \E s \in Side, d \in 1 .. PingTimeout + 1 : WaitTimer(s, d) \/ TimeOut(s, d)
           \/ \E s \in Side, p \in net : DiscardPacket(s, p)
           \/ \E p \in net : LosePacket(p)
           \/ UNCHANGED vars
  BY <1>4, QuietSteps, QuietEvents DEF WindowInv
<1>5. \A s \in Sweeping : s \in Side
  BY BoundAssumption
<1> QED
  BY <1>1, <1>2, <1>3, <1>4, <1>5 DEF Next, CheckTimeout

LEMMA EventInvariant == NoWrap => (Spec => [](WindowInv /\ EventInv))
<1> SUFFICES ASSUME NoWrap PROVE Spec => [](WindowInv /\ EventInv)
  OBVIOUS
<1>1. Init => WindowInv /\ EventInv
  BY InitWindow, InitEvents
<1>2. WindowInv /\ EventInv /\ [Next]_vars => (WindowInv /\ EventInv)'
  BY NextWindow, NextEvents
<1> QED
  BY <1>1, <1>2, PTL DEF Spec

-----------------------------------------------------------------------------
(* What the invariants give. *)

LEMMA WindowOrderFollows == NoWrap /\ WindowInv => WindowOrder /\ AckAckIsKnown
<1> SUFFICES ASSUME NoWrap, WindowInv, NEW s \in Side
             PROVE  /\ Sub(last_seq_recvd[Peer(s)], highest_acked_seq[s])
                         <= Sub(last_send_seq[s], highest_acked_seq[s])
                    /\ Sub(last_send_seq[s], highest_acked_seq[s]) <= W - 2
                    /\ Sub(last_seq_recvd[s], highest_acked_seq[Peer(s)])
                         <= Sub(last_seq_recvd[s], last_recv_ack_ack[s])
                    /\ Sub(last_seq_recvd[s], last_recv_ack_ack[s]) <= W
  BY DEF WindowOrder, AckAckIsKnown
<1> DEFINE t == Peer(s)
<1>t. t \in Side /\ Peer(t) = s
  BY PeerFacts
<1>a. TypeOK /\ OrderInv /\ KnownInv
  BY DEF WindowInv
<1>r. /\ last_send_seq[s] \in Uint /\ last_seq_recvd[s] \in Uint /\ last_seq_recvd[t] \in Uint
      /\ highest_acked_seq[s] \in Uint /\ highest_acked_seq[t] \in Uint
      /\ last_recv_ack_ack[s] \in Uint
  BY <1>a, <1>t, Registers
<1>o. /\ highest_acked_seq[s] <= last_seq_recvd[t] /\ last_seq_recvd[t] <= last_send_seq[s]
      /\ last_send_seq[s] <= highest_acked_seq[s] + (W - 2)
      /\ highest_acked_seq[t] <= last_seq_recvd[s]
      /\ last_recv_ack_ack[s] <= highest_acked_seq[t]
      /\ last_seq_recvd[s] <= last_recv_ack_ack[s] + W
  BY <1>a, <1>t DEF OrderInv, KnownInv
<1>w. W \in Nat /\ UMod \in Nat
  BY WindowAssumption, UModType
<1> HIDE DEF t
<1>1. highest_acked_seq[s] <= last_send_seq[s] /\ last_recv_ack_ack[s] <= last_seq_recvd[s]
  BY <1>o, <1>r, <1>w DEF Uint
<1>2. /\ Sub(last_seq_recvd[t], highest_acked_seq[s]) = last_seq_recvd[t] - highest_acked_seq[s]
      /\ Sub(last_send_seq[s], highest_acked_seq[s]) = last_send_seq[s] - highest_acked_seq[s]
      /\ Sub(last_seq_recvd[s], highest_acked_seq[t]) = last_seq_recvd[s] - highest_acked_seq[t]
      /\ Sub(last_seq_recvd[s], last_recv_ack_ack[s]) = last_seq_recvd[s] - last_recv_ack_ack[s]
  BY <1>1, <1>o, <1>r, SubExact
<1>3. /\ Sub(last_seq_recvd[t], highest_acked_seq[s])
           <= Sub(last_send_seq[s], highest_acked_seq[s])
      /\ Sub(last_send_seq[s], highest_acked_seq[s]) <= W - 2
      /\ Sub(last_seq_recvd[s], highest_acked_seq[t])
           <= Sub(last_seq_recvd[s], last_recv_ack_ack[s])
      /\ Sub(last_seq_recvd[s], last_recv_ack_ack[s]) <= W
  BY <1>2, <1>o, <1>r, <1>w DEF Uint
<1> QED
  BY <1>3 DEF t

LEMMA DecodingFollows == NoWrap /\ WindowInv => NotifyBitsSent /\ DecodedExactly /\ OnlyStaleDiscarded
<1> SUFFICES ASSUME NoWrap, WindowInv, NEW s \in Side, NEW p \in net,
                    p.from = Peer(s), Fresh(s, p)
             PROVE  /\ Accepts(s, p) => notify_count(s, p) <= p.bits
                    /\ Accepts(s, p) => /\ pk_sequence_number(s, p) = p.seq
                                        /\ pk_highest_ack(s, p) = p.ack
                    /\ /\ Sub(p.seq, last_seq_recvd[s]) <= W - 1
                       /\ Sub(p.ack, highest_acked_seq[s])
                            <= Sub(last_send_seq[s], highest_acked_seq[s])
                       => Accepts(s, p)
  BY DEF NotifyBitsSent, DecodedExactly, OnlyStaleDiscarded
<1>a. TypeOK /\ OrderInv /\ NetInv
  BY DEF WindowInv
<1>t. Peer(s) \in Side /\ Peer(Peer(s)) = s
  BY PeerFacts
<1>r. /\ last_send_seq[s] \in Uint /\ last_seq_recvd[s] \in Uint /\ highest_acked_seq[s] \in Uint
      /\ last_send_seq[s] + SeqMod + AckMod < UMod
      /\ last_send_seq[Peer(s)] + SeqMod + AckMod < UMod
      /\ last_send_seq[Peer(s)] \in Uint /\ last_seq_recvd[Peer(s)] \in Uint
  BY <1>a, <1>t, Registers
<1>p. /\ p.seq \in Uint /\ p.ack \in Uint /\ p.bits \in Nat
      /\ p.ack <= highest_acked_seq[s] + p.bits
      /\ p.seq <= last_send_seq[Peer(s)]
  BY <1>a, <1>t DEF TypeOK, NetInv
<1>o. /\ highest_acked_seq[s] <= last_seq_recvd[Peer(s)]
      /\ last_seq_recvd[Peer(s)] <= last_send_seq[s]
      /\ last_seq_recvd[s] <= last_send_seq[Peer(s)]
  BY <1>a, <1>t DEF OrderInv
<1>w. /\ W \in Nat /\ W >= 4 /\ UMod \in Nat \ {0} /\ SeqMod \in Nat /\ AckMod \in Nat
      /\ W <= SeqMod
  BY WindowAssumption, ModulusAssumption
<1>1. ASSUME Accepts(s, p) PROVE notify_count(s, p) <= p.bits
  <2>1. notify_count(s, p) = p.ack - highest_acked_seq[s]
    BY <1>1, NewAckAckFacts
  <2> QED
    BY <2>1, <1>p, <1>r, <1>w DEF Uint
<1>2. Accepts(s, p) => pk_sequence_number(s, p) = p.seq /\ pk_highest_ack(s, p) = p.ack
  BY Decoding
<1>3. ASSUME ~Accepts(s, p)
      PROVE  \/ Sub(p.seq, last_seq_recvd[s]) > W - 1
             \/ Sub(p.ack, highest_acked_seq[s]) > Sub(last_send_seq[s], highest_acked_seq[s])
  <2>1. p.seq < last_seq_recvd[s] \/ p.ack < highest_acked_seq[s]
    BY <1>3, <1>p, <1>r, <1>w, Decoding DEF Uint
  <2>2. CASE p.seq < last_seq_recvd[s]
    <3>1. Sub(p.seq, last_seq_recvd[s]) = p.seq - last_seq_recvd[s] + UMod
      BY <2>2, <1>p, <1>r, SubNegative
    <3> QED
      BY <3>1, <1>o, <1>p, <1>r, <1>w DEF Uint
  <2>3. CASE p.ack < highest_acked_seq[s]
    <3>1. Sub(p.ack, highest_acked_seq[s]) = p.ack - highest_acked_seq[s] + UMod
      BY <2>3, <1>p, <1>r, SubNegative
    <3>2. highest_acked_seq[s] <= last_send_seq[s]
      BY <1>o, <1>r, <1>w DEF Uint
    <3>3. Sub(last_send_seq[s], highest_acked_seq[s]) = last_send_seq[s] - highest_acked_seq[s]
      BY <3>2, <1>r, SubExact
    <3> QED
      BY <3>1, <3>3, <1>p, <1>r, <1>w DEF Uint
  <2> QED
    BY <2>1, <2>2, <2>3
<1>4. /\ Sub(p.seq, last_seq_recvd[s]) \in Int /\ Sub(p.ack, highest_acked_seq[s]) \in Int
      /\ Sub(last_send_seq[s], highest_acked_seq[s]) \in Int
  <2>1. Uint \subseteq Int
    BY DEF Uint
  <2> QED
    BY <2>1, <1>p, <1>r, AddSubType
<1> QED
  BY <1>1, <1>2, <1>3, <1>4, <1>w

LEMMA EventsFollow ==
    NoWrap /\ WindowInv /\ EventInv
      => NotifiedOnceInOrder /\ PacketsInOrder /\ NackIsFinal /\ AckMeansArrived
<1> SUFFICES ASSUME NoWrap, WindowInv, EventInv
             PROVE  NotifiedOnceInOrder /\ PacketsInOrder /\ NackIsFinal /\ AckMeansArrived
  OBVIOUS
<1>a. TypeOK /\ OrderInv /\ NotesInv /\ PacketInv
  BY DEF WindowInv, EventInv
<1>1. ASSUME NEW s \in Side, NEW i \in 1 .. Len(notify_events[s])
      PROVE  /\ Add(InitSeq[s], i) = InitSeq[s] + i
             /\ notify_events[s][i].seq = InitSeq[s] + i
  <2>1. /\ Len(notify_events[s]) = highest_acked_seq[s] - InitSeq[s]
        /\ notify_events[s][i].seq = InitSeq[s] + i
    BY <1>a DEF NotesInv
  <2>2. InitSeq[s] \in Nat /\ highest_acked_seq[s] \in Nat /\ highest_acked_seq[s] < UMod
    BY <1>a, Registers, UModType DEF Uint
  <2>3. i \in Nat /\ InitSeq[s] + i < UMod
    BY <2>1, <2>2, UModType
  <2> QED
    BY <2>1, <2>2, <2>3, AddExact
<1>2. NotifiedOnceInOrder
  <2>1. ASSUME NEW s \in Side
        PROVE  Len(notify_events[s]) = Sub(highest_acked_seq[s], InitSeq[s])
    <3>1. InitSeq[s] \in Uint /\ highest_acked_seq[s] \in Uint /\ InitSeq[s] <= highest_acked_seq[s]
      BY <1>a, Registers DEF OrderInv
    <3> QED
      BY <3>1, <1>a, SubExact DEF NotesInv
  <2> QED
    BY <2>1, <1>1 DEF NotifiedOnceInOrder
<1>3. PacketsInOrder
  <2> SUFFICES ASSUME NEW s \in Side, NEW i \in 1 .. Len(packet_events[s])
               PROVE  /\ packet_events[s][i].seq = packet_events[s][i].payload
                      /\ i > 1 => Sub(packet_events[s][i - 1].seq, InitSeq[Peer(s)])
                                    < Sub(packet_events[s][i].seq, InitSeq[Peer(s)])
    BY DEF PacketsInOrder
  <2> DEFINE b == InitSeq[Peer(s)]
             v(j) == packet_events[s][j].payload
  <2>1. b \in Uint
    BY PeerFacts, BoundAssumption
  <2>2. \A j \in 1 .. Len(packet_events[s]) : v(j) \in Uint /\ b < v(j)
    <3>1. \A j \in 1 .. Len(packet_events[s]) : v(j) \in Uint
      BY <1>a, HandedFacts DEF Handed
    <3> QED
      BY <3>1, <1>a DEF PacketInv
  <2>3. \A j \in 1 .. Len(packet_events[s]) : Sub(v(j), b) = v(j) - b
    BY <2>1, <2>2, SubExact, UModType DEF Uint
  <2>4. ASSUME i > 1 PROVE Sub(v(i - 1), b) < Sub(v(i), b)
    <3>1. i - 1 \in 1 .. Len(packet_events[s])
      <4>1. Len(packet_events[s]) \in Nat
        BY <1>a, HandedFacts
      <4> QED
        BY <2>4, <4>1
    <3>2. v(i - 1) < v(i)
      BY <2>4, <1>a DEF PacketInv
    <3>3. /\ v(i) \in Uint /\ v(i - 1) \in Uint /\ Sub(v(i), b) = v(i) - b
          /\ Sub(v(i - 1), b) = v(i - 1) - b
      BY <2>2, <2>3, <3>1
    <3> HIDE DEF v, b
    <3> QED
      BY <2>1, <3>2, <3>3, UModType DEF Uint
  <2>5. \A j \in 1 .. Len(packet_events[s]) : packet_events[s][j].seq = v(j)
    BY <1>a DEF PacketInv
  <2>6. i > 1 => i - 1 \in 1 .. Len(packet_events[s])
    <3>1. Len(packet_events[s]) \in Nat
      BY <1>a, HandedFacts
    <3> QED
      BY <3>1
  <2> QED
    BY <2>4, <2>5, <2>6
<1>4. NackIsFinal /\ AckMeansArrived
  <2>1. ASSUME NEW s \in Side, NEW i \in 1 .. Len(notify_events[s])
        PROVE  /\ notify_events[s][i].delivered => notify_events[s][i].seq \in arrived[Peer(s)]
               /\ ~notify_events[s][i].delivered
                    => ~HandedOver(Peer(s), notify_events[s][i].seq)
    BY <1>a, <1>1, HandedFacts, PeerFacts DEF NotesInv
  <2> QED
    BY <2>1 DEF NackIsFinal, AckMeansArrived
<1> QED
  BY <1>2, <1>3, <1>4

-----------------------------------------------------------------------------
(* The theorems. *)

\* TypeOK holds: in particular _last_recv_ack_ack is never loaded from a ring
\* entry that write_packet_header has not written.
THEOREM TypeCorrect == NoWrap => (Spec => []TypeOK)
<1>1. WindowInv => TypeOK
  BY DEF WindowInv
<1> QED
  BY <1>1, WindowInvariant, PTL

\* Both ends agree on the window, the asserts of write_packet_header hold, and
\* read_packet_header decodes what it accepts exactly, discards only stale
\* packets and finds every ack flag it needs in the packet.
THEOREM WindowCorrect ==
    NoWrap => (Spec => [](/\ WindowOrder /\ AckAckIsKnown
                          /\ NotifyBitsSent /\ DecodedExactly /\ OnlyStaleDiscarded))
<1> SUFFICES ASSUME NoWrap
             PROVE  Spec => [](/\ WindowOrder /\ AckAckIsKnown
                               /\ NotifyBitsSent /\ DecodedExactly /\ OnlyStaleDiscarded)
  OBVIOUS
<1>1. WindowInv => /\ WindowOrder /\ AckAckIsKnown
                   /\ NotifyBitsSent /\ DecodedExactly /\ OnlyStaleDiscarded
  BY WindowOrderFollows, DecodingFollows
<1> QED
  BY <1>1, WindowInvariant, PTL

\* Reliable notification: every packet is notified at most once and in order, a
\* lost one was never handed over, a delivered one arrived, and the application
\* sees packets once and in order.
THEOREM NotificationCorrect ==
    NoWrap => (Spec => [](NotifiedOnceInOrder /\ PacketsInOrder /\ NackIsFinal /\ AckMeansArrived))
<1> SUFFICES ASSUME NoWrap
             PROVE  Spec => [](NotifiedOnceInOrder /\ PacketsInOrder
                               /\ NackIsFinal /\ AckMeansArrived)
  OBVIOUS
<1>1. WindowInv /\ EventInv => /\ NotifiedOnceInOrder /\ PacketsInOrder
                               /\ NackIsFinal /\ AckMeansArrived
  BY EventsFollow
<1> QED
  BY <1>1, EventInvariant, PTL

\* The registers of the two ends are ordered and at most W - 2 packets are outstanding,
\* which is what the asserts of write_packet_header rely on.
THEOREM WindowAgreed == NoWrap => (Spec => []WindowOrder)
BY WindowCorrect, PTL

\* _last_recv_ack_ack never passes what the other end has been told.
THEOREM KnowledgeIsTrue == NoWrap => (Spec => []AckAckIsKnown)
BY WindowCorrect, PTL

\* An accepted packet carries every ack flag that its receiver reads from it.
THEOREM FlagsArrive == NoWrap => (Spec => []NotifyBitsSent)
BY WindowCorrect, PTL

\* The numbers of an accepted header are extended to what the sender had.
THEOREM HeadersDecoded == NoWrap => (Spec => []DecodedExactly)
BY WindowCorrect, PTL

\* read_packet_header returns early for stale packets only.
THEOREM NothingFreshDiscarded == NoWrap => (Spec => []OnlyStaleDiscarded)
BY WindowCorrect, PTL

\* Packets are notified once each, in the order in which they were sent.
THEOREM NotifiedOnce == NoWrap => (Spec => []NotifiedOnceInOrder)
BY NotificationCorrect, PTL

\* The application gets data packets in order and none twice.
THEOREM HandedOverInOrder == NoWrap => (Spec => []PacketsInOrder)
BY NotificationCorrect, PTL

\* A packet that was reported lost is never handed over.
THEOREM NacksAreFinal == NoWrap => (Spec => []NackIsFinal)
BY NotificationCorrect, PTL

\* A packet that was reported delivered has arrived.
THEOREM AcksAreTrue == NoWrap => (Spec => []AckMeansArrived)
BY NotificationCorrect, PTL

-----------------------------------------------------------------------------
(* TorqueConnection implements NotifyChannel in both directions: whatever the two ends *)
(* and the network do, the applications see packets sent, handed over and told of as   *)
(* the abstract channel allows.  The argument is the same for the two directions and   *)
(* is given for any side s.                                                            *)

\* A data packet is numbered after the number its sender started from, which the
\* channel needs and no other invariant says: 0 is not the number of a packet.
NumberedInv == \A p \in net : p.type = "data" => InitSeq[p.from] < p.seq

ChannelInv == WindowInv /\ EventInv /\ NumberedInv

\* The steps of the channel from s to its peer.
SendStep(s) ==
    /\ SentBy(s) < Len(ToldTo(s)) + (W - 2)
    /\ SentBy(s)' = SentBy(s) + 1
    /\ UNCHANGED <<ArrivedFrom(s), HandedFrom(s), ToldTo(s)>>

HandOverStep(s) ==
    /\ \E n \in Len(ToldTo(s)) + 1 .. SentBy(s) :
        /\ \A i \in DOMAIN HandedFrom(s) : HandedFrom(s)[i] < n
        /\ ArrivedFrom(s)' = ArrivedFrom(s) \cup {n}
        /\ HandedFrom(s)' = Append(HandedFrom(s), n)
    /\ UNCHANGED <<SentBy(s), ToldTo(s)>>

ArriveStep(s) ==
    /\ \E n \in 1 .. SentBy(s) : ArrivedFrom(s)' = ArrivedFrom(s) \cup {n}
    /\ UNCHANGED <<SentBy(s), HandedFrom(s), ToldTo(s)>>

TellStep(s) ==
    /\ \E k \in 1 .. SentBy(s) - Len(ToldTo(s)) : \E delivered \in [1 .. k -> BOOLEAN] :
        /\ \A i \in 1 .. k :
            IF delivered[i] THEN Len(ToldTo(s)) + i \in ArrivedFrom(s)
            ELSE ~\E j \in DOMAIN HandedFrom(s) : HandedFrom(s)[j] = Len(ToldTo(s)) + i
        /\ ToldTo(s)' = ToldTo(s) \o [i \in 1 .. k |->
                            [packet |-> Len(ToldTo(s)) + i, delivered |-> delivered[i]]]
    /\ UNCHANGED <<SentBy(s), ArrivedFrom(s), HandedFrom(s)>>

QuietStep(s) == UNCHANGED <<SentBy(s), ArrivedFrom(s), HandedFrom(s), ToldTo(s)>>

ChannelStep(s) ==
    SendStep(s) \/ HandOverStep(s) \/ ArriveStep(s) \/ TellStep(s) \/ QuietStep(s)
-----------------------------------------------------------------------------
(* The state of the channel, in plain numbers. *)

LEMMA FunctionIsSeq ==
    ASSUME NEW S, NEW n \in Nat, NEW f \in [1 .. n -> S]
    PROVE  f \in Seq(S) /\ Len(f) = n
OBVIOUS

LEMMA SentExact ==
    ASSUME NoWrap, WindowInv, NEW s \in Side
    PROVE  /\ SentBy(s) = last_send_seq[s] - InitSeq[s]
           /\ SentBy(s) \in Nat
           /\ highest_acked_seq[s] <= last_seq_recvd[Peer(s)]
           /\ last_seq_recvd[Peer(s)] <= last_send_seq[s]
           /\ InitSeq[s] <= highest_acked_seq[s]
           /\ InitSeq[s] \in Uint /\ last_send_seq[s] \in Uint
           /\ highest_acked_seq[s] \in Uint /\ last_seq_recvd[Peer(s)] \in Uint
<1>1. /\ InitSeq[s] \in Uint /\ last_send_seq[s] \in Uint /\ highest_acked_seq[s] \in Uint
      /\ last_seq_recvd[Peer(s)] \in Uint
  BY Registers, PeerFacts DEF WindowInv
<1>2. /\ InitSeq[s] <= highest_acked_seq[s] /\ highest_acked_seq[s] <= last_seq_recvd[Peer(s)]
      /\ last_seq_recvd[Peer(s)] <= last_send_seq[s]
  BY DEF WindowInv, OrderInv
<1>3. InitSeq[s] <= last_send_seq[s] /\ last_send_seq[s] - InitSeq[s] \in Nat
  BY <1>1, <1>2, UModType DEF Uint
<1> QED
  BY <1>1, <1>2, <1>3, SubExact DEF SentBy

LEMMA ToldExact ==
    ASSUME NoWrap, WindowInv, EventInv, NEW s \in Side
    PROVE  /\ notify_events[s] \in Seq(NotifyEvent)
           /\ Len(notify_events[s]) = highest_acked_seq[s] - InitSeq[s]
           /\ Len(notify_events[s]) \in Nat
           /\ ToldTo(s) = [i \in 1 .. Len(notify_events[s]) |->
                             [packet |-> i, delivered |-> notify_events[s][i].delivered]]
           /\ ToldTo(s) \in Seq([packet : Nat, delivered : BOOLEAN])
           /\ Len(ToldTo(s)) = Len(notify_events[s])
<1>1. notify_events[s] \in Seq(NotifyEvent)
  BY DEF WindowInv, TypeOK
<1>2. Len(notify_events[s]) = highest_acked_seq[s] - InitSeq[s] /\ Len(notify_events[s]) \in Nat
  BY <1>1 DEF EventInv, NotesInv
<1>3. \A i \in 1 .. Len(notify_events[s]) :
        /\ Sub(notify_events[s][i].seq, InitSeq[s]) = i
        /\ notify_events[s][i].delivered \in BOOLEAN
  <2> SUFFICES ASSUME NEW i \in 1 .. Len(notify_events[s])
               PROVE  /\ Sub(notify_events[s][i].seq, InitSeq[s]) = i
                      /\ notify_events[s][i].delivered \in BOOLEAN
    OBVIOUS
  <2>1. notify_events[s][i] \in NotifyEvent
    BY <1>1, ElementOfSeq
  <2>2. notify_events[s][i].seq \in Uint /\ notify_events[s][i].delivered \in BOOLEAN
    BY <2>1 DEF NotifyEvent
  <2>3. notify_events[s][i].seq = InitSeq[s] + i
    BY DEF EventInv, NotesInv
  <2>4. InitSeq[s] \in Uint /\ i \in Nat
    BY SentExact
  <2>5. InitSeq[s] <= InitSeq[s] + i /\ (InitSeq[s] + i) - InitSeq[s] = i
    BY <2>4, UModType DEF Uint
  <2> QED
    BY <2>2, <2>3, <2>4, <2>5, SubExact
<1>4. ToldTo(s) = [i \in 1 .. Len(notify_events[s]) |->
                     [packet |-> i, delivered |-> notify_events[s][i].delivered]]
  BY <1>3 DEF ToldTo
<1>5. ToldTo(s) \in [1 .. Len(notify_events[s]) -> [packet : Nat, delivered : BOOLEAN]]
  BY <1>3, <1>4
<1>6. /\ ToldTo(s) \in Seq([packet : Nat, delivered : BOOLEAN])
      /\ Len(ToldTo(s)) = Len(notify_events[s])
  BY <1>2, <1>5, FunctionIsSeq
<1> QED
  BY <1>1, <1>2, <1>4, <1>6

LEMMA HandedExact ==
    ASSUME NoWrap, WindowInv, EventInv, NEW s \in Side
    PROVE  LET E == packet_events[Peer(s)]
           IN  /\ E \in Seq(PacketEvent) /\ Len(E) \in Nat
               /\ HandedFrom(s) = [i \in 1 .. Len(E) |-> E[i].payload - InitSeq[s]]
               /\ HandedFrom(s) \in Seq(Nat) /\ Len(HandedFrom(s)) = Len(E)
               /\ \A i \in 1 .. Len(E) : E[i].payload \in Uint /\ InitSeq[s] < E[i].payload
<1> DEFINE E == packet_events[Peer(s)]
<1>1. Peer(s) \in Side /\ Peer(Peer(s)) = s /\ InitSeq[s] \in Uint
  BY PeerFacts, SentExact
<1>2. E \in Seq(PacketEvent) /\ Len(E) \in Nat
  BY <1>1, HandedFacts DEF WindowInv
<1>3. \A i \in 1 .. Len(E) : E[i].payload \in Uint /\ InitSeq[s] < E[i].payload
  <2>1. \A i \in 1 .. Len(E) : E[i].payload \in Uint
    BY <1>1, HandedFacts DEF Handed, WindowInv
  <2> QED
    BY <2>1, <1>1 DEF EventInv, PacketInv
<1>4. \A i \in 1 .. Len(E) : /\ Sub(E[i].payload, InitSeq[s]) = E[i].payload - InitSeq[s]
                             /\ E[i].payload - InitSeq[s] \in Nat
  BY <1>1, <1>3, SubExact, UModType DEF Uint
<1>5. HandedFrom(s) = [i \in 1 .. Len(E) |-> E[i].payload - InitSeq[s]]
  BY <1>4 DEF HandedFrom
<1>6. HandedFrom(s) \in [1 .. Len(E) -> Nat]
  BY <1>4, <1>5
<1> QED
  BY <1>2, <1>3, <1>5, <1>6
-----------------------------------------------------------------------------
(* The steps. *)

LEMMA NumberedInit == Init => NumberedInv
BY DEF Init, NumberedInv

LEMMA NumberedStep ==
    ASSUME NoWrap, WindowInv, NumberedInv, [Next]_vars
    PROVE  NumberedInv'
<1>a. TypeOK
  BY DEF WindowInv
<1>1. CASE \E s \in Side : SendData(s)
  <2>1. PICK s \in Side : SendData(s)
    BY <1>1
  <2> DEFINE h == Header(s, "data", last_send_seq[s] + 1, last_seq_recvd[s],
                         last_recv_ack_ack[s], ack_mask[s])
  <2>2. net' \subseteq net \cup {h}
    BY <2>1, SendDataFacts
  <2>3. h.from = s /\ h.seq = last_send_seq[s] + 1
    BY DEF Header
  <2>4. InitSeq[s] < last_send_seq[s] + 1
    BY SentExact, UModType DEF Uint
  <2> HIDE DEF h
  <2> QED
    BY <2>2, <2>3, <2>4 DEF NumberedInv
<1>2. CASE \E s \in Side, d \in 1 .. PingTimeout + 1 : SendPing(s, d)
  <2>1. PICK s \in Side, d \in 1 .. PingTimeout + 1 : SendPing(s, d)
    BY <1>2
  <2> DEFINE h == Header(s, "ping", last_send_seq[s], last_seq_recvd[s],
                         last_recv_ack_ack[s], ack_mask[s])
  <2>2. net' \subseteq net \cup {h}
    BY <2>1, TransmitFacts DEF SendPing
  <2>3. h.type = "ping"
    BY DEF Header
  <2> HIDE DEF h
  <2> QED
    BY <2>2, <2>3 DEF NumberedInv
<1>3. CASE \E s \in Side, p \in net : ReadPacket(s, p)
  <2>1. PICK s \in Side, p \in net : ReadPacket(s, p)
    BY <1>3
  <2> DEFINE h == Header(s, "ack", last_send_seq[s], p.seq, NewAckAck(s, p), ShiftedMask(s, p))
  <2>2. net' \subseteq net \cup {h}
    BY <2>1, ReadPacketFacts
  <2>3. h.type = "ack"
    BY DEF Header
  <2> HIDE DEF h
  <2> QED
    BY <2>2, <2>3 DEF NumberedInv
<1>4. CASE \/ \E s \in Side : SendDataFull(s)
           \/ \E s \in Side : StartTimer(s)
           \/ \E s \in Side, d \in 1 .. PingTimeout + 1 : WaitTimer(s, d) \/ TimeOut(s, d)
           \/ \E s \in Side, p \in net : DiscardPacket(s, p)
           \/ \E p \in net : LosePacket(p)
           \/ UNCHANGED vars
  <2>1. net' \subseteq net
    BY <1>a, <1>4, QuietSteps
  <2> QED
    BY <2>1 DEF NumberedInv
<1>5. \A s \in Sweeping : s \in Side
  BY BoundAssumption
<1> QED
  BY <1>1, <1>2, <1>3, <1>4, <1>5 DEF Next, CheckTimeout

\* A packet is sent into an open window.
LEMMA SendDataChannel ==
    ASSUME NoWrap, ChannelInv, WindowInv', NEW s \in Side, NEW r \in Side, SendData(r)
    PROVE  ChannelStep(s)
<1>1. UNCHANGED <<packet_events, notify_events, arrived>>
  BY DEF SendData, eventVars
<1>2. UNCHANGED <<ArrivedFrom(s), HandedFrom(s), ToldTo(s)>>
  BY <1>1 DEF ArrivedFrom, HandedFrom, ToldTo
<1>3. WindowInv /\ EventInv
  BY DEF ChannelInv
<1>4. /\ last_send_seq' = [last_send_seq EXCEPT ![r] = last_send_seq[r] + 1]
      /\ last_send_seq[r] + 1 <= highest_acked_seq[r] + (W - 2)
  BY <1>3, SendDataFacts
<1>5. last_send_seq \in [Side -> Uint]
  BY <1>3 DEF WindowInv, TypeOK
<1>6. CASE s # r
  <2>1. SentBy(s)' = SentBy(s)
    BY <1>4, <1>5, <1>6 DEF SentBy
  <2> QED
    BY <1>2, <2>1 DEF ChannelStep, QuietStep
<1>7. CASE s = r
  <2>1. /\ SentBy(s) = last_send_seq[s] - InitSeq[s] /\ InitSeq[s] \in Uint
        /\ last_send_seq[s] \in Uint /\ highest_acked_seq[s] \in Uint
    BY <1>3, SentExact
  <2>2. SentBy(s)' = (last_send_seq[s] + 1) - InitSeq[s]
    <3>1. last_send_seq'[s] = last_send_seq[s] + 1 /\ last_send_seq[s] + 1 \in Uint
      BY <1>4, <1>5, <1>7 DEF WindowInv, TypeOK
    <3>2. InitSeq[s] <= last_send_seq[s] + 1
      BY <1>3, <2>1, SentExact, UModType DEF Uint
    <3>3. SentBy(s)' = Sub(last_send_seq[s] + 1, InitSeq[s])
      BY <3>1 DEF SentBy
    <3>4. Sub(last_send_seq[s] + 1, InitSeq[s]) = (last_send_seq[s] + 1) - InitSeq[s]
      BY <2>1, <3>1, <3>2, SubExact
    <3> QED
      BY <3>3, <3>4
  <2>3. SentBy(s)' = SentBy(s) + 1
    BY <2>1, <2>2, UModType DEF Uint
  <2>4. Len(ToldTo(s)) = highest_acked_seq[s] - InitSeq[s]
    BY <1>3, ToldExact
  <2>5. SentBy(s) < Len(ToldTo(s)) + (W - 2)
    BY <1>4, <1>7, <2>1, <2>4, WindowAssumption, UModType DEF Uint
  <2> QED
    BY <1>2, <2>3, <2>5 DEF ChannelStep, SendStep
<1> QED
  BY <1>6, <1>7

\* Steps that touch no register, event or history of the two directions.
LEMMA QuietChannel ==
    ASSUME NEW s \in Side, UNCHANGED <<last_send_seq, eventVars>>
    PROVE  ChannelStep(s)
<1>1. UNCHANGED <<last_send_seq, packet_events, notify_events, arrived>>
  BY DEF eventVars
<1> QED
  BY <1>1 DEF ChannelStep, QuietStep, SentBy, ArrivedFrom, HandedFrom, ToldTo

\* Reading a packet tells the reader's application of its own packets.
LEMMA ReadPacketTells ==
    ASSUME NoWrap, ChannelInv, (WindowInv /\ EventInv)', NEW s \in Side, NEW p \in net,
           ReadPacket(s, p)
    PROVE  TellStep(s) \/ QuietStep(s)
<1> DEFINE N == notify_events[s]
           M == notify_events'[s]
           L == Len(N)
           k == p.ack - highest_acked_seq[s]
           told(i) == [packet |-> i, delivered |-> M[i].delivered]
<1>a. WindowInv /\ EventInv /\ TypeOK
  BY DEF ChannelInv, WindowInv
<1>t. Peer(s) \in Side /\ Peer(s) # s
  BY PeerFacts
<1>b. /\ p.from = Peer(s) /\ Fresh(s, p) /\ Accepts(s, p)
      /\ highest_acked_seq[s] <= p.ack /\ p.ack <= last_send_seq[s]
      /\ highest_acked_seq' = [highest_acked_seq EXCEPT ![s] = p.ack]
      /\ last_send_seq' = last_send_seq
      /\ arrived' = IF p.type = "data" THEN [arrived EXCEPT ![s] = @ \cup {p.seq}] ELSE arrived
  BY <1>a, ReadPacketFacts
<1>1. SentBy(s)' = SentBy(s)
  BY <1>b DEF SentBy
<1>2. arrived'[Peer(s)] = arrived[Peer(s)]
  BY <1>a, <1>b, <1>t DEF TypeOK
<1>3. packet_events'[Peer(s)] = packet_events[Peer(s)]
  <2>1. \/ packet_events' = packet_events
        \/ packet_events' = [packet_events EXCEPT
              ![s] = Append(packet_events[s], [seq |-> p.seq, payload |-> p.seq])]
    BY <1>a, ReadPacketEvents
  <2> QED
    BY <1>a, <1>t, <2>1 DEF TypeOK
<1>4. UNCHANGED <<SentBy(s), ArrivedFrom(s), HandedFrom(s)>>
  BY <1>1, <1>2, <1>3 DEF ArrivedFrom, HandedFrom
<1>5. /\ N \in Seq(NotifyEvent) /\ L \in Nat /\ Len(ToldTo(s)) = L
      /\ L = highest_acked_seq[s] - InitSeq[s]
      /\ ToldTo(s) = [i \in 1 .. L |-> [packet |-> i, delivered |-> N[i].delivered]]
      /\ ToldTo(s) \in Seq([packet : Nat, delivered : BOOLEAN])
  BY <1>a, ToldExact
<1>6. /\ M \in Seq(NotifyEvent) /\ Len(M) = highest_acked_seq'[s] - InitSeq[s]
      /\ \A i \in 1 .. Len(M) :
            /\ M[i].seq = InitSeq[s] + i
            /\ M[i].delivered => InitSeq[s] + i \in arrived'[Peer(s)]
            /\ ~M[i].delivered => InitSeq[s] + i \notin Handed(Peer(s))'
  <2>1. TypeOK' /\ NotesInv'
    BY DEF WindowInv, EventInv
  <2>2. M \in Seq(NotifyEvent)
    BY <2>1 DEF TypeOK
  <2> QED
    BY <2>1, <2>2 DEF NotesInv
<1>7. /\ k \in Nat /\ Len(M) = L + k /\ k <= SentBy(s) - L
      /\ InitSeq[s] \in Uint /\ highest_acked_seq[s] \in Uint
      /\ SentBy(s) \in Nat
  <2>1. highest_acked_seq'[s] = p.ack /\ p.ack \in Uint
    BY <1>a, <1>b DEF TypeOK
  <2>2. /\ SentBy(s) = last_send_seq[s] - InitSeq[s] /\ InitSeq[s] \in Uint
        /\ last_send_seq[s] \in Uint /\ highest_acked_seq[s] \in Uint /\ SentBy(s) \in Nat
    BY <1>a, SentExact
  <2>3. Len(M) = p.ack - InitSeq[s]
    BY <1>6, <2>1
  <2>4. highest_acked_seq[s] <= p.ack /\ p.ack <= last_send_seq[s]
    BY <1>b
  <2>5. L = highest_acked_seq[s] - InitSeq[s]
    BY <1>5
  <2>6. \A a, H, I, S \in Nat : H <= a /\ a <= S =>
            a - H \in Nat /\ a - I = (H - I) + (a - H) /\ a - H <= (S - I) - (H - I)
    OBVIOUS
  <2>7. p.ack \in Nat /\ highest_acked_seq[s] \in Nat /\ InitSeq[s] \in Nat /\ last_send_seq[s] \in Nat
    BY <2>1, <2>2, UModType DEF Uint
  <2>8. k \in Nat
    BY <2>4, <2>6, <2>7
  <2>9. Len(M) = L + k
    BY <2>3, <2>4, <2>5, <2>6, <2>7
  <2>10. k <= SentBy(s) - L
    BY <2>2, <2>4, <2>5, <2>6, <2>7
  <2> QED
    BY <2>2, <2>8, <2>9, <2>10
<1>8. \A i \in 1 .. L : M[i] = N[i]
  <2>1. notify_count(s, p) = k
    BY <1>a, <1>b, NewAckAckFacts
  <2>2. M = N \o NewNotifyEvents(s, p)
    BY <1>a DEF ReadPacket, TypeOK
  <2>3. /\ NewNotifyEvents(s, p) = [i \in 1 .. k |-> NewNotifyEvents(s, p)[i]]
        /\ Len(NewNotifyEvents(s, p)) = k
    BY <1>7, <2>1 DEF NewNotifyEvents
  <2>4. NewNotifyEvents(s, p) \in Seq({NewNotifyEvents(s, p)[i] : i \in 1 .. k})
    BY <1>7, <2>3, FunctionIsSeq
  <2> QED
    BY <1>5, <1>7, <2>2, <2>4, ConcatProperties
<1>9. ToldTo(s)' = [i \in 1 .. L + k |-> told(i)]
  <2>1. \A i \in 1 .. Len(M) : Sub(M[i].seq, InitSeq[s]) = i
    <3> SUFFICES ASSUME NEW i \in 1 .. Len(M) PROVE Sub(M[i].seq, InitSeq[s]) = i
      OBVIOUS
    <3>1. M[i] \in NotifyEvent
      BY <1>6, ElementOfSeq
    <3>2. M[i].seq = InitSeq[s] + i /\ InitSeq[s] + i \in Uint
      BY <1>6, <3>1 DEF NotifyEvent
    <3>3. Sub(InitSeq[s] + i, InitSeq[s]) = (InitSeq[s] + i) - InitSeq[s]
      BY <1>7, <3>2, SubExact, UModType DEF Uint
    <3> QED
      BY <1>7, <3>2, <3>3, UModType DEF Uint
  <2> QED
    BY <1>7, <2>1 DEF ToldTo
<1> HIDE DEF k, L, M, N
<1>10. CASE k = 0
  <2>1. ToldTo(s)' = ToldTo(s)
    BY <1>5, <1>7, <1>8, <1>9, <1>10
  <2> QED
    BY <1>4, <2>1 DEF QuietStep
<1>11. CASE k # 0
  <2> DEFINE delivered == [i \in 1 .. k |-> M[L + i].delivered]
             new == [i \in 1 .. k |-> [packet |-> L + i, delivered |-> delivered[i]]]
  <2>1. \A i \in 1 .. k : /\ L + i \in 1 .. Len(M) /\ L + i \in Nat
                          /\ InitSeq[s] + (L + i) \in Uint
                          /\ M[L + i].delivered \in BOOLEAN
    <3> SUFFICES ASSUME NEW i \in 1 .. k
                 PROVE  /\ L + i \in 1 .. Len(M) /\ L + i \in Nat
                        /\ InitSeq[s] + (L + i) \in Uint
                        /\ M[L + i].delivered \in BOOLEAN
      OBVIOUS
    <3>1. L + i \in 1 .. Len(M) /\ L + i \in Nat
      BY <1>5, <1>7
    <3>2. M[L + i] \in NotifyEvent
      BY <1>6, <3>1, ElementOfSeq
    <3>3. M[L + i].seq = InitSeq[s] + (L + i)
      BY <1>6, <3>1
    <3> QED
      BY <3>1, <3>2, <3>3 DEF NotifyEvent
  <2>2. delivered \in [1 .. k -> BOOLEAN]
    BY <2>1
  <2>3. ASSUME NEW i \in 1 .. k, delivered[i] PROVE L + i \in ArrivedFrom(s)
    <3>1. InitSeq[s] + (L + i) \in arrived[Peer(s)]
      BY <1>2, <1>6, <2>1, <2>3
    <3>2. InitSeq[s] <= InitSeq[s] + (L + i) /\ (InitSeq[s] + (L + i)) - InitSeq[s] = L + i
      BY <1>7, <2>1, UModType DEF Uint
    <3>3. Sub(InitSeq[s] + (L + i), InitSeq[s]) = L + i
      BY <1>7, <2>1, <3>2, SubExact
    <3> HIDE DEF L
    <3> QED
      BY <3>1, <3>3 DEF ArrivedFrom
  <2>4. ASSUME NEW i \in 1 .. k, ~delivered[i]
        PROVE  ~\E j \in DOMAIN HandedFrom(s) : HandedFrom(s)[j] = L + i
    <3> SUFFICES ASSUME NEW j \in DOMAIN HandedFrom(s), HandedFrom(s)[j] = L + i
                 PROVE  FALSE
      OBVIOUS
    <3> DEFINE E == packet_events[Peer(s)]
    <3>1. /\ HandedFrom(s) = [m \in 1 .. Len(E) |-> E[m].payload - InitSeq[s]]
          /\ \A m \in 1 .. Len(E) : E[m].payload \in Uint
      BY <1>a, HandedExact
    <3>2. j \in 1 .. Len(E) /\ E[j].payload - InitSeq[s] = L + i /\ E[j].payload \in Uint
      BY <3>1
    <3>3. E[j].payload = InitSeq[s] + (L + i)
      <4>1. L + i \in Nat /\ InitSeq[s] \in Nat /\ E[j].payload \in Nat
        BY <1>7, <2>1, <3>2, UModType DEF Uint
      <4> HIDE DEF E
      <4> QED
        BY <3>2, <4>1
    <3>4. InitSeq[s] + (L + i) \in Handed(Peer(s))
      BY <3>2, <3>3 DEF Handed
    <3>5. Handed(Peer(s))' = Handed(Peer(s))
      BY <1>3 DEF Handed
    <3> QED
      BY <1>6, <2>1, <2>4, <3>4, <3>5
  <2>5. ToldTo(s)' = ToldTo(s) \o new
    <3>1. new \in [1 .. k -> [packet : Nat, delivered : BOOLEAN]]
      BY <2>1, <2>2
    <3>2. new \in Seq([packet : Nat, delivered : BOOLEAN]) /\ Len(new) = k
      <4> HIDE DEF new
      <4> QED
        BY <1>7, <3>1, FunctionIsSeq
    <3> DEFINE both == ToldTo(s) \o new
    <3>3. /\ both \in Seq([packet : Nat, delivered : BOOLEAN]) /\ Len(both) = L + k
          /\ \A i \in 1 .. L + k : both[i] = IF i <= L THEN ToldTo(s)[i] ELSE new[i - L]
      <4> HIDE DEF new, L
      <4> QED
        BY <1>5, <3>2, ConcatProperties
    <3>4. \A i \in 1 .. L + k : both[i] = told(i)
      <4> SUFFICES ASSUME NEW i \in 1 .. L + k PROVE both[i] = told(i)
        OBVIOUS
      <4> HIDE DEF both
      <4>1. CASE i <= L
        <5>1. i \in 1 .. L /\ M[i] = N[i]
          BY <4>1, <1>5, <1>7, <1>8
        <5>2. ToldTo(s)[i] = [packet |-> i, delivered |-> N[i].delivered]
          BY <1>5, <5>1
        <5> QED
          BY <4>1, <3>3, <5>1, <5>2
      <4>2. CASE ~(i <= L)
        <5>1. i - L \in 1 .. k /\ L + (i - L) = i
          <6>1. L \in Nat /\ k \in Nat
            BY <1>5, <1>7
          <6> QED
            BY <4>2, <6>1
        <5> QED
          BY <4>2, <5>1, <3>3
      <4> QED
        BY <4>1, <4>2
    <3>5. both = [i \in 1 .. L + k |-> both[i]]
      <4> HIDE DEF both
      <4> QED
        BY <3>3
    <3> QED
      BY <1>9, <3>4, <3>5
  <2>6. k \in 1 .. SentBy(s) - L
    BY <1>5, <1>7, <1>11
  <2>7. \A i \in 1 .. k :
            IF delivered[i] THEN L + i \in ArrivedFrom(s)
            ELSE ~\E j \in DOMAIN HandedFrom(s) : HandedFrom(s)[j] = L + i
    BY <2>3, <2>4
  <2> HIDE DEF delivered
  <2>8. TellStep(s)
    <3>1. Len(ToldTo(s)) = L
      BY <1>5
    <3> QED
      BY <1>4, <2>2, <2>5, <2>6, <2>7, <3>1 DEF TellStep
  <2> QED
    BY <2>8
<1> QED
  BY <1>10, <1>11

\* ... and hands the packet to it, unless a ping has overtaken it.
LEMMA ReadPacketHandsOver ==
    ASSUME NoWrap, ChannelInv, NEW s \in Side, NEW p \in net, ReadPacket(Peer(s), p)
    PROVE  HandOverStep(s) \/ ArriveStep(s) \/ QuietStep(s)
<1> DEFINE r == Peer(s)
           E == packet_events[r]
           n == p.seq - InitSeq[s]
<1>a. WindowInv /\ EventInv /\ TypeOK /\ NetInv
  BY DEF ChannelInv, WindowInv
<1>t. r \in Side /\ Peer(r) = s /\ r # s
  BY PeerFacts
<1>b. /\ p.from = s /\ last_seq_recvd[r] <= p.seq
      /\ last_send_seq' = last_send_seq
      /\ arrived' = IF p.type = "data" THEN [arrived EXCEPT ![r] = @ \cup {p.seq}] ELSE arrived
  BY <1>a, <1>t, ReadPacketFacts
<1>1. SentBy(s)' = SentBy(s)
  BY <1>b DEF SentBy
<1>2. ToldTo(s)' = ToldTo(s)
  <2>1. notify_events' = [notify_events EXCEPT ![r] = @ \o NewNotifyEvents(r, p)]
    BY DEF ReadPacket
  <2>2. notify_events'[s] = notify_events[s]
    BY <1>a, <1>t, <2>1 DEF TypeOK
  <2> QED
    BY <2>2 DEF ToldTo
<1>3. \/ packet_events' = packet_events
      \/ /\ p.type = "data" /\ last_seq_recvd[r] < p.seq
         /\ packet_events' = [packet_events EXCEPT
               ![r] = Append(packet_events[r], [seq |-> p.seq, payload |-> p.seq])]
  BY <1>a, <1>t, ReadPacketEvents
<1>4. /\ SentBy(s) = last_send_seq[s] - InitSeq[s] /\ SentBy(s) \in Nat
      /\ InitSeq[s] \in Nat /\ last_send_seq[s] \in Nat /\ last_seq_recvd[r] \in Nat
      /\ highest_acked_seq[s] \in Nat /\ p.seq \in Nat
      /\ highest_acked_seq[s] <= last_seq_recvd[r] /\ p.seq <= last_send_seq[s]
  <2>1. p.seq \in Uint /\ p.seq <= last_send_seq[s]
    BY <1>a, <1>b DEF TypeOK, NetInv
  <2> QED
    BY <1>a, <2>1, SentExact, UModType DEF Uint
<1>5. CASE p.type # "data"
  <2>1. packet_events' = packet_events /\ arrived' = arrived
    BY <1>3, <1>5, <1>b
  <2>2. UNCHANGED <<ArrivedFrom(s), HandedFrom(s)>>
    BY <2>1 DEF ArrivedFrom, HandedFrom
  <2> QED
    BY <1>1, <1>2, <2>2 DEF QuietStep
<1>6. CASE p.type = "data"
  <2>1. InitSeq[s] < p.seq
    BY <1>6, <1>b DEF ChannelInv, NumberedInv
  <2>2. n \in 1 .. SentBy(s) /\ Sub(p.seq, InitSeq[s]) = n
    <3>1. p.seq \in Uint /\ InitSeq[s] \in Uint
      BY <1>a, SentExact DEF TypeOK
    <3>2. Sub(p.seq, InitSeq[s]) = n
      BY <2>1, <3>1, <1>4, SubExact
    <3> QED
      BY <1>4, <2>1, <3>2
  <2>3. ArrivedFrom(s)' = ArrivedFrom(s) \cup {n}
    <3>1. arrived'[r] = arrived[r] \cup {p.seq}
      BY <1>6, <1>a, <1>b, <1>t DEF TypeOK
    <3> QED
      BY <2>2, <3>1 DEF ArrivedFrom
  <2> HIDE DEF n
  <2>4. CASE packet_events' = packet_events
    <3>1. HandedFrom(s)' = HandedFrom(s)
      BY <2>4 DEF HandedFrom
    <3> QED
      BY <1>1, <1>2, <2>2, <2>3, <3>1 DEF ArriveStep
  <2>5. CASE /\ last_seq_recvd[r] < p.seq
             /\ packet_events' = [packet_events EXCEPT
                   ![r] = Append(packet_events[r], [seq |-> p.seq, payload |-> p.seq])]
    <3>1. packet_events'[r] = Append(E, [seq |-> p.seq, payload |-> p.seq])
      BY <2>5, <1>a, <1>t DEF TypeOK
    <3>2. /\ E \in Seq(PacketEvent) /\ Len(E) \in Nat
          /\ HandedFrom(s) = [i \in 1 .. Len(E) |-> E[i].payload - InitSeq[s]]
          /\ HandedFrom(s) \in Seq(Nat) /\ Len(HandedFrom(s)) = Len(E)
          /\ \A i \in 1 .. Len(E) : E[i].payload \in Uint /\ InitSeq[s] < E[i].payload
      BY <1>a, HandedExact
    <3>3. \A i \in 1 .. Len(E) : Sub(E[i].payload, InitSeq[s]) = HandedFrom(s)[i]
      BY DEF HandedFrom
    <3>4. HandedFrom(s)' = Append(HandedFrom(s), n)
      <4> DEFINE e == [seq |-> p.seq, payload |-> p.seq]
                 F == Append(E, e)
                 G == Append(HandedFrom(s), n)
      <4>1. e \in PacketEvent
        BY <1>a DEF PacketEvent, TypeOK
      <4>2. e.payload = p.seq
        OBVIOUS
      <4> HIDE DEF e, E
      <4>3. /\ Len(F) = Len(E) + 1 /\ F[Len(E) + 1] = e
            /\ \A i \in 1 .. Len(E) : F[i] = E[i]
        BY <3>2, <4>1
      <4>4. HandedFrom(s)' = [i \in 1 .. Len(F) |-> Sub(F[i].payload, InitSeq[s])]
        BY <3>1 DEF HandedFrom, e, E
      <4>5. n \in Nat
        BY <2>2, <1>4
      <4>6. /\ G \in Seq(Nat) /\ Len(G) = Len(E) + 1 /\ G[Len(E) + 1] = n
            /\ \A i \in 1 .. Len(E) : G[i] = HandedFrom(s)[i]
        BY <3>2, <4>5
      <4> HIDE DEF F, G
      <4>7. \A i \in 1 .. Len(E) + 1 : Sub(F[i].payload, InitSeq[s]) = G[i]
        <5> SUFFICES ASSUME NEW i \in 1 .. Len(E) + 1
                     PROVE  Sub(F[i].payload, InitSeq[s]) = G[i]
          OBVIOUS
        <5>1. CASE i \in 1 .. Len(E)
          BY <5>1, <3>3, <4>3, <4>6
        <5>2. CASE i = Len(E) + 1
          BY <5>2, <2>2, <4>2, <4>3, <4>6
        <5> QED
          BY <5>1, <5>2, <3>2
      <4>8. G = [i \in 1 .. Len(E) + 1 |-> G[i]]
        BY <4>6
      <4>9. HandedFrom(s)' = G
        BY <4>3, <4>4, <4>7, <4>8
      <4> QED
        BY <4>9 DEF G
    <3>5. \A i \in DOMAIN HandedFrom(s) : HandedFrom(s)[i] < n
      <4> SUFFICES ASSUME NEW i \in 1 .. Len(E) PROVE HandedFrom(s)[i] < n
        BY <3>2
      <4>1. E[i].payload <= last_seq_recvd[r] /\ E[i].payload \in Nat
        <5>1. E[i].payload <= last_seq_recvd[r]
          BY <1>a, <1>t DEF EventInv, PacketInv
        <5> HIDE DEF E
        <5>2. E[i].payload \in Nat
          BY <3>2, UModType DEF Uint
        <5> QED
          BY <5>1, <5>2
      <4>2. HandedFrom(s)[i] = E[i].payload - InitSeq[s]
        BY <3>2
      <4> HIDE DEF E
      <4> QED
        BY <4>1, <4>2, <1>4, <2>5 DEF n
    <3>6. n \in Len(ToldTo(s)) + 1 .. SentBy(s)
      <4>1. Len(ToldTo(s)) = highest_acked_seq[s] - InitSeq[s]
        BY <1>a, ToldExact
      <4>2. last_seq_recvd[r] < p.seq
        BY <2>5
      <4>3. \A a, b, c, i \in Nat : a <= b /\ b < c => (a - i) + 1 <= c - i
        OBVIOUS
      <4>4. Len(ToldTo(s)) + 1 <= n
        BY <4>1, <4>2, <4>3, <1>4 DEF n
      <4>5. Len(ToldTo(s)) + 1 \in Int
        BY <4>1, <1>4
      <4> HIDE DEF n
      <4> QED
        BY <4>4, <4>5, <2>2, <1>4
    <3> QED
      BY <1>1, <1>2, <2>3, <3>4, <3>5, <3>6 DEF HandOverStep
  <2> QED
    BY <1>3, <2>4, <2>5
<1> QED
  BY <1>5, <1>6

LEMMA StepIsChannelStep ==
    ASSUME NoWrap, ChannelInv, (WindowInv /\ EventInv)', [Next]_vars, NEW s \in Side
    PROVE  ChannelStep(s)
<1>a. TypeOK
  BY DEF ChannelInv, WindowInv
<1>1. CASE \E r \in Side : SendData(r)
  BY <1>1, SendDataChannel
<1>2. CASE \E r \in Side, d \in 1 .. PingTimeout + 1 : SendPing(r, d)
  <2>1. UNCHANGED <<last_send_seq, eventVars>>
    BY <1>2 DEF SendPing, sendVars
  <2> QED
    BY <2>1, QuietChannel
<1>3. CASE \E r \in Side, p \in net : ReadPacket(r, p)
  <2>1. PICK r \in Side, p \in net : ReadPacket(r, p)
    BY <1>3
  <2>2. CASE r = s
    BY <2>1, <2>2, ReadPacketTells DEF ChannelStep
  <2>3. CASE r = Peer(s)
    BY <2>1, <2>3, ReadPacketHandsOver DEF ChannelStep
  <2> QED
    BY <2>2, <2>3, PeerFacts
<1>4. CASE \/ \E r \in Side : SendDataFull(r)
           \/ \E r \in Side : StartTimer(r)
           \/ \E r \in Side, d \in 1 .. PingTimeout + 1 : WaitTimer(r, d) \/ TimeOut(r, d)
           \/ \E r \in Side, p \in net : DiscardPacket(r, p)
           \/ \E p \in net : LosePacket(p)
           \/ UNCHANGED vars
  <2>1. UNCHANGED <<sendVars, recvVars, eventVars>>
    BY <1>a, <1>4, QuietSteps
  <2>2. UNCHANGED <<last_send_seq, eventVars>>
    BY <2>1 DEF sendVars
  <2> QED
    BY <2>2, QuietChannel
<1>5. \A r \in Sweeping : r \in Side
  BY BoundAssumption
<1> QED
  BY <1>1, <1>2, <1>3, <1>4, <1>5 DEF Next, CheckTimeout
-----------------------------------------------------------------------------
LEMMA InitIsChannelInit ==
    ASSUME NoWrap, Init, NEW s \in Side
    PROVE  SentBy(s) = 0 /\ ArrivedFrom(s) = {} /\ HandedFrom(s) = <<>> /\ ToldTo(s) = <<>>
<1>1. Peer(s) \in Side /\ InitSeq[s] \in Uint
  BY PeerFacts, BoundAssumption
<1>2. last_send_seq[s] = InitSeq[s] /\ arrived[Peer(s)] = {}
      /\ packet_events[Peer(s)] = <<>> /\ notify_events[s] = <<>>
  BY <1>1 DEF Init
<1>3. Sub(InitSeq[s], InitSeq[s]) = 0
  BY <1>1, SubExact, UModType DEF Uint
<1>4. SentBy(s) = 0 /\ ArrivedFrom(s) = {}
  BY <1>2, <1>3 DEF SentBy, ArrivedFrom
<1>5. HandedFrom(s) = <<>> /\ ToldTo(s) = <<>>
  BY <1>2 DEF HandedFrom, ToldTo
<1> QED
  BY <1>4, <1>5

LEMMA ChannelInvariant == NoWrap => (Spec => []ChannelInv)
<1> SUFFICES ASSUME NoWrap PROVE Spec => []ChannelInv
  OBVIOUS
<1>1. Init => ChannelInv
  BY InitWindow, InitEvents, NumberedInit DEF ChannelInv
<1>2. ChannelInv /\ [Next]_vars => ChannelInv'
  BY NextWindow, NextEvents, NumberedStep DEF ChannelInv
<1> QED
  BY <1>1, <1>2, PTL DEF Spec

\* torque_connection keeps its promise to both applications: each direction is a
\* NotifyChannel.  Packets are handed over in order, the sender is told of each one once
\* and in order, never that a packet was lost that is or will be handed over, never that
\* one was delivered that did not arrive, and no more than W - 2 packets wait to be told
\* of.
THEOREM ConnectionImplementsChannel == NoWrap => (Spec => ImplementsChannel)
<1> SUFFICES ASSUME NoWrap PROVE Spec => ImplementsChannel
  OBVIOUS
<1>s. "A" \in Side /\ "B" \in Side
  BY DEF Side
<1>1. Init => ChannelA!Init /\ ChannelB!Init
  BY <1>s, InitIsChannelInit DEF ChannelA!Init, ChannelB!Init
<1>2. ChannelInv /\ ChannelInv' /\ [Next]_vars => [ChannelA!Next]_(ChannelA!vars)
  <2> SUFFICES ASSUME ChannelInv, ChannelInv', [Next]_vars
               PROVE  [ChannelA!Next]_(ChannelA!vars)
    OBVIOUS
  <2>1. ChannelStep("A")
    BY <1>s, StepIsChannelStep DEF ChannelInv
  <2> QED
    BY <2>1
    DEF ChannelStep, SendStep, HandOverStep, ArriveStep, TellStep, QuietStep, ChannelA!Next,
        ChannelA!vars, ChannelA!Send, ChannelA!HandOver, ChannelA!ArriveOvertaken,
        ChannelA!Tell, ChannelA!HandedOver
<1>3. ChannelInv /\ ChannelInv' /\ [Next]_vars => [ChannelB!Next]_(ChannelB!vars)
  <2> SUFFICES ASSUME ChannelInv, ChannelInv', [Next]_vars
               PROVE  [ChannelB!Next]_(ChannelB!vars)
    OBVIOUS
  <2>1. ChannelStep("B")
    BY <1>s, StepIsChannelStep DEF ChannelInv
  <2> QED
    BY <2>1
    DEF ChannelStep, SendStep, HandOverStep, ArriveStep, TellStep, QuietStep, ChannelB!Next,
        ChannelB!vars, ChannelB!Send, ChannelB!HandOver, ChannelB!ArriveOvertaken,
        ChannelB!Tell, ChannelB!HandedOver
<1>4. Spec => []ChannelInv
  BY ChannelInvariant
<1> QED
  BY <1>1, <1>2, <1>3, <1>4, PTL DEF Spec, ImplementsChannel, ChannelA!Spec, ChannelB!Spec
=============================================================================
