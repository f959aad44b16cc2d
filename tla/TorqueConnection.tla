-------------------------- MODULE TorqueConnection --------------------------
(***************************************************************************)
(* The notify protocol of torque_connection.h: the two endpoints of one     *)
(* established connection over UDP.  Delivery is unreliable; what the       *)
(* protocol promises is that the sender learns, once and in order, what     *)
(* became of every data packet.                                             *)
(*                                                                          *)
(* Sequence registers are unsigned integers modulo UMod (uint32 in the      *)
(* code) and only their low bits travel: SeqMod and AckMod are 2^11 and     *)
(* 2^10, W is max_packet_window_size (32), AckGroup the bits of an ack      *)
(* byte (8).  A packet of the model keeps the sender's full numbers, so     *)
(* that properties can compare them with what the receiver reconstructs;    *)
(* read_packet_header only looks at their low bits.                         *)
(***************************************************************************)
EXTENDS Integers, Sequences, FiniteSets, FiniteSetsExt

CONSTANTS
    W,               \* max_packet_window_size
    AckGroup,        \* ack flags per ack byte on the wire
    SeqMod,          \* sequence_number_window_size
    AckMod,          \* ack_sequence_number_window_size
    UMod,            \* number of values of a uint32 register
    InitSeq,         \* per side: _initial_send_seq, agreed on in the handshake
    PingTimeout,     \* _ping_timeout, in timeout-check intervals
    PingRetryCount,  \* _ping_retry_count
    AppChecksWindow, \* does the application only send while the window is open?
    Duplicates,      \* may the network deliver a packet more than once?
    Sweeping,        \* the sides whose application calls process_connections
    MaxPackets,      \* bound, per side: data packets it sends
    MaxInFlight,     \* bound: packets in the network, more are lost
    MaxLag           \* bound: how many packets late the network may deliver

Side == {"A", "B"}
Peer(s) == IF s = "A" THEN "B" ELSE "A"
Uint == 0 .. UMod - 1

ASSUME WindowAssumption ==
    /\ W \in Nat /\ W >= 4
    /\ AckGroup \in Nat \ {0} /\ W % AckGroup = 0
ASSUME ModulusAssumption ==
    /\ SeqMod \in Nat \ {0} /\ AckMod \in Nat \ {0} /\ UMod \in Nat \ {0}
    /\ UMod % SeqMod = 0 /\ UMod % AckMod = 0
    /\ W <= AckMod /\ W <= SeqMod /\ UMod % W = 0
ASSUME LagAssumption ==
    MaxLag \in Nat /\ MaxLag + W <= SeqMod /\ MaxLag < AckMod
ASSUME BoundAssumption ==
    /\ InitSeq \in [Side -> Uint]
    /\ MaxPackets \in [Side -> Nat] /\ Sweeping \subseteq Side /\ MaxInFlight \in Nat
    /\ PingTimeout \in Nat /\ PingRetryCount \in Nat
    /\ AppChecksWindow \in BOOLEAN /\ Duplicates \in BOOLEAN

VARIABLES
    status,                 \* "up", "timed_out", or "trapped" by a failed assert
    last_send_seq,
    highest_acked_seq,
    last_seq_recvd,
    last_recv_ack_ack,
    last_seq_recvd_at_send, \* ring of W entries
    ack_mask,               \* the set bits of _ack_mask[0]
    ping_send_count,
    idle,                   \* checks since _last_ping_send_time, or Unset
    net,                    \* packets in flight
    packet_events,          \* packet events posted to the application, in order
    notify_events,          \* packet_notify events posted, in order
    arrived                 \* history: data packets read_packet_header accepted

sendVars == <<last_send_seq, last_seq_recvd_at_send>>
recvVars == <<highest_acked_seq, last_seq_recvd, last_recv_ack_ack, ack_mask>>
timerVars == <<ping_send_count, idle>>
eventVars == <<packet_events, notify_events, arrived>>
vars == <<status, sendVars, recvVars, timerVars, net, eventVars>>

Unset == -1          \* _last_ping_send_time == 0
Uninitialised == -1  \* a ring entry the constructor left alone, never a uint32

-----------------------------------------------------------------------------
(* Unsigned arithmetic and the partial sequence numbers of the wire. *)

Add(a, b) == (a + b) % UMod
Sub(a, b) == (a - b) % UMod

\* Mutant: the "account for wrap around" of the low bits is missing.
Reconstruct_no_wraparound(low, ref, mod) == low + (ref - (ref % mod))

\* The full number a reader infers from the low bits of one: the first number
\* at or after the reader's reference with those bits, in plain comparison.
Reconstruct(low, ref, mod) ==
    LET c == low + (ref - (ref % mod))
    IN  IF c < ref THEN Add(c, mod) ELSE c

PacketType == {"data", "ping", "ack"}
Packet == [from : Side, type : PacketType, seq : Uint, ack : Uint,
           bits : Nat, mask : SUBSET Nat]
NotifyEvent == [seq : Uint, delivered : BOOLEAN]
PacketEvent == [seq : Uint, payload : Uint]

\* Mutant: the byte count is rounded down.
AckBits_rounded_down(recvd, lraa) == (Sub(recvd, lraa) \div AckGroup) * AckGroup

\* ack_byte_count, in bits.
AckBits(recvd, lraa) == ((Sub(recvd, lraa) + AckGroup - 1) \div AckGroup) * AckGroup

\* What write_packet_header puts on the wire.
Header(s, type, seq, recvd, lraa, mask) ==
    LET n == AckBits(recvd, lraa)
    IN  [from |-> s, type |-> type, seq |-> seq, ack |-> recvd,
         bits |-> n, mask |-> {i \in mask : i < n}]

\* UDP: a packet handed to the socket is in flight, or lost in a full network.
Transmit(N, p) ==
    IF Cardinality(N \cup {p}) <= MaxInFlight THEN N \cup {p} ELSE N

\* UDP: packets do not outlive MaxLag further sends of either side.
Fresh(s, p) ==
    /\ Sub(last_send_seq[p.from], p.seq) <= MaxLag
    /\ Sub(last_send_seq[s], p.ack) <= MaxLag

-----------------------------------------------------------------------------
\* The torque_connection constructor and set_initial_recv_sequence.
Init ==
    /\ status = [s \in Side |-> "up"]
    /\ last_send_seq = InitSeq
    /\ highest_acked_seq = InitSeq
    /\ last_seq_recvd = [s \in Side |-> InitSeq[Peer(s)]]
    /\ last_recv_ack_ack = [s \in Side |-> InitSeq[Peer(s)]]
    /\ last_seq_recvd_at_send = [s \in Side |-> [i \in 0 .. W - 1 |-> Uninitialised]]
    /\ ack_mask = [s \in Side |-> {}]
    /\ ping_send_count = [s \in Side |-> 0]
    /\ idle = [s \in Side |-> Unset]
    /\ net = {}
    /\ packet_events = [s \in Side |-> << >>]
    /\ notify_events = [s \in Side |-> << >>]
    /\ arrived = [s \in Side |-> {}]

\* Mutant: the window is filled to its last slot.
window_full_late(s) == Sub(last_send_seq[s], highest_acked_seq[s]) >= W

window_full(s) == Sub(last_send_seq[s], highest_acked_seq[s]) >= W - 2

\* send_to_connection -> send_packet(data_packet) -> write_packet_header.
SendData(s) ==
    LET seq == Add(last_send_seq[s], 1)
    IN  /\ status[s] = "up"
        /\ ~window_full(s)
        /\ Sub(last_send_seq[s], InitSeq[s]) < MaxPackets[s]
        /\ last_send_seq' = [last_send_seq EXCEPT ![s] = seq]
        /\ last_seq_recvd_at_send' =
             [last_seq_recvd_at_send EXCEPT ![s][seq % W] = last_seq_recvd[s]]
        /\ net' = Transmit(net, Header(s, "data", seq, last_seq_recvd[s],
                                       last_recv_ack_ack[s], ack_mask[s]))
        /\ UNCHANGED <<status, recvVars, timerVars, eventVars>>

\* The same call with the window full: the assert of write_packet_header traps.
SendDataFull(s) ==
    /\ ~AppChecksWindow
    /\ status[s] = "up"
    /\ window_full(s)
    /\ status' = [status EXCEPT ![s] = "trapped"]
    /\ UNCHANGED <<sendVars, recvVars, timerVars, net, eventVars>>

-----------------------------------------------------------------------------
(* read_packet_header. *)

pk_sequence_number(s, p) == Reconstruct(p.seq % SeqMod, last_seq_recvd[s], SeqMod)
pk_highest_ack(s, p) == Reconstruct(p.ack % AckMod, highest_acked_seq[s], AckMod)

\* Mutant: any reconstructed number passes, as if the low bits were all of it.
InSeqWindow_wide(s, p) == Sub(pk_sequence_number(s, p), last_seq_recvd[s]) <= SeqMod - 1

\* The two ordering tests a packet passes to be processed.
InSeqWindow(s, p) == Sub(pk_sequence_number(s, p), last_seq_recvd[s]) <= W - 1
InAckWindow(s, p) == pk_highest_ack(s, p) <= last_send_seq[s]
Accepts(s, p) == InSeqWindow(s, p) /\ InAckWindow(s, p)

\* Mutants of the mask: a data packet sets no bit; every packet sets one.
ShiftedMask_no_low_bit(s, p) ==
    {i \in 0 .. W - 1 :
        i - Sub(pk_sequence_number(s, p), last_seq_recvd[s]) \in ack_mask[s]}
ShiftedMask_any_type(s, p) == ShiftedMask_no_low_bit(s, p) \cup {0}

\* The mask shifted up by the packets that were skipped, low bit set for data.
ShiftedMask(s, p) ==
    LET shift == Sub(pk_sequence_number(s, p), last_seq_recvd[s])
    IN  {i \in 0 .. W - 1 : i - shift \in ack_mask[s]}
            \cup (IF p.type = "data" THEN {0} ELSE {})

notify_count(s, p) == Sub(pk_highest_ack(s, p), highest_acked_seq[s])
\* Mutant: the loop forgets the + 1 of its zero-based index.
notify_index_from_zero(s, i) == Add(highest_acked_seq[s], i - 1)
notify_index(s, i) == Add(highest_acked_seq[s], i)
\* Mutant: the loop looks at the flag of the newest packet for each of them.
packet_transmit_success_newest(s, p, i) == 0 \in p.mask
packet_transmit_success(s, p, i) ==
    Sub(pk_highest_ack(s, p), notify_index(s, i)) \in p.mask
Successes(s, p) ==
    {i \in 1 .. notify_count(s, p) : packet_transmit_success(s, p, i)}

\* One packet_notify event per newly acknowledged packet.
NewNotifyEvents(s, p) ==
    [i \in 1 .. notify_count(s, p) |->
        [seq |-> notify_index(s, i), delivered |-> packet_transmit_success(s, p, i)]]

\* Mutants: taken from what was received until now; from the next ring entry.
NotifiedAckAck_now(s, p) ==
    IF Successes(s, p) = {} THEN last_recv_ack_ack[s] ELSE last_seq_recvd[s]
NotifiedAckAck_next_entry(s, p) ==
    IF Successes(s, p) = {}
      THEN last_recv_ack_ack[s]
      ELSE last_seq_recvd_at_send[s][(notify_index(s, Max(Successes(s, p))) + 1) % W]

\* _last_recv_ack_ack after the notify loop ...
NotifiedAckAck(s, p) ==
    IF Successes(s, p) = {}
      THEN last_recv_ack_ack[s]
      ELSE last_seq_recvd_at_send[s][notify_index(s, Max(Successes(s, p))) % W]

\* ... and after "the other side knows more about its window than we do".
NewAckAck(s, p) ==
    IF Sub(pk_sequence_number(s, p), NotifiedAckAck(s, p)) > W
      THEN Sub(pk_sequence_number(s, p), W)
      ELSE NotifiedAckAck(s, p)

\* Pings and half-full windows are acked back at once.
MustAck(s, p) ==
    \/ p.type = "ping"
    \/ Sub(pk_sequence_number(s, p), NewAckAck(s, p)) > W \div 2

\* Mutant: a packet with the number of the last one is handed over again.
IsNewData_repeated(s, p) == p.type = "data"

\* Is the packet handed to the application?
IsNewData(s, p) ==
    p.type = "data" /\ last_seq_recvd[s] # pk_sequence_number(s, p)

\* The network after delivering p: it may still hold a duplicate.
Delivered(p) == {net \ {p}} \cup (IF Duplicates THEN {net} ELSE {})

\* read_raw_packet of a packet that passes both tests.
ReadPacket(s, p) ==
    LET seq == pk_sequence_number(s, p)
    IN  /\ status[s] = "up"
        /\ p.from = Peer(s) /\ Fresh(s, p)
        /\ Accepts(s, p)
        /\ ack_mask' = [ack_mask EXCEPT ![s] = ShiftedMask(s, p)]
        /\ notify_events' = [notify_events EXCEPT ![s] = @ \o NewNotifyEvents(s, p)]
        /\ last_recv_ack_ack' = [last_recv_ack_ack EXCEPT ![s] = NewAckAck(s, p)]
        /\ highest_acked_seq' = [highest_acked_seq EXCEPT ![s] = pk_highest_ack(s, p)]
        /\ last_seq_recvd' = [last_seq_recvd EXCEPT ![s] = seq]
        /\ ping_send_count' = [ping_send_count EXCEPT ![s] = 0]
        /\ idle' = [idle EXCEPT ![s] = Unset]
        /\ packet_events' =
             IF IsNewData(s, p)
               THEN [packet_events EXCEPT
                       ![s] = Append(@, [seq |-> seq, payload |-> p.seq])]
               ELSE packet_events
        /\ arrived' = IF p.type = "data"
                        THEN [arrived EXCEPT ![s] = @ \cup {p.seq}]
                        ELSE arrived
        /\ \E N \in Delivered(p) :
             net' = IF MustAck(s, p)
                      THEN Transmit(N, Header(s, "ack", last_send_seq[s], seq,
                                              NewAckAck(s, p), ShiftedMask(s, p)))
                      ELSE N
        /\ UNCHANGED <<status, sendVars>>

\* read_raw_packet of a packet that fails a test, or reaches a closed connection.
DiscardPacket(s, p) ==
    /\ p.from = Peer(s) /\ Fresh(s, p)
    /\ status[s] # "up" \/ ~Accepts(s, p)
    /\ net' \in Delivered(p)
    /\ UNCHANGED <<status, sendVars, recvVars, timerVars, eventVars>>

\* UDP (or the simulated packet loss of read_raw_packet) drops a packet.
LosePacket(p) ==
    /\ net' = net \ {p}
    /\ UNCHANGED <<status, sendVars, recvVars, timerVars, eventVars>>

-----------------------------------------------------------------------------
(* check_timeout, from the sweep of process_connections, d intervals after   *)
(* the previous sweep.                                                       *)

StartTimer(s) ==
    /\ status[s] = "up"
    /\ idle[s] = Unset
    /\ idle' = [idle EXCEPT ![s] = 0]
    /\ UNCHANGED <<status, sendVars, recvVars, ping_send_count, net, eventVars>>

WaitTimer(s, d) ==
    /\ status[s] = "up"
    /\ idle[s] # Unset /\ idle[s] + d <= PingTimeout
    /\ idle' = [idle EXCEPT ![s] = @ + d]
    /\ UNCHANGED <<status, sendVars, recvVars, ping_send_count, net, eventVars>>

\* Mutant: the ping is not counted.
SendPing_uncounted(s, d) ==
    /\ status[s] = "up"
    /\ idle[s] # Unset /\ idle[s] + d > PingTimeout
    /\ ping_send_count[s] < PingRetryCount
    /\ idle' = [idle EXCEPT ![s] = 0]
    /\ net' = Transmit(net, Header(s, "ping", last_send_seq[s], last_seq_recvd[s],
                                   last_recv_ack_ack[s], ack_mask[s]))
    /\ UNCHANGED <<status, sendVars, recvVars, ping_send_count, eventVars>>

SendPing(s, d) ==
    /\ status[s] = "up"
    /\ idle[s] # Unset /\ idle[s] + d > PingTimeout
    /\ ping_send_count[s] < PingRetryCount
    /\ idle' = [idle EXCEPT ![s] = 0]
    /\ ping_send_count' = [ping_send_count EXCEPT ![s] = @ + 1]
    /\ net' = Transmit(net, Header(s, "ping", last_send_seq[s], last_seq_recvd[s],
                                   last_recv_ack_ack[s], ack_mask[s]))
    /\ UNCHANGED <<status, sendVars, recvVars, eventVars>>

\* Mutant: a side with nothing left to be acknowledged does not give up.
TimeOut_while_sending(s, d) ==
    /\ status[s] = "up" /\ last_send_seq[s] # highest_acked_seq[s]
    /\ idle[s] # Unset /\ idle[s] + d > PingTimeout
    /\ ping_send_count[s] >= PingRetryCount
    /\ status' = [status EXCEPT ![s] = "timed_out"]
    /\ UNCHANGED <<sendVars, recvVars, timerVars, net, eventVars>>

TimeOut(s, d) ==
    /\ status[s] = "up"
    /\ idle[s] # Unset /\ idle[s] + d > PingTimeout
    /\ ping_send_count[s] >= PingRetryCount
    /\ status' = [status EXCEPT ![s] = "timed_out"]
    /\ UNCHANGED <<sendVars, recvVars, timerVars, net, eventVars>>

CheckTimeout(s) ==
    \/ StartTimer(s)
    \/ \E d \in 1 .. PingTimeout + 1 : WaitTimer(s, d) \/ SendPing(s, d) \/ TimeOut(s, d)

Next ==
    \/ \E s \in Side : SendData(s) \/ SendDataFull(s)
    \/ \E s \in Sweeping : CheckTimeout(s)
    \/ \E s \in Side, p \in net : ReadPacket(s, p) \/ DiscardPacket(s, p)
    \/ \E p \in net : LosePacket(p)

Spec == Init /\ [][Next]_vars

\* process_connections keeps being called, and a packet does not stay in the
\* network for ever: it is read, discarded or lost.
Fairness ==
    /\ \A s \in Sweeping : WF_vars(CheckTimeout(s))
    /\ WF_vars(\/ \E s \in Side, p \in net : ReadPacket(s, p) \/ DiscardPacket(s, p)
               \/ \E p \in net : LosePacket(p))

FairSpec == Spec /\ Fairness

-----------------------------------------------------------------------------
(* Properties. *)

\* Type correctness: no register, packet or event takes part of a ring entry that
\* write_packet_header has not written yet.
TypeOK ==
    /\ status \in [Side -> {"up", "timed_out", "trapped"}]
    /\ last_send_seq \in [Side -> Uint]
    /\ highest_acked_seq \in [Side -> Uint]
    /\ last_seq_recvd \in [Side -> Uint]
    /\ last_recv_ack_ack \in [Side -> Uint]
    /\ last_seq_recvd_at_send \in [Side -> [0 .. W - 1 -> Uint \cup {Uninitialised}]]
    /\ ack_mask \in [Side -> SUBSET (0 .. W - 1)]
    /\ ping_send_count \in [Side -> 0 .. PingRetryCount]
    /\ idle \in [Side -> {Unset} \cup 0 .. PingTimeout]
    /\ \A p \in net :
         /\ p.from \in Side /\ p.type \in PacketType
         /\ p.seq \in Uint /\ p.ack \in Uint
         /\ p.bits \in Nat /\ p.mask \in SUBSET (0 .. W - 1)
    /\ packet_events \in [Side -> Seq(PacketEvent)]
    /\ notify_events \in [Side -> Seq(NotifyEvent)]
    /\ arrived \in [Side -> SUBSET Uint]

\* The two ends agree on the window: what s knows acknowledged is behind what
\* its peer received, which is behind what s sent, and all of it fits the send
\* window, so that a ring entry is never overwritten before it is read.
WindowOrder ==
    \A s \in Side :
        /\ Sub(last_seq_recvd[Peer(s)], highest_acked_seq[s])
             <= Sub(last_send_seq[s], highest_acked_seq[s])
        /\ Sub(last_send_seq[s], highest_acked_seq[s]) <= W - 2

\* _last_recv_ack_ack, by which s stops repeating its ack flags, never runs
\* ahead of what the peer has really been told, and the flags still to repeat
\* fit the mask: the assert on ack_byte_count in write_packet_header holds.
AckAckIsKnown ==
    \A s \in Side :
        /\ Sub(last_seq_recvd[s], highest_acked_seq[Peer(s)])
             <= Sub(last_seq_recvd[s], last_recv_ack_ack[s])
        /\ Sub(last_seq_recvd[s], last_recv_ack_ack[s]) <= W

\* Whatever packet s processes next, every ack flag the notify loop looks at
\* was in that packet: none is taken from the unwritten part of pk_ack_mask.
NotifyBitsSent ==
    \A s \in Side, p \in net :
        p.from = Peer(s) /\ Fresh(s, p) /\ Accepts(s, p)
            => notify_count(s, p) <= p.bits

\* The low bits on the wire are enough: a processed packet is taken for the
\* sequence and ack numbers it was sent with, however late it is.
DecodedExactly ==
    \A s \in Side, p \in net :
        p.from = Peer(s) /\ Fresh(s, p) /\ Accepts(s, p)
            => pk_sequence_number(s, p) = p.seq /\ pk_highest_ack(s, p) = p.ack

\* read_packet_header only discards what is out of order: a packet ahead of
\* what s received, acking what s has in flight, is processed.
OnlyStaleDiscarded ==
    \A s \in Side, p \in net :
        /\ p.from = Peer(s) /\ Fresh(s, p)
        /\ Sub(p.seq, last_seq_recvd[s]) <= W - 1
        /\ Sub(p.ack, highest_acked_seq[s]) <= Sub(last_send_seq[s], highest_acked_seq[s])
        => Accepts(s, p)

\* Every packet up to _highest_acked_seq was notified exactly once, in order.
NotifiedOnceInOrder ==
    \A s \in Side :
        /\ Len(notify_events[s]) = Sub(highest_acked_seq[s], InitSeq[s])
        /\ \A i \in 1 .. Len(notify_events[s]) :
             notify_events[s][i].seq = Add(InitSeq[s], i)

\* The application sees each packet at most once, in the order they were sent,
\* with the sequence number the sender gave it.
PacketsInOrder ==
    \A s \in Side :
        LET age(i) == Sub(packet_events[s][i].seq, InitSeq[Peer(s)])
        IN  \A i \in 1 .. Len(packet_events[s]) :
              /\ packet_events[s][i].seq = packet_events[s][i].payload
              /\ i > 1 => age(i - 1) < age(i)

HandedOver(s, n) == \E i \in 1 .. Len(packet_events[s]) : packet_events[s][i].payload = n

\* "Not delivered" is final: a packet notified as lost was never handed to the
\* peer's application and never will be.
NackIsFinal ==
    \A s \in Side : \A i \in 1 .. Len(notify_events[s]) :
        ~notify_events[s][i].delivered => ~HandedOver(Peer(s), notify_events[s][i].seq)

\* "Delivered" is never invented: the packet reached the peer's connection.
AckMeansArrived ==
    \A s \in Side : \A i \in 1 .. Len(notify_events[s]) :
        notify_events[s][i].delivered => notify_events[s][i].seq \in arrived[Peer(s)]

\* What the applications see of the direction from s to its peer.
SentBy(s) == Sub(last_send_seq[s], InitSeq[s])
ArrivedFrom(s) == {Sub(n, InitSeq[s]) : n \in arrived[Peer(s)]}
HandedFrom(s) ==
    [i \in 1 .. Len(packet_events[Peer(s)]) |-> Sub(packet_events[Peer(s)][i].payload, InitSeq[s])]
ToldTo(s) ==
    [i \in 1 .. Len(notify_events[s]) |->
        [packet |-> Sub(notify_events[s][i].seq, InitSeq[s]),
         delivered |-> notify_events[s][i].delivered]]

\* Each direction of the connection is a NotifyChannel: packets are handed over and told
\* of in order, what was told to be lost is never handed over, what was told to be
\* delivered has arrived, and no more packets than the window allows wait for their
\* notification, whatever both sides and the network do meanwhile.
ChannelA == INSTANCE NotifyChannel WITH
    Window <- W - 2, sent <- SentBy("A"), arrived <- ArrivedFrom("A"),
    handed <- HandedFrom("A"), told <- ToldTo("A")
ChannelB == INSTANCE NotifyChannel WITH
    Window <- W - 2, sent <- SentBy("B"), arrived <- ArrivedFrom("B"),
    handed <- HandedFrom("B"), told <- ToldTo("B")
ImplementsChannel == ChannelA!Spec /\ ChannelB!Spec

\* "Delivered" means that the peer's application was given the packet.
AckMeansHandedOver ==
    \A s \in Side : \A i \in 1 .. Len(notify_events[s]) :
        notify_events[s][i].delivered => HandedOver(Peer(s), notify_events[s][i].seq)

\* No call of the application ends in a failed assertion. It does
\* not hold (README, further divergences).
NeverTrapped == \A s \in Side : status[s] # "trapped"

\* Every data packet is eventually notified, or the sender is told that the
\* connection timed out.
EveryPacketNotified ==
    \A s \in Side : \A n \in 1 .. MaxPackets[s] :
        (Sub(last_send_seq[s], InitSeq[s]) >= n)
            ~> (Len(notify_events[s]) >= n \/ status[s] # "up")

\* When one end is gone the other one notices.
DeadPeerNoticed ==
    \A s \in Side : (status[s] # "up") ~> (status[Peer(s)] # "up")
=============================================================================
