# A TLA+ verification of torque_sockets

torque_sockets is a C++ library for connections over UDP: a handshake with client puzzles
and key exchange, then a *notify protocol* that delivers packets unreliably but tells the
sender, in order, which of them arrived. This directory models its core in TLA+, checks the
models with TLC on small instances and proves the central invariants with TLAPS for every
instance. Line numbers below are those of the files under `src/`.

- [Inventory](#inventory)
- [The modules and the code](#the-modules-and-the-code)
- [Runs, bounds and results](#runs-bounds-and-results)
- [Fairness](#fairness)
- [What the violated run shows](#what-the-violated-run-shows)
- [Proofs](#proofs)
- [Not modelled](#not-modelled)
- [Plan](#plan)

## Inventory

| Component | State | Operations | Correct when |
|---|---|---|---|
| `torque_connection` (`torque_sockets/torque_connection.h`) | `_last_seq_recvd`, `_highest_acked_seq`, `_last_send_seq`, `_ack_mask`, `_last_recv_ack_ack`, `_initial_send_seq`, the ring `_last_seq_recvd_at_send`, ping time and ping count | `send_packet`, `read_packet_header`, `write_packet_header`, `check_timeout`, `send_ping_packet`, `send_ack_packet` | the ends agree on the window; each data packet is notified once, in order and truthfully; packets are handed over in order; a dead peer is noticed |
| `torque_socket` with `pending_connection` | `_pending_connections`, `_connection_list`, the tables `_connection_id_lookup_table` and `_connection_address_lookup_table`, `_puzzle_manager`, `_allow_connections` | `connect`, `accept_connection`, `disconnect`, `set_allows_connections`, one handler per packet type, the sweep of `process_connections`, destructor | one puzzle solution opens one connection; what the initiator holds the host accepted; the events of an id tell one true story; every attempt ends |
| `client_puzzle_manager` | current and last nonce, their tables of used client nonces, two times | `tick`, `check_solution`, `get_current_nonce` | a solution is accepted once; a nonce is good for a full refresh interval |
| `thread_queue`, `puzzle_solver`, `semaphore`, `mutex` | list of request records, semaphore count, lock, one position per worker | `post_request`, `cancel_request`, `get_next_result`, `dispatch_next_call` | no deleted record is touched; each request is answered at most once, and is answered |
| `hash_table_flat`, `looping_counter` | bucket array, count, growth threshold | `_insert`, `_find`, `_remove`, growth | no call loses, doubles or overwrites an entry; an entry is found until a removal disturbs the table; every probe ends |
| event queue, packet reader thread (`socket_event_queue.h`, `torque_socket.h`) | list of events (head, tail, `next_event`) with its page allocator, `_received_packet_list` under a mutex, the thread | `post_event`, `clear`, `dequeue`, `get_next_event`, `thread_socket_process`, `bind` | packets and events come once and in order; memory outlives its use; what was read is handled |
| introduced connections | `_introductions` of the introducer, introducer, remote id, nonces and possible addresses of pending connections | `introduce_connection`, `connect_introduced`, introduction requests, introductions and punches | a socket punches only whom it was introduced to, goes on with nobody else, and ends |
| `bit_stream`, base type i/o | buffer, bit position, end, error flag | `_copy_bits`, `write_bits`, `read_bits`, integers and ranges | what is written is read, and nothing else is touched |
| `page_allocator`, `zone_allocator` | current page, offset, list of pages | `allocate`, `clear` | blocks do not overlap and live until `clear` |
| `hash_table_array`, `array`, `small_block_allocator`, `ref_object` | containers | sequential | see [Not modelled](#not-modelled) |
| crypto wrappers, platform layer, C API, type database, plugin, libtomcrypt | — | — | see [Not modelled](#not-modelled) |

**How they interact.** The application calls `torque_socket` through the C API and polls
`get_next_event`. That call reads packets (or takes those of the reader thread), sends each one
to a handshake handler or to `torque_connection::read_packet_header`, collects solved puzzles
from `puzzle_solver` and runs `process_connections`, the timed sweep that retries handshakes,
checks connection timeouts and ticks the puzzle manager. Everything but the puzzle workers (and
the optional reader thread) runs in the application's thread, so a handler is atomic and the
concurrency is: two machines over an unreliable network; the application's calls between any
two packets; worker threads against the main thread.

**What is hard here.** Numbers sent modulo a power of two and extended again by a receiver that
lags; a mask of acknowledgments that is pruned by what the other end is known to know; pings
that share their sequence number with data; packets of an old attempt that meet a new one; used
nonces forgotten at a refresh; records deleted by one thread and held by another; a semaphore
kept in step with a list by hand; a packet list that one thread appends to and another one empties;
events whose memory is freed all at once; three parties that must agree who introduces whom;
copies between bit positions of any alignment; open addressing with removal. `PROJECT.json` lists these
hazards with their lines and the properties that cover them.

## The modules and the code

`PROJECT.json` ("map") gives the source lines of every definition. Names follow the source
where TLA+ allows it.

### `TorqueConnection` — the notify protocol

Both ends of one established connection, "A" and "B". Every member of `torque_connection` that the
protocol reads is a variable, a function of the side; `net` holds the packets under way;
`packet_events` and `notify_events` are what the application was told and `arrived` is a history
for the properties. One action per entry point: `SendData` (`send_to_connection` down to
`write_packet_header`), `SendDataFull` (the same call with the window full, which ends at the
assertion, when the application does not look), `CheckTimeout` (ping, count, give up),
`ReadPacket` and `DiscardPacket` (the whole of `read_packet_header`: extension of the partial
numbers, the tests against the windows, the notify loop with its ring lookups, the shift of the
mask, the answer to a ping, the ack sent when the peer's knowledge lags, the packet event), and
`LosePacket`. A packet that is read may stay in the network (`Duplicates`), and packets are read
in any order. Only the low bits of the numbers are looked at by the reader, which extends them by
the code's own arithmetic modulo `UMod` (2^32 in the code); the packet keeps the full numbers so that
properties can compare. The ack flags travel in whole bytes of the 32 bit mask: here groups of `AckGroup` bits. A ring
entry that was never written holds a value that is no register value, so that a use of one would be
a type error. Left out: payloads, the cipher, simulated loss and latency (the network already
does that) and the round trip estimate.

`NotifyChannel` is the promise for one direction: packets are sent at most a window ahead of what
the sender was told, arrive in any order or not at all, are handed over in increasing order, and the
sender is told of each one, in order and several at a time, whether it was delivered. A packet told
to be lost is never handed over, before or after; one told to be delivered has arrived, which is
weaker than handed over (see what the violated run shows). `TorqueConnection` instantiates it twice, as `ChannelA`
and `ChannelB`: the packets sent, arrived and handed over are the data packets of that side counted
from its initial number, and what was told are its `notify_events`. `ImplementsChannel` says that
every step of the protocol is a step of each channel or leaves it unchanged, so that the windows,
masks, partial numbers, pings and the network are shown to be hidden from the two applications.

### `WorkRequests`, `ThreadQueue` — worker threads

`WorkRequests` is the promise: a request is posted, then answered at most once, with a solution, or
withdrawn. `ThreadQueue` is the code: `post_request`, `cancel_request`, the scan of
`get_next_result` record by record (it holds the lock, but reads states that workers write
without it), and the steps of `dispatch_next_call` in each worker: the wait, the search under the
lock, the work with the two reads of the cancelled flag, and the completion outside the lock. A
critical section that reads no such state is one step. Each record has a state, `"deleted"` among
them, so that a use after deletion is visible. The refinement mapping takes for outstanding what is
posted, live and not cancelled.

### `PuzzleManager`, `ClientPuzzle` — client puzzles

`PuzzleManager` holds the operators of `client_puzzle_manager` (nonces, tables, refresh,
`check_solution`) that both `ClientPuzzle` and `TorqueSocket` use. `ClientPuzzle` adds time: the
clock moves, the manager ticks and hands its nonce out, and clients (or copies of their packets)
submit solutions to any nonce at any time. The
hash computation is the predicate that a solution is right. `_last_update_time`, which no
constructor sets, starts at any value of `Garbage`.

### `HashTableFlat`, `LookupTable` — lookup tables

`HashTableFlat` is the code: the bucket array with linear probing, insertion with growth through the primes of
`hash_table_flat`, `_find`, and `_remove` with its repair loop and the `looping_counter` it uses as the code
has them. As in `_add_connection`, a key is inserted without a look whether it is there, so that one key may have
several entries. It is instantiated with the keys of `torque_socket`'s tables: ids, whose hash is the id,
and addresses, whose hashes may collide.

The repair after a removal starts at bucket 0, wherever the gap is (`hash_table_flat.h:190`, `hash.h:18`), and so
may leave entries that `_find` no longer reaches. `LookupTable` is what is left to rely on: a set of entries; `find` returns the value
of one of the key's, and `remove` takes one of the key's; a removal that leaves others behind *disturbs* the table, and until the table is
empty again either call may miss an entry that is there. `HashTableFlat` is shown to keep to this (`FindsAsPromised`,
`StepsAsPromised`), and the tables of `TorqueSocket` are `LookupTable`s. That allows more than the code does, since not every
removal cuts an entry off: what is shown of `TorqueSocket` holds for whatever the hashes of ids and addresses are.

### `TorqueSocket` — the handshake

Any number of sockets, each with its pending connections, connections, lookup tables by id and by address, puzzle
manager and the switch `_allow_connections`. The network is a set that only grows: every packet ever
sent may arrive at any later time, any number of times, or never, which is loss, duplication,
delay and reordering at once. One action per API call (`connect`, `accept_connection`,
`accept_connection_challenge`, `disconnect`, `set_allows_connections`, destruction), per packet handler with each of its early
returns, per sweep of `process_connections`, and a restart of the process. Random values (client
nonces, keys, ids) are fresh numbers. A packet encrypted with a shared secret is one only the
owners of its keys can read. `log` keeps the events of each connection id, `accepted` what each
host has accepted.

The value of a table's entry is the id of a connection, which stands for the pointer to it. Every lookup goes through the
tables as in the code: a connect request or a disconnect packet finds its connection by address, `_disconnect` by id, and
each may miss it once the table is disturbed. A missed removal leaves an entry of a connection that is gone (`Dangling`); a
handler that uses one, or the null pointer of line 658, leaves the process in status "undefined", from which it does nothing more but restart. A
`disconnect` that misses the connection does nothing (line 1169); the code posts no event for either, and the entries "closed" and
"close_missed" of `log` are marks of the history. The destructor closes the connections one after the other by their ids
(`Destroy`, `CloseNext`), and ends "closed", or "hung" in its loop when the table misses one.

A run may start from `Init` or from a later state (`ConnectedInit`), in which the other sockets have connected to a host
and the packets of that are gone. `Targets`, `Losers`, `Closers`, `Doors` and `Quitters` say whom an application connects to, where
connections may time out, and which applications disconnect, open and close the door, or destroy their socket.

The notify protocol starts when both ends have the connection, with the initial sequence numbers
exchanged here; the two models meet at that point and are checked separately, since the packets
of the one are never read by the handlers of the other (they are told apart by their first byte
and the connection id).

### `Introduction` — introduced connections

`TorqueSocket` with one socket as the introducer, which all the others are connected to at the
start (`ConnectedInit`). The ids in its records and in pending connections are looked up in the table when they are used, and may be missed. The introducer's `_introductions` is a variable; an introduced attempt is a pending connection of
`TorqueSocket` in two more states and with three more members. One action per
call (`introduce_connection`, `connect_introduced`), per packet (introduction request,
introduction, punch, and the challenge request that meets an introduced host) and for the sweep
of the new states; `HandshakeStep` takes over the handlers of `TorqueSocket`, so that an
introduced pair goes on into the same handshake. The host nonce that `_handle_connect_challenge_request`
compares is a local the code never reads from the packet: both outcomes of the comparison are
possible. A connection to the introducer may time out at any moment on the sockets of `Losers`. A pair may be introduced
any number of times, up to `MaxIntroductions` records.

### `PageAllocator`, `SocketEvents` — from packets to events

`PageAllocator` holds the operators of `page_allocator`: a block is a range of bytes in a numbered run of
pages, and runs freed by `clear` are never numbered again, so that stale memory can be told from new.
`SocketEvents` has two threads. The reader (`thread_socket_process`) takes one step for each access
to what both threads use: read, lock, each link of the walk, the append, unlock, notify. The main
thread calls `bind`, `get_next_event` (one step for the entry, for each event the sweep posts, the
test of the queue, the lock, the new head, the unlock, each event a handler posts, the return), calls that post
an event, and the destructor. The notification is that of the plugin, which asks the browser to
call `pump` later; `pump` calls `get_next_event` until it gets nothing. A failing `bind` returns
either result, since the code leaves it unset. The application is done with an event when it asks for
the next one. A socket without the thread reads packets itself.

The event queue is the list of the code: `queue` has the head and the tail, `entries` the `queue_entry` records with their
`next_event`, by the number of the event. `post_event` allocates the event, the entry, the data and the key it has, and
links the entry behind the tail; `dequeue` moves the head; a clear takes all the entries away with their memory. A handler
posts an event alone, with data, or with data and a public key (line 497).

### `BitStream` — bits

`_copy_bits` with its three branches, its masks and its sliding word as they are, for bytes of any
width (`ByteBits`, 8 in the code): with four bits every pair of alignments and every number of
bytes is met with few bits. A byte or a word is the set of the positions of its one bits, so that `&`
and `|` are intersection and union, a mask is an interval and a shift moves positions; an integer becomes bits, and bits an
integer, where the code takes the address of one (`Bytes`, `Value`). Around the copy `_write_bits` and `_read_bits` with what they do at the end of the
buffer, integers, ranges with the width computed from the exponent of a rounded float
(`get_binary_log`, for a float of `MantissaBits` bits), and the way through a packet
(`packet_stream`). The properties compare with a definition bit by bit.

## Runs, bounds and results

Passing runs. "States" are distinct states, approximately.

| Run | Question | Instance |
|---|---|---|
| `conn_stream` | Do the ends agree on the window, is every accepted header decoded exactly, is the mask complete for what is still needed, are packets in order and notifications true, and is each direction a `NotifyChannel`, with data in both directions and across a wrap of the partial numbers? | window 4, numbers modulo 8, three packets one way and one the other, two in flight, delay up to 4 sends, pings, acks, duplicates, a send with the window full; 520 000 states |
| `conn_live` | Is every packet notified or the connection timed out? Is a dead peer noticed? | two packets, sweep on both sides, fairness |
| `tq_workers` | Is a deleted record ever used, a request left without a worker, answered twice, or after it was cancelled? Is every one that can be answered answered? | 2 workers, 4 requests, one without a solution, fairness |
| `puzzle` | Can a solution be used twice? Is a nonce good for a full interval? | 2 clients, 5 nonces, 3 contents of the uninitialised time |
| `hash_grow` | Does every probe end, and does each call do what `LookupTable` promises, through growth, repeated keys and removals? | every order of six insertions of 5 colliding keys, through 3 sizes, round the end of the table, with at most 2 removals; 280 000 states |
| `sock_one` | One attempt with everything around it (a retry, a refresh, a door that closes, timeouts, disconnects, a destruction): does a solution open one connection, are the events true also when a disconnect misses, does the attempt end? | three sockets, from nothing and from when two are connected to the host; 170 000 states, fairness of the sweep |
| `sock_both` | Two sockets that connect to each other: is what each end holds what the other accepted? | two connections to one address in each table, one side closes, the other loses; 430 000 states |
| `sock_restart` | Two attempts at one host, at once or in turn, the initiator restarting at its address before, between or after them: does the host keep one connection while its tables are in order, and is what the initiator holds what the host accepted? | three sockets, from nothing and from when two are connected to the host, which may lose either; 290 000 states |
| `intro` | Does a socket punch only whom it was introduced to, go on with nobody else, and end, whatever is lost and whoever times out? | two sockets and their introducer, one introduction, the host asks twice, one retry of each kind; 170 000 states, fairness of the sweep |
| `events` | Is the packet list a queue, is the list of events one, is their memory theirs, is every packet read handled? | 3 packets, 2 events of handlers, each alone, with data, or with data and a key, one of the sweep, one of a call, with and without the thread; 350 000 states, fairness |
| `bits` | Is a copy between any two bit positions exact, is what was written read, is an overrun noticed? | bytes of 4 bits, words of 3 bytes, a buffer of 5, 2 fields of every length and alignment, 3 old contents; 340 000 states |

**Why the bounds are enough.** W = 4 is the smallest window in which packets are outstanding
(W−2 of them) while the mask has more than one group of flags; three packets fill the window, go across
the wrap of the partial numbers and reuse ring entries through the answers to them. One case is not
reached: the clamp of `_last_recv_ack_ack` (`NewAckAck`, line 299) needs five packets (`PacketsA = 5`, `PacketsB = 0`
passes as well, and takes longer); the theorems cover it. Two packets in flight are what reordering
needs, and since a packet may be delivered again it can meet any later one. `MaxLag` is an
assumption on the network which the code makes as well: a packet that is later than a whole range of
partial numbers cannot be told from a new one (2048 and 1024 numbers for a window of 32 in the
code). The theorems carry the same assumption for every value. For the handshake, two attempts and
two sockets are what a packet of one attempt needs to meet another. The third socket, connected to the same host, is
there for the tables: only the removal of one of two entries disturbs a table, after which lookups and removals of the
other may miss. `Losers` and
`Targets` leave out timeouts and attempts that a run's question does not need. `MaxIntroductions` is 1 in
`intro`, since two records of a pair take TLC too long; the theorems hold for any number. Four requests and two
workers let one worker hold a record while the other passes it, with a cancelled one between. The
hash table's behaviour depends on runs of colliding entries and on growth; six entries of five keys in tables of
5, 11 and 23 buckets give both. Three packets let the reader append while one is taken and one
waits; pages of 12 units with events of 4, data of 7 and a key of 11 make allocations that fit the current page,
that open a new current page, and that get a page, or two, behind it. Not exercised: `SemaphoreMax` is as large as the number of
requests in `tq_workers` (see `NoLostWakeup` below for a smaller one), and a single worker with an unsolvable puzzle is
excluded by `EveryRequestAnswered` itself. `ThreadQueue` assumes sequentially consistent memory: what a compiler or a processor may
reorder around the flags that are read without the lock is not modelled. In `bits` the second field starts at every position
the first can leave.

Deadlock is not checked where the bounds on packets, attempts or time end every behaviour; in `ThreadQueue` it is checked, since there
the main thread can always poll.

Every property has a mutant in `PROJECT.json`: a plausible error in the code's definition with
which TLC finds the property violated on the same instance.

## Fairness

- `TorqueConnection!FairSpec`: weak fairness of `CheckTimeout` on every side that sweeps, because
  `process_connections` runs in every `get_next_event` and visits every connection, and of the
  network's steps on the packets under way (deliver *or lose*: it never promises delivery). No
  fairness for the application's sends.
- `ThreadQueue!FairSpec`: weak fairness of the main thread's polling and of each worker's own
  steps; strong fairness of a worker's step from the wait of the semaphore to the lock, since
  another thread can take the mutex in between and a mutex of the operating system is not kept
  from one thread for ever. A worker that solves an unsolvable puzzle never completes, and the
  property says so.
- `SocketEvents!FairSpec`: weak fairness of the reader between the lock and the notification, of the
  main thread inside a call, of the browser's call and of the pump's next call; strong fairness of
  the two lock steps, as above. None for the arrival of packets or the return of `recv_from`.
- `Introduction!IntroSpec`: weak fairness of the sweep over introduced and initiating pending
  connections, as for `TorqueSocket`.
- `TorqueSocket!FairSpec`: weak fairness of the sweep on each initiator's pending connections
  only. No packet need ever arrive. A host's pending connection is not swept fairly, since its
  interval and send time are never set (line 765 and following of `torque_socket.h`).

## What the violated run shows

`conn_ack_delivered` checks one sentence of the documentation, "reliable notification"
(`TorqueSocket_API.txt:52`), against the code: a data packet overtaken by a ping of the same
number is acked and dropped (`torque_connection.h:276`, `317`), so its sender is told of a
delivery the other application never saw. "findings" in `PROJECT.json` quotes both.

### Further divergences

The modules exhibit these as well. They have no run of their own; checking the named definition
on the named instance shows each one.

| Definition, instance | What the code does |
|---|---|
| `TorqueSocket!SurvivesDisconnect`, `sock_one.cfg` with `Spec` | a disconnect that overtakes the accept meets a pending connection, and its event is posted through a null pointer (`torque_socket.h:658`); line 24 says the packet tells "that the requested connection is politely rejected" |
| `HashTableFlat!FindsEveryEntry`, `hash_grow.cfg` with keys 1, 2, 3, `Hash <- IdHash`, three insertions, one removal | the repair after a removal starts at bucket 0, since `looping_counter`'s constructor turns every index below the count into 0 (`hash_table_flat.h:190`, `hash.h:18`); once id 2 is removed, id 3 is not found. `hash_table_flat.h:188` says "check that subsequent entries in the hash table are not overflow" |
| `TorqueSocket!DestructorEnds`, `sock_one.cfg` | the destructor disconnects the first connection of the list by its id until the list is empty (`torque_socket.h:1272`); an id the table misses is never disconnected, and the loop does not end. The instance has two connections and a table that may lose any entry; the code's table of ids loses one when the second of three is removed, as in the row above |
| `TorqueSocket!HostKeepsOne` without the condition on the tables, `sock_restart.cfg` | after such a loss a new connect request does not find the connection of its address (line 417), which stays beside the new one; `disconnect` of it does nothing (line 1169), and it is reported timed out later, after the application has closed it ("close_missed" in `EventsTellTheTruth`) |
| `SocketEvents!BoundSocketIsRead`, `events.cfg` with `MaxBinds = 2` | a `bind` while the reader of an earlier failed one is ending starts no thread (`torque_socket.h:1263`): nobody reads the socket. `torque_sockets_c_api.h:59` promises a background thread. It needs the unset result of `udp_socket.h:37` |
| `SocketEvents!SocketOutlivesReader`, `events.cfg` | the destructor waits for no thread: the reader may be about to use the list, the lock or the notification of a socket that is gone (`torque_socket.h:1268`) |
| `SocketEvents!ZoneEmptyWhenDestroyed`, `events.cfg` | members are destroyed in the reverse order, the zone before the pages taken from it; its assertion (`zone_allocator.h:19`, where the platform counts) fails unless the last `get_next_event` found nothing |
| `Introduction!AwaitedRequestMatches`, `intro.cfg` | an introduced host that took the challenge request awaits a connect request with the introduction's host nonce, but the request carries the puzzle's (`torque_socket.h:453`), and is dropped: an introduced pair only connects when the uninitialised nonce of line 289 sends the request down the ordinary way. `TorqueSocket_API.txt:138` says of introductions "(not implemented yet)" |
| `Introduction!SurvivesIntroduction`, `intro.cfg` | an introduction that arrives after the connection to the introducer is gone uses a null pointer (line 205) |
| `Introduction!PunchesOnlyTheIntroduced`, `intro.cfg` with `Introduces <- EachIsIntroduced`, `Asks <- EachAsksTwice`, `MaxAttempts <- EachTwice`, `MaxIntroductions = 2`, no retries | an introduction is taken by the first pending connection for the remote id, whatever its role (line 214): introduced in both directions, two sockets may both take the host's part |
| `write_ranged_uint32` over all 2^32 values (excluded by `StreamAssumption`) | `range_size` is 0 and its width the exponent of 0, minus 127 (`bit_stream.h:69`, `power_two_functions.h:11`) |
| `write_ranged_uint32` over 2^32 − 128 values or more (excluded by `RangeAssumption`) | `float32` rounds the size up to 2^32, whose exponent is 32; the size is no power of two, and the width is 33, one bit more than a `uint32` has (`power_two_functions.h:11`, `17`). The proof of `ReadsWhatWasWritten` found this: without the assumption it cannot say that the copy stays inside the value |
| `TorqueConnection!NeverTrapped`, `conn_ack_delivered.cfg` with `AppChecksWindow = FALSE` | a send with the window full stops at the assertion of `torque_connection.h:113`; `TorqueSocket_API.txt:114` promises a failure code |
| `OnlyStaleDiscarded`, same with `UMod = 16`, `InitA = 14` | `pk_highest_ack > _last_send_seq` (line 211) is a plain comparison: after a wrap of the 32 bit number good packets are dropped |
| `DecodedExactly`, same with `UMod = 16`, `InitA = 10` | just before that wrap a late packet with a stale ack is accepted |
| `ThreadQueue!NoLostWakeup`, one worker, 3 requests, `SemaphoreMax = 2` | an increment at the semaphore's maximum (`thread.h:50`, 1024) is lost and a request waits with every worker asleep |
| `ClientPuzzle!RefreshedInTime`, `Garbage = {30}`, `MaxTime = 20` | `_last_update_time` is not initialised; with one in the future the nonce is not refreshed in time (`client_puzzle.h:128`) |
| `TorqueSocket!LookupFindsActive`, `sock_restart.cfg` with `Spec` and `Closers = {A}` | with two connections to one address, closing the newer one removes the other's table entry and leaves its own (`torque_socket.h:915`), which the next packet from the address follows. A removal that misses its entry leaves one as well |
| `TorqueSocket!AskedBeforeGivingUp`, `sock_one.cfg` | a connect request is sent once; `connect_retry_count` is not used (line 829, comment at 38) |
| `TorqueSocket!AcceptedIsNotRejected`, `sock_one.cfg` | a duplicated connect request of an accepted connection is answered by an accept and a reject (line 419) |
| `TorqueSocket!CiphersAgree`, `sock_one.cfg` with `Spec` | the initiator never installs the cipher it has made (line 551) |

The loss of entries after a removal is part of every module above the table: `TorqueSocket` and `Introduction` rely on
`LookupTable` only, and their properties say where an undisturbed table is needed (`HostKeepsOne`, and the last part of
`EventsTellTheTruth`); the others hold whatever the tables lose.

## Proofs

Eight modules hold theorems; `tlapm` checks each of them to the last leaf.

Loops are recursive functions here, and the prover cannot instantiate the library's induction theorems, which take a
predicate. `SetInduction` (in `HashTableFlatProofs` and `BitStreamProofs`) takes a *set* instead: one that has 0 and is
closed under successor has every natural number, proved from the library's fact that an injection of a finite set into
itself is onto. `LoopHistory` follows from it: a loop of any number of turns has a history, so that a recursive
function satisfies the equation that defines it. What a loop leaves behind is then an invariant of its turns.

### `TorqueConnectionProofs`

For every window `W`, group size, modulus, number of packets and network bound that satisfy the named
assumptions of `TorqueConnection` (the moduli divide `UMod` and are no smaller than the window, `MaxLag` and the
window together do not exceed the range of partial numbers) and `NoWrap`: the initial number plus
the packets sent plus both moduli stays below `UMod`, so that the code's 32 bit comparisons do not
wrap. The two wrap instances above show that this assumption is needed.

- `TypeCorrect`: type correctness, with it that no unwritten entry of the ring is used.
- `WindowCorrect`: `WindowOrder`, `AckAckIsKnown`, `NotifyBitsSent`, `DecodedExactly`,
  `OnlyStaleDiscarded`.
- `NotificationCorrect`: `NotifiedOnceInOrder`, `PacketsInOrder`, `NackIsFinal`,
  `AckMeansArrived`.
- One theorem for each of these properties, as the runs check it: `WindowAgreed`,
  `KnowledgeIsTrue`, `FlagsArrive`, `HeadersDecoded`, `NothingFreshDiscarded`; `NotifiedOnce`,
  `HandedOverInOrder`, `NacksAreFinal`, `AcksAreTrue`.

None of them is inductive. `WindowInv` adds: the registers of the two ends are ordered along the
chain *what A has acked knowledge of ≤ what B has received ≤ what A has sent* and at most W−2
packets are outstanding (`OrderInv`); `_last_recv_ack_ack` never passes what the other end has
seen acked, and what lies above it fits in the mask (`KnownInv`); every packet in flight carries
numbers between the registers of its sender now and then, and *all* the flags its receiver may
still have to read (`NetInv`) — this is the point at which pruning the mask by the peer's
knowledge is shown to be safe; the mask says which packets arrived (`MaskInv`); and each ring
entry in use is what its packet carried (`RingInv`). `EventInv` relates flags, notifications and
packets handed over to these. The proof has one step per action and one per conjunct below it;
the lemmas on sequence numbers (extension of a partial number, `LEMMA`s at the top of the module)
are stated once.

The last part of the module proves `ConnectionImplementsChannel`: below the wrap `Spec => ImplementsChannel`, the
refinement of `NotifyChannel` in both directions. The mapping counts data packets from the initial number, so the proof needs,
beside `WindowInv` and `EventInv`, that what arrived, what was handed over and what was told are numbers of
packets that were sent (`NumberedInv`); the three are `ChannelInv`. A send is the channel's send because the window has room
when the code's own test passes, a packet read is an arrival and a handing over, then a notification of
all the packets its flags speak for; every other step, pings, acks and losses among them, leaves both channels
unchanged. A packet told to be lost is shown never to be handed over from the
order in which `read_packet_header` accepts numbers.

### `ThreadQueueProofs`

For any set of workers and any number of requests.

- `RecordsOutliveWorkers`: `Spec => []NoUseAfterDelete`.
- `QueueImplementsRequests`: `Spec` implements `WorkRequests!Spec`, from `QueueInv` (type
  correctness, posted records are numbered without gaps, a record a worker holds is marked as
  being processed and is not deleted, a completed record has its response).
- `WakeupsSuffice`: `NoLostWakeup` when `SemaphoreMax` is at least the number of requests, from `WakeupInv`, which
  counts semaphore units and awake workers against waiting records.

### `ClientPuzzleProofs`

For any clients, number of nonces, interval and content of the uninitialised time.

- `PuzzleTypeCorrect`: type correctness.
- `SolutionUsedOnce`: a client nonce is accepted at most once for a server nonce. `PuzzleInv` adds
  that nonces grow, that everything accepted for the two live nonces is in their tables, and how
  the times are ordered.
- `NonceOutlivesPuzzle`: a nonce handed out is answered for during a whole interval.

### `TorqueSocketProofs`

For any set of sockets, numbers of attempts, retries, refreshes and restarts, applications that
close, open and destroy as they like, and a network that may lose, repeat, delay and reorder every packet:

- `SocketTypes`: `TypeOK`; ids are unique among pending and established connections.
- `PuzzleOpensOnce`: `SolutionOpensOnce`.
- `AcceptedByTheHost`: `EstablishedMeansAccepted`.
- `OnePerAddress`: `HostKeepsOne`, at a host whose tables no removal has disturbed.
- `EventsAreTruthful`: `EventsTellTheTruth`, with disconnects that miss their connection.

They follow from `SocketInvariant`, an inductive invariant with a part for each argument. `LocalInv`: the fields a state relies
on, and that an initiator's nonce and sequence number name the attempt they were drawn for. `OnceInv`: the nonces of what was accepted, *and of
every request that waits for the application*, are used up (`Used`): their puzzle is older than the two
live ones, or of an earlier epoch, or the client nonce is in the puzzle's table; a request that passes `check_solution` is not
used, so that it is new, and a refresh or a restart only makes puzzles older. `AcceptInv`: every connect accept ever sent
was sent for something in `accepted`, also the ones sent again to a repeated request, because a
request's nonces are its sender's and so never those of a connection the receiver started.
`TableInv` has two parts. `TablesOK`, for every socket and whatever was missed: each connection
has its entry in the table of ids, where a key leads to its own id only; there are as many entries by address as connections, so
that a removal that leaves connections leaves entries and is seen to disturb the table; no entry is of a pending connection;
and the table of addresses has exactly the connections unless it is disturbed. `HostOK`, for a socket that has started no connection: while both tables are undisturbed addresses are
unique, since a new request finds the connection of its address, and `_disconnect` finds its id. (With a second connection to an address
this is false, see `LookupFindsActive` above, which is why `HostKeepsOne` is about such sockets.) `LogInv`: nothing was posted for ids and epochs still to come,
what is pending has only been announced, what is established said so last, or that a disconnect missed it, which only a disturbed table of ids does (`GoesOn`). The steps are of few kinds
(a pending connection changes, ends or is established, a connection ends, nothing but packets) and
each kind has a lemma; the proof then has one lemma per action.

### `SocketEventsProofs`

`AllocateSound`, for every page size, header size and alignment: `allocate` keeps the allocator sound and returns a block
that is inside a page and overlaps no block handed out since the last `clear`. `AllocatorInv` adds
where the current page is filled up to and that pages are never numbered twice.

For any number of packets, binds, posted events and any sizes, the module shows

- `ListIsQueue`: `ListIsFifo`, from `PacketInv`: the first and last packet of the list at every step *inside* the
  critical sections, what the holder of the lock knows (the reader's walk ends at the last record, the main
  thread's packet is the head), and whose hands a packet is in;
- `EventsInMemory`: `QueueInMemory`, and `ReturnedEventIsSafe`: `ReturnedEventLives`, from `MemoryInv` and `AllocateSound`: inside
  `get_next_event`, the only place that clears the memory, the application holds no event, and the queue is empty
  when it clears;
- `EventsInOrder`: `EventsAreFifo`: the list from the head to the tail, through `next_event`, is the events posted and not yet returned, in
  their order, whatever was cleared between. `OrderInv` adds that no more are returned than were posted. That an entry is still
  there when it is followed is part of it, since a clear takes all of them away.

### `IntroductionProofs`

For any finite set of sockets, any introductions, attempts and retries, and whichever connections are lost:

- `OnlyTheIntroduced`: `GoesOnWithTheIntroduced`.
- `OnlyWhenBothAsked`: `PunchesOnlyTheIntroduced`, for applications that ask for a remote in one part only (`OneRole`, which
  `intro` satisfies). Without `OneRole` the property is false (`PunchesOnlyTheIntroduced` in the table above).

Both follow from `IntroInv`. `RecordsInv`: each of the introducer's records has nonces of its own and is marked only with
what its two applications asked for. The packets (`AnyPacketOK`): a request carries the nonce of the sender's connection
to the introducer, introductions and punches carry the nonces of a complete record and go between its two ends
(`Between`), and a challenge request that carries such a nonce does so as well (`NonceOK`). The pending connections
(`Attempt`): a punching one has the nonces of a complete record, one possible address, its other end, and asked for it.
The argument is that a nonce names one record and a record one pair, so that whoever sends the right nonce is the other
end (`FromTheOther`); it needs that the ids of the introducer's connections are distinct and not given to later
connections (`ConnectionIds`, `NextIsAbove`, `OldById`) and that an entry of the table of ids leads to its own key (`IdEntriesOK`), so that a connection found by an id is the one the id was given to, or none. What a step of
the handshake, of a client or of the introducer adds is justified by records that only grow (`Grows`).

The theorems of `TorqueSocketProofs` are about `TorqueSocket` on its own, without introduced connections.

### `HashTableFlatProofs`

For any set of keys, any hash of them, any number of insertions and removals and any list of sizes that each have a larger half than
the one before, among them one whose half is enough for all the insertions, and a larger one (`HashAssumption`; the code's list goes up to
4294967291 buckets):

- `ProbesTerminateTheorem`: `ProbesTerminate`, so that every probe meets a gap and the growth finds a size, also after
  any number of removals and repairs.
- `FindsAsPromisedTheorem`: `FindsAsPromised`: what `find` returns is what `LookupTable` allows, through any growth.
- `StepsAsPromisedTheorem`: `StepsAsPromised`: each call does to the entries what `LookupTable` says; a removal takes at most one, and the repair, wherever it starts,
  loses, doubles and overwrites none.

The last two are why the theorems of `TorqueSocketProofs` and `IntroductionProofs`, which use `LookupTable`, speak of the code's tables.

`HashInv` has three parts. `TableInv`: the entries are distinct and `_entry_count` counts them exactly, the size is one of the list, and
at most half of it is used. `ClientInv`: there are no more entries than insertions, which bounds the size, and their values are the numbers
of the insertions, so that no two are the same. `MapInv`: while the table is not disturbed, every entry is
*reached*, with no gap from its home bucket on, which is what makes `_find` exact and what the repair fails to restore. The lemmas are one
for each loop: a probe ends at the first bucket that fits (`ProbeEnds`), growth keeps all the entries and makes them reached
(`RehashOK`), a turn of the repair moves one entry at most, to a gap (`RepairOK`).

### `BitStreamProofs`

For bytes and words of any width, a buffer of any size and contents, any values, ranges and memory to write and any
number of fields, with ranges that `get_next_binary_log` gives no more than the bits of a word (`RangeAssumption`, see the table of
divergences):

- `BufferIsTheFieldsTheorem`, `ReadsWhatWasWrittenTheorem`, `OverrunIsNoticedTheorem`: the three properties of `bits`.
- `StreamInvariant`: `StreamInv`, the invariant they follow from.

At the bottom is `CopyBitsOK`: for every pair of positions and every length the copy makes exactly the bits in between the source's, leaves all
others, and reads no byte behind the last one that has a bit to copy. It has a lemma for each branch, in bytes and bits (`CopyAlignedOK`,
`CopyUpOK`, `CopyDownOK`), and the two with a shift rest on the loop (`CopySlidingOK`): after each turn the slider holds the bits of the last byte
that did not fit. `ValueOK` says that the low bits of a number add up to its remainder, `BinaryLogOK` that the width of a range
holds its values, whichever way the float was rounded. `StreamInv` adds to the properties where everything is: the
fields lie one after the other, each starting where the one before ended (`Chain`), and one that did not fit ends at the
end of the buffer; the writer is behind the last field and the reader behind as many as it has read (`PlaceInv`). The
reader's end is the writer's position rounded up to a byte, which is the whole buffer after an overrun, so the reader has room
for exactly what was written of each field.

### Only model-checked

- Liveness (`EveryPacketNotified`, `DeadPeerNoticed`, `EveryRequestAnswered`, `EveryAttemptEnds`,
  `IntroducedAttemptEnds`, `EveryPacketHandled`), which needs reasoning on fairness and ENABLED that the
  prover does not have.

## Not modelled

- Cryptography: the models use what it promises (only the owners of the keys read a packet, a
  solution is right or not, random values are fresh).
- The platform layer (sockets, time, logging): its effects are environment actions, or steps of the
  module that uses them.
- Delayed sends (`send_to_delayed`, `torque_socket.h:1214`): they simulate latency on one machine, and the networks of
  the models delay every packet as they like.
- Info packets: `_process_packet` passes them to the application without any state.
- `hash_table_array`, `indexed_string`, `small_block_allocator`, `ref_object`: sequential containers
  and memory of the type database and of keys. `array` is used by the modelled code as a sequence.
- `bit_stream`'s explicit positions, floats, strings and `byte_stream_fixed`: copies of whole bytes.
- The C API, the plugin and the test products: each function forwards to a method that is an action here.
- The type database, functors, strings and traits: reflection for the scripting layer, no protocol state.
- `old_arranged_connection_logic.h`: no file of the build includes it.
- libtomcrypt and libtommath: third-party.

## Plan

The order is by importance.

1. `TorqueConnection`, `ThreadQueue`, `ClientPuzzle`, `TorqueSocket`, `HashTableFlat`,
   `SocketEvents`, `Introduction`, `BitStream`: done.
2. Proofs: every safety property that a run checks is proved; the liveness properties stay with TLC.
3. The lookup tables' loss of entries under the handshake (`LookupTable`), and the list of events link by link: done.
