---------------------------- MODULE SocketEvents ----------------------------
(***************************************************************************)
(* How packets become events (torque_sockets/torque_socket.h with          *)
(* socket_event_queue.h): the background reader that puts packets on       *)
(* _received_packet_list, get_next_event that takes them off, hands them   *)
(* to the handlers and returns the events these post, and the memory of    *)
(* the events, which comes from a page allocator that is cleared whenever  *)
(* the queue is found empty.                                               *)
(*                                                                         *)
(* Two threads: the reader (thread_socket_process) and the main thread,    *)
(* which is the only one that calls the socket.  Each access to the list,  *)
(* which both use, is a step.  A packet is the number of its arrival and   *)
(* names its packet_record; what a handler does with it is in              *)
(* TorqueSocket and TorqueConnection, here it posts an event or none.      *)
(* A socket created without the background thread reads packets itself.    *)
(***************************************************************************)
EXTENDS PageAllocator, Sequences

CONSTANTS
    EventSize,           \* sizeof(torque_socket_event)
    EntrySize,           \* sizeof(queue_entry)
    DataSizes,           \* the sizes of event data
    KeySize,             \* the size of a public key
    MaxPackets,          \* bound: packets that arrive
    MaxPosts,            \* bound: events posted by the handlers
    MaxTimeouts,         \* bound: events posted by process_connections
    MaxCalls,            \* bound: events posted by calls of the application
    MaxBinds             \* bound: calls of bind

ASSUME EventsAssumption ==
    /\ EventSize \in Nat \ {0} /\ EntrySize \in Nat \ {0} /\ DataSizes \subseteq Nat
    /\ KeySize \in Nat
    /\ MaxPackets \in Nat /\ MaxPosts \in Nat /\ MaxTimeouts \in Nat /\ MaxCalls \in Nat
    /\ MaxBinds \in Nat

VARIABLES
    thread_socket,       \* _thread_socket, the constructor's argument
    socket,              \* "unbound", "bound", or "destroyed" with the torque_socket
    binds,               \* calls of bind so far
    kernel,              \* packets the operating system holds for the socket
    thread_running,      \* thread::_thread_running
    reader,              \* the reader thread
    mutex,               \* who holds _packet_queue_mutex
    head,                \* _received_packet_list, 0 for none
    next,                \* packet_record::next_packet
    records,             \* the packet records allocated
    received,            \* history: the number of packets read from the socket
    main,                \* the main thread
    woken,               \* a call of the pump is under way to the main thread
    queue,               \* the event queue: _event_queue_head and _event_queue_tail
    entries,             \* the queue_entry records in memory, by the number of their event
    memory,              \* its page allocator
    posts,               \* history: how many events were posted by whom
    handled,             \* history: the packets handed to the handlers, in order
    returned             \* history: the events get_next_event returned, in order

sock_vars == <<thread_socket, socket, binds, kernel>>
list_vars == <<mutex, head, next, records>>
event_vars == <<queue, entries, memory, posts, handled, returned>>
vars == <<thread_socket, socket, binds, kernel, thread_running, reader, mutex, head, next,
          records, received, main, woken, queue, entries, memory, posts, handled, returned>>

None == 0
Packets == 1 .. MaxPackets
NoEvent == [id |-> 0, event |-> NoBlock, entry |-> NoBlock, data |-> NoBlock, key |-> NoBlock]
NoEntries == [i \in {} |-> [event |-> NoEvent, next_event |-> None]]

Init ==
    /\ thread_socket \in BOOLEAN
    /\ socket = "unbound" /\ binds = 0 /\ kernel = 0
    /\ thread_running = FALSE
    /\ reader = [pc |-> "none", packet |-> None, walk |-> None]
    /\ mutex = "free" /\ head = None /\ next = [p \in Packets |-> None] /\ records = {}
    /\ received = 0
    /\ main = [pc |-> "idle", packet |-> None, pumping |-> FALSE, event |-> NoEvent]
    /\ woken = FALSE
    /\ queue = [head |-> None, tail |-> None] /\ entries = NoEntries /\ memory = NewAllocator
    /\ posts = [handlers |-> 0, timeouts |-> 0, calls |-> 0]
    /\ handled = <<>> /\ returned = <<>>
-----------------------------------------------------------------------------
(* The socket. *)

\* When ::bind fails nothing sets the result that is returned: the caller may find
\* bind_success in it, and the thread is started all the same.
bind ==
    /\ main.pc = "idle" /\ socket # "destroyed" /\ binds < MaxBinds
    /\ binds' = binds + 1
    /\ \E success, garbage \in BOOLEAN :
        /\ socket' = IF success THEN "bound" ELSE "unbound"
        /\ IF thread_socket /\ (success \/ garbage) /\ ~thread_running
           THEN /\ thread_running' = TRUE
                /\ reader' = [reader EXCEPT !.pc = "recv"]
           ELSE UNCHANGED <<thread_running, reader>>
    /\ kernel' \in 0 .. kernel
    /\ UNCHANGED <<thread_socket, received, main, woken, list_vars, event_vars>>

\* Packets may arrive at any time the socket is bound.
Arrive ==
    /\ socket = "bound" /\ kernel + received < MaxPackets
    /\ kernel' = kernel + 1
    /\ UNCHANGED <<thread_socket, socket, binds, thread_running, reader, received, main, woken,
                   list_vars, event_vars>>

\* The destructor closes the socket and asks the thread to end; it waits for nothing.
Destroy ==
    /\ main.pc = "idle" /\ ~main.pumping /\ socket # "destroyed"
    /\ socket' = "destroyed" /\ kernel' = 0
    /\ UNCHANGED <<thread_socket, binds, thread_running, reader, received, main, woken,
                   list_vars, event_vars>>
-----------------------------------------------------------------------------
(* The reader thread: thread_socket_process. *)

ReaderGoes(to) == reader' = [reader EXCEPT !.pc = to]

\* recv_from has a packet: its record is allocated before the lock is taken.
ReadPacket ==
    /\ reader.pc = "recv" /\ socket = "bound" /\ kernel > 0
    /\ kernel' = kernel - 1
    /\ received' = received + 1
    /\ records' = records \cup {received'}
    /\ reader' = [reader EXCEPT !.pc = "lock", !.packet = received']
    /\ UNCHANGED <<thread_socket, socket, binds, thread_running, mutex, head, next, main, woken,
                   event_vars>>

\* recv_from has timed out or failed; the notification is sent for it too.
ReadNothing ==
    /\ reader.pc = "recv" /\ socket = "bound"
    /\ ReaderGoes("notify")
    /\ UNCHANGED <<sock_vars, thread_running, list_vars, received, main, woken, event_vars>>

\* The socket is invalid, or the thread is cancelled in recv_from.
ReadInvalid ==
    /\ reader.pc = "recv" /\ socket # "bound"
    /\ ReaderGoes("returned")
    /\ UNCHANGED <<sock_vars, thread_running, list_vars, received, main, woken, event_vars>>

\* thread_proc, when run has returned.
ThreadEnds ==
    /\ reader.pc = "returned"
    /\ thread_running' = FALSE
    /\ ReaderGoes("none")
    /\ UNCHANGED <<sock_vars, list_vars, received, main, woken, event_vars>>

\* Mutant: the list is used without the lock.
ReaderLocksNothing ==
    /\ reader.pc = "lock"
    /\ reader' = [reader EXCEPT !.pc = "walk", !.walk = None]
    /\ UNCHANGED <<sock_vars, thread_running, list_vars, received, main, woken, event_vars>>

ReaderLocks ==
    /\ reader.pc = "lock" /\ mutex = "free"
    /\ mutex' = "reader"
    /\ reader' = [reader EXCEPT !.pc = "walk", !.walk = None]
    /\ UNCHANGED <<sock_vars, thread_running, head, next, records, received, main, woken,
                   event_vars>>

\* The link at `walk`, the head of the list when walk is None.
LinkAt(walk) == IF walk = None THEN head ELSE next[walk]

ReaderWalks ==
    /\ reader.pc = "walk"
    /\ reader' = IF LinkAt(reader.walk) # None
                 THEN [reader EXCEPT !.walk = LinkAt(reader.walk)]
                 ELSE [reader EXCEPT !.pc = "link"]
    /\ UNCHANGED <<sock_vars, thread_running, list_vars, received, main, woken, event_vars>>

ReaderLinks ==
    /\ reader.pc = "link"
    /\ IF reader.walk = None
       THEN head' = reader.packet /\ UNCHANGED next
       ELSE next' = [next EXCEPT ![reader.walk] = reader.packet] /\ UNCHANGED head
    /\ ReaderGoes("unlock")
    /\ UNCHANGED <<sock_vars, thread_running, mutex, records, received, main, woken, event_vars>>

ReaderUnlocks ==
    /\ reader.pc = "unlock"
    /\ mutex' = "free"
    /\ reader' = [pc |-> "notify", packet |-> None, walk |-> None]
    /\ UNCHANGED <<sock_vars, thread_running, head, next, records, received, main, woken,
                   event_vars>>

\* Mutant: the notification is left out.
NotifyNobody ==
    /\ reader.pc = "notify"
    /\ ReaderGoes("recv")
    /\ UNCHANGED <<sock_vars, thread_running, list_vars, received, main, woken, event_vars>>

\* _event_ready_notify_fn: the plugin's asks the browser to call the pump later.
Notify ==
    /\ reader.pc = "notify"
    /\ woken' = TRUE
    /\ ReaderGoes("recv")
    /\ UNCHANGED <<sock_vars, thread_running, list_vars, received, main, event_vars>>

Reader ==
    \/ ReadPacket \/ ReadNothing \/ ReadInvalid \/ ThreadEnds
    \/ ReaderLocks \/ ReaderWalks \/ ReaderLinks \/ ReaderUnlocks \/ Notify
-----------------------------------------------------------------------------
(* The event queue. *)

\* post_event and, for an event with data, set_event_key and set_event_data.
PostMemory(pa, data, key) ==
    allocate(allocate(allocate(allocate(pa, EventSize), EntrySize), key), data)

Posted(pa, id, data, key) ==
    LET pa1 == allocate(pa, EventSize)
        pa2 == allocate(pa1, EntrySize)
        pa3 == allocate(pa2, key)
    IN  [id |-> id, event |-> block(pa, EventSize), entry |-> block(pa1, EntrySize),
         key |-> block(pa2, key), data |-> block(pa3, data)]

\* Events are numbered in the order in which they are posted; the number stands for the
\* address of the event's queue_entry.
EventId == posts.handlers + posts.timeouts + posts.calls + 1

Counted(who) ==
    CASE who = "handlers" -> [posts EXCEPT !.handlers = @ + 1]
      [] who = "timeouts" -> [posts EXCEPT !.timeouts = @ + 1]
      [] who = "calls" -> [posts EXCEPT !.calls = @ + 1]

\* The entry at the tail, if there is one, is linked to the new one.
post_event(data, key, who) ==
    /\ memory' = PostMemory(memory, data, key)
    /\ entries' =
        [i \in DOMAIN entries \cup {EventId} |->
            IF i = EventId
            THEN [event |-> Posted(memory, EventId, data, key), next_event |-> None]
            ELSE IF i = queue.tail THEN [entries[i] EXCEPT !.next_event = EventId]
            ELSE entries[i]]
    /\ queue' = IF queue.tail # None THEN [queue EXCEPT !.tail = EventId]
                                     ELSE [head |-> EventId, tail |-> EventId]
    /\ posts' = Counted(who)

has_event == queue.head # None
-----------------------------------------------------------------------------
(* The main thread. *)

MainGoes(to) == main' = [main EXCEPT !.pc = to]

\* A call such as accept_connection posts an event before any packet is read.
AppCall ==
    /\ main.pc = "idle" /\ socket # "destroyed" /\ posts.calls < MaxCalls
    /\ post_event(0, 0, "calls")
    /\ UNCHANGED <<sock_vars, thread_running, reader, list_vars, received, main, woken, handled,
                   returned>>

\* The browser makes the call it was asked for.
Pump ==
    /\ main.pc = "idle" /\ ~main.pumping /\ woken /\ socket # "destroyed"
    /\ woken' = FALSE
    /\ main' = [main EXCEPT !.pumping = TRUE]
    /\ UNCHANGED <<sock_vars, thread_running, reader, list_vars, received, event_vars>>

\* Mutant: the memory is freed whether or not events wait.
ClearedAlways ==
    /\ memory' = clear(memory)
    /\ entries' = NoEntries

\* get_next_event frees the memory of the events only when it finds none.
Cleared ==
    /\ memory' = IF has_event THEN memory ELSE clear(memory)
    /\ entries' = IF has_event THEN entries ELSE NoEntries

\* The application is done with the event it was given when it asks for the next one.
get_next_event ==
    /\ main.pc = "idle" /\ socket # "destroyed"
    /\ main' = [main EXCEPT !.pc = "sweep", !.event = NoEvent]
    /\ UNCHANGED <<sock_vars, thread_running, reader, list_vars, received, woken, event_vars>>

\* process_connections posts an event for each connection that has timed out.
SweepPosts ==
    /\ main.pc = "sweep" /\ posts.timeouts < MaxTimeouts
    /\ post_event(0, 0, "timeouts")
    /\ UNCHANGED <<sock_vars, thread_running, reader, list_vars, received, main, woken, handled,
                   returned>>

\* Events that are there already are returned before any packet is read.
LookForEvent ==
    /\ main.pc = "sweep"
    /\ Cleared
    /\ MainGoes(IF has_event THEN "dequeue" ELSE "take")
    /\ UNCHANGED <<sock_vars, thread_running, reader, list_vars, received, woken, queue, posts,
                   handled, returned>>

\* _get_next_packet without the thread reads from the socket.
TakeFromSocket ==
    /\ main.pc = "take" /\ ~thread_socket
    /\ \/ /\ kernel > 0 /\ socket = "bound"
          /\ kernel' = kernel - 1 /\ received' = received + 1
          /\ main' = [main EXCEPT !.pc = "process", !.packet = received']
       \/ MainGoes("dequeue") /\ UNCHANGED <<kernel, received>>
    /\ UNCHANGED <<thread_socket, socket, binds, thread_running, reader, list_vars, woken,
                   event_vars>>

MainLocks ==
    /\ main.pc = "take" /\ thread_socket /\ mutex = "free"
    /\ mutex' = "main"
    /\ main' = [main EXCEPT !.pc = "advance", !.packet = head]
    /\ UNCHANGED <<sock_vars, thread_running, reader, head, next, records, received, woken,
                   event_vars>>

MainAdvances ==
    /\ main.pc = "advance"
    /\ head' = IF head # None THEN next[head] ELSE head
    /\ MainGoes("unlock")
    /\ UNCHANGED <<sock_vars, thread_running, reader, mutex, next, records, received, woken,
                   event_vars>>

\* The record is copied and freed outside the lock.
MainUnlocks ==
    /\ main.pc = "unlock"
    /\ mutex' = "free"
    /\ records' = records \ {main.packet}
    /\ MainGoes(IF main.packet # None THEN "process" ELSE "dequeue")
    /\ UNCHANGED <<sock_vars, thread_running, reader, head, next, received, woken, event_vars>>

\* _process_packet: a handler posts its events one after the other, each without data,
\* with data, or with data and a key, ...
HandlerPosts ==
    /\ main.pc = "process" /\ posts.handlers < MaxPosts
    /\ \/ post_event(0, 0, "handlers")
       \/ \E data \in DataSizes, key \in {0, KeySize} : post_event(data, key, "handlers")
    /\ UNCHANGED <<sock_vars, thread_running, reader, list_vars, received, main, woken, handled,
                   returned>>

\* ... and returns; the loop ends when there is an event.
HandlerReturns ==
    /\ main.pc = "process"
    /\ handled' = Append(handled, main.packet)
    /\ main' = [main EXCEPT !.pc = IF has_event THEN "dequeue" ELSE "take",
                            !.packet = None]
    /\ UNCHANGED <<sock_vars, thread_running, reader, list_vars, received, woken, queue, entries,
                   memory, posts, returned>>

\* The entry after the head of the queue.
Rest == entries[queue.head].next_event

\* Mutant: the tail is not reset when the last event leaves the queue.
DequeueKeepsTail ==
    /\ main.pc = "dequeue" /\ has_event
    /\ main' = [main EXCEPT !.pc = "idle", !.event = entries[queue.head].event]
    /\ queue' = [queue EXCEPT !.head = Rest]
    /\ returned' = Append(returned, entries[queue.head].event.id)
    /\ UNCHANGED <<sock_vars, thread_running, reader, list_vars, received, woken, entries, memory,
                   posts, handled>>

\* Mutant: the memory is freed as soon as the last event has left the queue.
DequeueAndClear ==
    /\ main.pc = "dequeue" /\ has_event
    /\ main' = [main EXCEPT !.pc = "idle", !.event = entries[queue.head].event]
    /\ queue' = [head |-> Rest, tail |-> IF Rest = None THEN None ELSE queue.tail]
    /\ memory' = IF Rest = None THEN clear(memory) ELSE memory
    /\ entries' = IF Rest = None THEN NoEntries ELSE entries
    /\ returned' = Append(returned, entries[queue.head].event.id)
    /\ UNCHANGED <<sock_vars, thread_running, reader, list_vars, received, woken, posts, handled>>

dequeue ==
    /\ main.pc = "dequeue" /\ has_event
    /\ main' = [main EXCEPT !.pc = "idle", !.event = entries[queue.head].event]
    /\ queue' = [head |-> Rest, tail |-> IF Rest = None THEN None ELSE queue.tail]
    /\ returned' = Append(returned, entries[queue.head].event.id)
    /\ UNCHANGED <<sock_vars, thread_running, reader, list_vars, received, woken, entries, memory,
                   posts, handled>>

\* get_next_event returns 0, which ends the pump.
ReturnNothing ==
    /\ main.pc = "dequeue" /\ ~has_event
    /\ main' = [main EXCEPT !.pc = "idle", !.pumping = FALSE]
    /\ UNCHANGED <<sock_vars, thread_running, reader, list_vars, received, woken, event_vars>>

InCall ==
    \/ LookForEvent \/ TakeFromSocket \/ MainLocks \/ MainAdvances \/ MainUnlocks
    \/ HandlerReturns \/ dequeue \/ ReturnNothing

Next ==
    \/ bind \/ Arrive \/ Destroy \/ Reader
    \/ AppCall \/ Pump \/ get_next_event \/ SweepPosts \/ InCall \/ HandlerPosts

Spec == Init /\ [][Next]_vars

\* A thread that runs goes on; a mutex is not kept from one thread for ever; the browser
\* makes the calls it was asked for, and the pump calls until it gets nothing.  Nothing is
\* asked of the socket: no packet need arrive and recv_from need not return.
FairSpec ==
    /\ Spec
    /\ SF_vars(ReaderLocks) /\ SF_vars(MainLocks)
    /\ WF_vars(ReaderWalks \/ ReaderLinks \/ ReaderUnlocks \/ Notify)
    /\ WF_vars(InCall)
    /\ WF_vars(Pump)
    /\ WF_vars(main.pumping /\ get_next_event)
-----------------------------------------------------------------------------
(* Properties. *)

Alive == socket # "destroyed"
BlocksOf(e) == {b \in {e.event, e.entry, e.data, e.key} : b # NoBlock}

\* The packets on their way between the threads: those after the ones handled and the
\* one in the main thread's hands, up to the last one the reader has put on the list.
First == Len(handled) + (IF main.packet = None THEN 1 ELSE 2)
Last == IF reader.packet = None THEN received ELSE received - 1

\* Whenever nobody holds the lock the list is exactly the packets under way, linked in
\* the order of their arrival and every record of it allocated: none was lost, doubled,
\* overtaken or freed, however the reader and get_next_event met.  And the handlers get
\* each packet once, in the order in which it was read.
ListIsFifo ==
    /\ \A i \in DOMAIN handled : handled[i] = i
    /\ thread_socket /\ mutex = "free" =>
        /\ head = IF First <= Last THEN First ELSE None
        /\ \A p \in First .. Last :
            p \in records /\ next[p] = IF p < Last THEN p + 1 ELSE None

\* The events posted and not yet returned.
Waiting == Len(returned) + 1 .. EventId - 1

\* An event that waits lives, with its queue_entry, in memory of the allocator that
\* nothing else uses: the memory is only freed when no event can be in it.
QueueInMemory ==
    /\ AllocatorSound(memory)
    /\ \A i \in Waiting :
        i \in DOMAIN entries /\ BlocksOf(entries[i].event) \subseteq memory.blocks
    /\ \A i, j \in Waiting :
        BlocksOf(entries[i].event) \cap BlocksOf(entries[j].event) # {} => i = j

\* The event get_next_event has returned stays as it is until the application calls it
\* again: its memory is neither freed nor handed out, whatever is posted meanwhile.
ReturnedEventLives ==
    /\ BlocksOf(main.event) \subseteq memory.blocks
    /\ \A i \in Waiting : BlocksOf(main.event) \cap BlocksOf(entries[i].event) = {}

\* From _event_queue_head the next_event links lead through exactly the events posted and
\* not yet returned, in the order of the posts by the handlers, the sweeps and the
\* application's own calls; _event_queue_tail is the last of them and null without any,
\* so that the next post neither loses its event nor writes to an entry that was
\* returned.  And the events are returned once each and in that order.
EventsAreFifo ==
    LET first == Len(returned) + 1
        last == EventId - 1
    IN  /\ \A i \in DOMAIN returned : returned[i] = i
        /\ queue = IF first <= last THEN [head |-> first, tail |-> last]
                                    ELSE [head |-> None, tail |-> None]
        /\ \A i \in first .. last :
            /\ i \in DOMAIN entries /\ entries[i].event.id = i
            /\ entries[i].next_event = IF i < last THEN i + 1 ELSE None

\* A packet the reader has read is handled, without another one arriving: the
\* notification that makes the main thread look comes after the packet is on the list.
EveryPacketHandled ==
    \A p \in Packets : received >= p ~> (Len(handled) >= p \/ ~Alive)

\* "If background_thread is true, the socket will be created with a background socket
\* process thread" (torque_sockets_c_api.h): a bound socket has a reader.  With a second
\* bind it does not hold.
BoundSocketIsRead == thread_socket /\ socket = "bound" => reader.pc # "none"

\* The reader uses the list and the lock of a socket that exists.  It does not hold when
\* the destructor runs between recv_from and the notification (README).
SocketOutlivesReader ==
    ~Alive => reader.pc \notin {"lock", "walk", "link", "unlock", "notify"}

\* "assert(_memory_used == 0)" in ~zone_allocator, which runs before the event queue's
\* memory is freed.  It does not hold when the last event was not the last call (README).
ZoneEmptyWhenDestroyed == ~Alive => memory.pages = {}
=============================================================================
