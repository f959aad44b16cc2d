------------------------- MODULE SocketEventsProofs -------------------------
(***************************************************************************)
(* Theorems about SocketEvents, for any number of packets, events, calls   *)
(* and binds and any sizes: the list between the reader and get_next_event *)
(* is a queue, so is the list of the events, and an event's memory is not   *)
(* touched while the queue or the application still has it.                *)
(***************************************************************************)
EXTENDS SocketEvents, SequenceTheorems, TLAPS

-----------------------------------------------------------------------------
(* page_allocator, for every page size, header size and alignment: the blocks handed   *)
(* out since the last clear lie in pages the allocator still has and are disjoint.     *)

Block == [page : Nat, start : Nat, end : Nat]
PageRun == [page : Nat, size : Nat]
Allocator == [current : Nat, pages : SUBSET PageRun, offset : Nat, size : Nat,
              requests : Nat, blocks : SUBSET Block]

\* AllocatorSound is not inductive: where the next block goes depends on the current
\* page being one of the allocator's, filled up to the offset and no further, and a new
\* page having a number that was not used before.
CurrentSound(pa) ==
    /\ pa.offset <= pa.size
    /\ IF pa.current = NoPage THEN pa.offset = pa.size
       ELSE /\ [page |-> pa.current, size |-> pa.size] \in pa.pages
            /\ page_header_size <= pa.offset

PagesSound(pa) ==
    /\ \A p \in pa.pages : p.page \in 1 .. pa.requests
    /\ \A p, q \in pa.pages : p.page = q.page => p = q

BlocksSound(pa) ==
    /\ \A b \in pa.blocks :
        /\ page_header_size <= b.start /\ b.start < b.end
        /\ \E p \in pa.pages : p.page = b.page /\ b.end <= p.size
        /\ b.page = pa.current => b.end <= pa.offset
    /\ \A b, c \in pa.blocks : Overlap(b, c) => b = c

AllocatorInv(pa) ==
    pa \in Allocator /\ CurrentSound(pa) /\ PagesSound(pa) /\ BlocksSound(pa)

LEMMA InvIsSound ==
    ASSUME NEW pa, AllocatorInv(pa)
    PROVE  AllocatorSound(pa)
BY DEF AllocatorInv, BlocksSound, AllocatorSound
-----------------------------------------------------------------------------
(* Rounding up to a multiple. *)

LEMMA Division ==
    ASSUME NEW a \in Int, NEW m \in Nat \ {0}
    PROVE  a \div m \in Int /\ a % m \in 0 .. m - 1 /\ a = m * (a \div m) + (a % m)
OBVIOUS

LEMMA RoundedUp ==
    ASSUME NEW n \in Nat, NEW m \in Nat \ {0}
    PROVE  /\ ((n + m - 1) \div m) * m \in Nat
           /\ n <= ((n + m - 1) \div m) * m
<1> DEFINE x == n + m - 1
           q == x \div m
           r == x % m
<1>1. x \in Int
  OBVIOUS
<1> HIDE DEF x
<1>2. q \in Int /\ r \in 0 .. m - 1 /\ x = m * q + r
  BY <1>1, Division
<1> HIDE DEF q, r
<1>3. q * m \in Int /\ n <= q * m
  BY <1>2 DEF x
<1> QED
  BY <1>3 DEF q, x

LEMMA AlignedFacts ==
    ASSUME NEW size \in Nat \ {0}
    PROVE  aligned(size) \in Nat \ {0}
<1>1. aligned(size) \in Nat /\ size <= aligned(size)
  BY AllocatorAssumption, RoundedUp DEF aligned
<1> QED
  BY <1>1

\* A new run of pages has room for its header and the block it is for.
LEMMA NewPageFacts ==
    ASSUME NEW n \in Nat
    PROVE  /\ new_page_count(n) * page_size \in Nat
           /\ page_header_size + n <= new_page_count(n) * page_size
<1> DEFINE m == IF n + page_header_size > page_size THEN n + page_header_size ELSE page_size
<1>1. m \in Nat /\ page_header_size + n <= m /\ page_size \in Nat \ {0} /\ page_header_size \in Nat
  BY AllocatorAssumption
<1>2. new_page_count(n) = (m + page_size - 1) \div page_size
  BY DEF new_page_count
<1> HIDE DEF m
<1>3. new_page_count(n) * page_size \in Nat /\ m <= new_page_count(n) * page_size
  BY <1>1, <1>2, RoundedUp
<1> QED
  BY <1>1, <1>3
-----------------------------------------------------------------------------
(* The operations. *)

LEMMA NewSound == AllocatorInv(NewAllocator)
BY AllocatorAssumption
DEF AllocatorInv, NewAllocator, Allocator, CurrentSound, PagesSound, BlocksSound, NoPage

LEMMA ClearSound ==
    ASSUME NEW pa, AllocatorInv(pa)
    PROVE  AllocatorInv(clear(pa)) /\ clear(pa).blocks = {}
BY AllocatorAssumption
DEF AllocatorInv, clear, NewAllocator, Allocator, CurrentSound, PagesSound, BlocksSound, NoPage

\* A block that fits lies behind everything in the current page.
LEMMA InCurrentPageSound ==
    ASSUME NEW pa, AllocatorInv(pa), NEW size \in Nat \ {0}, Fits(pa, size)
    PROVE  /\ AllocatorInv(allocate(pa, size))
           /\ block(pa, size) \in Block \ {NoBlock} /\ block(pa, size) \notin pa.blocks
           /\ allocate(pa, size).blocks = pa.blocks \cup {block(pa, size)}
<1> DEFINE n == aligned(size)
           b == block(pa, size)
           new == allocate(pa, size)
<1>a. pa \in Allocator /\ CurrentSound(pa) /\ PagesSound(pa) /\ BlocksSound(pa)
  BY DEF AllocatorInv
<1>b. /\ pa.current \in Nat /\ pa.pages \subseteq PageRun /\ pa.offset \in Nat /\ pa.size \in Nat
      /\ pa.requests \in Nat /\ pa.blocks \subseteq Block
  BY <1>a DEF Allocator
<1>1. n \in Nat \ {0} /\ pa.offset + n <= pa.size
  BY AlignedFacts DEF Fits
<1> HIDE DEF n
<1>2. b = [page |-> pa.current, start |-> pa.offset, end |-> pa.offset + n]
  BY DEF block, n
<1>3. new = [pa EXCEPT !.offset = pa.offset + n, !.blocks = pa.blocks \cup {b}]
  BY <1>a DEF allocate, InCurrentPage, Allocator, n
<1>4. /\ pa.current # NoPage /\ page_header_size <= pa.offset
      /\ [page |-> pa.current, size |-> pa.size] \in pa.pages
  <2>1. pa.offset # pa.size
    BY <1>1, <1>b
  <2> QED
    BY <1>a, <2>1 DEF CurrentSound
<1>5. b \in Block /\ b # NoBlock
  BY <1>1, <1>2, <1>4, <1>b DEF Block, NoBlock
<1>6. /\ b.page = pa.current /\ b.start = pa.offset /\ b.end = pa.offset + n
      /\ b.start < b.end /\ page_header_size <= b.start /\ b.end <= pa.size
  BY <1>1, <1>2, <1>4, <1>b, AllocatorAssumption
<1>7. /\ new \in Allocator /\ new.blocks = pa.blocks \cup {b} /\ new.offset = pa.offset + n
      /\ new.current = pa.current /\ new.size = pa.size /\ new.pages = pa.pages
      /\ new.requests = pa.requests
  <2> HIDE DEF b
  <2>1. pa.offset + n \in Nat /\ pa.blocks \cup {b} \subseteq Block
    BY <1>1, <1>5, <1>b
  <2> QED
    BY <2>1, <1>3, <1>a DEF Allocator
<1> HIDE DEF new, b
<1>8. \A c \in pa.blocks : c \in Block /\ ~Overlap(b, c) /\ ~Overlap(c, b)
  <2> SUFFICES ASSUME NEW c \in pa.blocks PROVE c \in Block /\ ~Overlap(b, c) /\ ~Overlap(c, b)
    OBVIOUS
  <2>1. c \in Block /\ c.end \in Nat /\ (c.page = pa.current => c.end <= pa.offset)
    BY <1>a, <1>b DEF BlocksSound, Block
  <2> QED
    BY <2>1, <1>6, <1>b DEF Overlap
<1>9. b \notin pa.blocks
  BY <1>5, <1>6, <1>8 DEF Overlap, Block
<1>10. CurrentSound(new) /\ PagesSound(new)
  BY <1>1, <1>4, <1>7, <1>a, <1>b, AllocatorAssumption DEF CurrentSound, PagesSound, NoPage
<1>11. BlocksSound(new)
  <2>1. ASSUME NEW c \in new.blocks
        PROVE  /\ page_header_size <= c.start /\ c.start < c.end
               /\ \E p \in new.pages : p.page = c.page /\ c.end <= p.size
               /\ c.page = new.current => c.end <= new.offset
    <3>1. CASE c = b
      BY <3>1, <1>1, <1>4, <1>6, <1>7, <1>b
    <3>2. CASE c \in pa.blocks
      <4>1. /\ page_header_size <= c.start /\ c.start < c.end
            /\ \E p \in pa.pages : p.page = c.page /\ c.end <= p.size
            /\ c.page = pa.current => c.end <= pa.offset
        BY <3>2, <1>a DEF BlocksSound
      <4>2. c.end \in Nat
        BY <3>2, <1>b DEF Block
      <4> QED
        BY <4>1, <4>2, <1>1, <1>7, <1>b
    <3> QED
      BY <3>1, <3>2, <1>7
  <2>2. \A c, d \in new.blocks : Overlap(c, d) => c = d
    BY <1>7, <1>8, <1>a DEF BlocksSound
  <2> QED
    BY <2>1, <2>2 DEF BlocksSound
<1> QED
  BY <1>5, <1>7, <1>9, <1>10, <1>11 DEF AllocatorInv, new, b

\* A block that does not fit is the first one of a run of pages of its own, which becomes
\* the current one when it has more room left.
LEMMA InNewPageSound ==
    ASSUME NEW pa, AllocatorInv(pa), NEW size \in Nat \ {0}, ~Fits(pa, size)
    PROVE  /\ AllocatorInv(allocate(pa, size))
           /\ block(pa, size) \in Block \ {NoBlock} /\ block(pa, size) \notin pa.blocks
           /\ allocate(pa, size).blocks = pa.blocks \cup {block(pa, size)}
<1> DEFINE n == aligned(size)
           b == block(pa, size)
           new == allocate(pa, size)
           k == pa.requests + 1
           room == new_page_count(n) * page_size
           run == [page |-> k, size |-> room]
           switch == room - (page_header_size + n) >= pa.size - pa.offset
<1>a. pa \in Allocator /\ CurrentSound(pa) /\ PagesSound(pa) /\ BlocksSound(pa)
  BY DEF AllocatorInv
<1>b. /\ pa.current \in Nat /\ pa.pages \subseteq PageRun /\ pa.offset \in Nat /\ pa.size \in Nat
      /\ pa.requests \in Nat /\ pa.blocks \subseteq Block
  BY <1>a DEF Allocator
<1>1. n \in Nat \ {0} /\ room \in Nat /\ page_header_size + n <= room /\ page_header_size \in Nat
  BY AlignedFacts, NewPageFacts, AllocatorAssumption
<1>2. b = [page |-> k, start |-> page_header_size, end |-> page_header_size + n]
  BY DEF block
<1>3. new = [(IF switch
              THEN [pa EXCEPT !.requests = k, !.pages = pa.pages \cup {run}, !.current = k,
                              !.size = room, !.offset = page_header_size + n]
              ELSE [pa EXCEPT !.requests = k, !.pages = pa.pages \cup {run}])
             EXCEPT !.blocks = pa.blocks \cup {b}]
  <2> DEFINE paged == IF switch
                      THEN [pa EXCEPT !.requests = k, !.pages = pa.pages \cup {run}, !.current = k,
                                      !.size = room, !.offset = page_header_size + n]
                      ELSE [pa EXCEPT !.requests = k, !.pages = pa.pages \cup {run}]
  <2>1. InNewPage(pa, size) = paged
    BY DEF InNewPage
  <2>2. paged.blocks = pa.blocks
    BY <1>a DEF Allocator
  <2>3. new = [InNewPage(pa, size) EXCEPT !.blocks = InNewPage(pa, size).blocks \cup {b}]
    BY DEF allocate
  <2> HIDE DEF paged, b, new
  <2>4. new = [paged EXCEPT !.blocks = pa.blocks \cup {b}]
    BY <2>1, <2>2, <2>3
  <2> QED
    BY <2>4 DEF paged
<1> HIDE DEF n, room
<1>4. /\ b \in Block /\ b # NoBlock
      /\ b.page = k /\ b.start = page_header_size /\ b.end = page_header_size + n
      /\ b.start < b.end
  BY <1>1, <1>2, <1>b DEF Block, NoBlock, NoPage
<1>5. run \in PageRun /\ run.page = k /\ run.size = room /\ k \in Nat \ {0}
  BY <1>1, <1>b DEF PageRun
<1> HIDE DEF b, run, switch
<1>6. /\ new \in Allocator /\ new.blocks = pa.blocks \cup {b} /\ new.requests = k
      /\ new.pages = pa.pages \cup {run}
      /\ new.current = IF switch THEN k ELSE pa.current
      /\ new.size = IF switch THEN room ELSE pa.size
      /\ new.offset = IF switch THEN page_header_size + n ELSE pa.offset
  <2>1. /\ pa.blocks \cup {b} \subseteq Block /\ pa.pages \cup {run} \subseteq PageRun
        /\ page_header_size + n \in Nat
    BY <1>1, <1>4, <1>5, <1>b
  <2>2. CASE switch
    BY <2>1, <2>2, <1>1, <1>3, <1>5, <1>a DEF Allocator
  <2>3. CASE ~switch
    BY <2>1, <2>3, <1>1, <1>3, <1>5, <1>a DEF Allocator
  <2> QED
    BY <2>2, <2>3
<1> HIDE DEF new
<1>7. pa.current \in 0 .. pa.requests /\ pa.current # k
  BY <1>a, <1>b DEF CurrentSound, PagesSound, NoPage
<1>8. \A c \in pa.blocks : c \in Block /\ c.page # k
  <2> SUFFICES ASSUME NEW c \in pa.blocks PROVE c \in Block /\ c.page # k
    OBVIOUS
  <2>1. PICK p \in pa.pages : p.page = c.page
    BY <1>a DEF BlocksSound
  <2>2. p.page \in 1 .. pa.requests
    BY <1>a DEF PagesSound
  <2> QED
    BY <2>1, <2>2, <1>b
<1>9. b \notin pa.blocks
  BY <1>4, <1>8
<1>10. CurrentSound(new)
  <2>1. CASE switch
    BY <2>1, <1>1, <1>5, <1>6 DEF CurrentSound, run, NoPage
  <2>2. CASE ~switch
    BY <2>2, <1>6, <1>a DEF CurrentSound
  <2> QED
    BY <2>1, <2>2
<1>11. PagesSound(new)
  <2>1. \A p \in pa.pages : p.page \in 1 .. pa.requests
    BY <1>a DEF PagesSound
  <2>2. \A p \in new.pages : p.page \in 1 .. new.requests
    BY <2>1, <1>5, <1>6, <1>b
  <2>3. \A p \in pa.pages : p.page # k
    BY <2>1, <1>b
  <2>4. \A p, q \in new.pages : p.page = q.page => p = q
    BY <2>3, <1>5, <1>6, <1>a DEF PagesSound
  <2> QED
    BY <2>2, <2>4 DEF PagesSound
<1>12. BlocksSound(new)
  <2>1. ASSUME NEW c \in new.blocks
        PROVE  /\ page_header_size <= c.start /\ c.start < c.end
               /\ \E p \in new.pages : p.page = c.page /\ c.end <= p.size
               /\ c.page = new.current => c.end <= new.offset
    <3>1. CASE c = b
      <4>1. run \in new.pages /\ run.page = c.page /\ c.end <= run.size
        BY <3>1, <1>1, <1>4, <1>5, <1>6
      <4>2. c.page = new.current => switch
        BY <3>1, <1>4, <1>6, <1>7
      <4> QED
        BY <3>1, <4>1, <4>2, <1>1, <1>4, <1>6
    <3>2. CASE c \in pa.blocks
      <4>1. /\ page_header_size <= c.start /\ c.start < c.end
            /\ \E p \in pa.pages : p.page = c.page /\ c.end <= p.size
            /\ c.page = pa.current => c.end <= pa.offset
        BY <3>2, <1>a DEF BlocksSound
      <4>2. c.page = new.current => ~switch
        BY <3>2, <1>6, <1>8
      <4> QED
        BY <4>1, <4>2, <1>6
    <3> QED
      BY <3>1, <3>2, <1>6
  <2>2. \A c, d \in new.blocks : Overlap(c, d) => c = d
    <3>1. \A c \in pa.blocks : ~Overlap(b, c) /\ ~Overlap(c, b)
      BY <1>4, <1>8 DEF Overlap
    <3> QED
      BY <3>1, <1>6, <1>a DEF BlocksSound
  <2> QED
    BY <2>1, <2>2 DEF BlocksSound
<1> QED
  BY <1>4, <1>6, <1>9, <1>10, <1>11, <1>12 DEF AllocatorInv, new, b

\* allocate keeps the allocator sound whatever is asked of it, and hands out memory that
\* was not handed out since the last clear; for a size of zero it hands out none.
THEOREM AllocateSound ==
    ASSUME NEW pa, AllocatorInv(pa), NEW size \in Nat
    PROVE  /\ AllocatorInv(allocate(pa, size))
           /\ block(pa, size) \in Block
           /\ block(pa, size) \notin pa.blocks
           /\ allocate(pa, size).blocks =
                 pa.blocks \cup {b \in {block(pa, size)} : b # NoBlock}
<1>1. CASE size = 0
  <2>1. block(pa, size) = NoBlock /\ allocate(pa, size) = pa
    BY <1>1 DEF block, allocate
  <2>2. NoBlock \in Block /\ NoBlock \notin pa.blocks
    <3>1. NoBlock \in Block /\ NoBlock.start = NoBlock.end /\ NoBlock.end \in Nat
      BY DEF Block, NoBlock, NoPage
    <3>2. \A b \in pa.blocks : b.start < b.end
      BY DEF AllocatorInv, BlocksSound
    <3> QED
      BY <3>1, <3>2
  <2> QED
    BY <2>1, <2>2
<1>2. CASE size # 0
  <2>1. /\ AllocatorInv(allocate(pa, size))
        /\ block(pa, size) \in Block \ {NoBlock} /\ block(pa, size) \notin pa.blocks
        /\ allocate(pa, size).blocks = pa.blocks \cup {block(pa, size)}
    BY <1>2, InCurrentPageSound, InNewPageSound
  <2> QED
    BY <2>1
<1> QED
  BY <1>1, <1>2

-----------------------------------------------------------------------------
(* The reader thread, the event queue and get_next_event. *)

Event == [id : Nat, event : Block, entry : Block, data : Block, key : Block]
Entry == [event : Event, next_event : Nat]
EntriesOK == entries \in [DOMAIN entries -> Entry]
ReaderStates == {"none", "recv", "lock", "walk", "link", "unlock", "notify", "returned"}
MainStates == {"idle", "sweep", "take", "advance", "unlock", "process", "dequeue"}

TypeInv ==
    /\ thread_socket \in BOOLEAN /\ socket \in {"unbound", "bound", "destroyed"}
    /\ binds \in Nat /\ kernel \in Nat /\ thread_running \in BOOLEAN
    /\ reader \in [pc : ReaderStates, packet : Nat, walk : Nat]
    /\ mutex \in {"free", "reader", "main"}
    /\ head \in Nat /\ next \in [Packets -> Nat] /\ records \subseteq Nat /\ received \in Nat
    /\ main \in [pc : MainStates, packet : Nat, pumping : BOOLEAN, event : Event]
    /\ woken \in BOOLEAN
    /\ queue \in [head : Nat, tail : Nat] /\ EntriesOK
    /\ posts \in [handlers : Nat, timeouts : Nat, calls : Nat]
    /\ handled \in Seq(Nat) /\ returned \in Seq(Nat)

(* The memory of the events. *)

\* An event the application may still use is in memory that is not free, apart from the
\* events in the queue; and inside get_next_event, which may free the memory, there is
\* no such event.
MemoryInv ==
    /\ AllocatorInv(memory)
    /\ \A i \in Waiting :
        i \in DOMAIN entries /\ BlocksOf(entries[i].event) \subseteq memory.blocks
    /\ \A i, j \in Waiting :
        i # j => BlocksOf(entries[i].event) \cap BlocksOf(entries[j].event) = {}
    /\ BlocksOf(main.event) \subseteq memory.blocks
    /\ \A i \in Waiting : BlocksOf(main.event) \cap BlocksOf(entries[i].event) = {}
    /\ main.pc # "idle" => main.event = NoEvent

\* The links lead through the events that wait, and no event was returned that was not
\* posted.
OrderInv == EventsAreFifo /\ Len(returned) < EventId

(* The list between the threads. *)

\* The first and the last packet of the list at any moment, also inside the critical
\* sections: get_next_event has a packet of its own once it has moved the head on, and
\* the reader's is on the list once it is linked.
Low == IF main.pc \in {"unlock", "process"} /\ main.packet # None
       THEN Len(handled) + 2 ELSE Len(handled) + 1
High == IF reader.packet # None /\ reader.pc # "unlock" THEN received - 1 ELSE received

ListInv ==
    /\ Low <= High + 1
    /\ head = IF Low <= High THEN Low ELSE None
    /\ \A p \in Low .. High : p \in records /\ next[p] = IF p < High THEN p + 1 ELSE None
    /\ \A p \in Packets : p > High => next[p] = None

\* Who holds the lock, and what the one who holds it knows of the list.
LockInv ==
    /\ mutex = "reader" <=> reader.pc \in {"walk", "link", "unlock"}
    /\ mutex = "main" <=> main.pc \in {"advance", "unlock"}
    /\ reader.pc \in {"lock", "walk", "link", "unlock"} =>
        reader.packet = received /\ received \in records /\ received # 0
    /\ reader.pc \notin {"lock", "walk", "link", "unlock"} => reader.packet = None
    /\ reader.pc = "walk" => reader.walk = None \/ reader.walk \in Low .. High
    /\ reader.pc = "link" => reader.walk = IF Low <= High THEN High ELSE None
    /\ main.pc = "advance" => main.packet = head

\* The packet in the main thread's hands is the one after those that were handled.
HandsInv ==
    /\ \A i \in DOMAIN handled : handled[i] = i
    /\ main.pc \notin {"advance", "unlock", "process"} => main.packet = None
    /\ main.pc = "process" => main.packet # None
    /\ main.packet # None => main.packet = Len(handled) + 1
    /\ kernel + received <= MaxPackets

\* Without the thread there is no reader and no list.
DirectInv ==
    /\ reader.pc = "none" /\ reader.packet = None /\ mutex = "free"
    /\ main.pc \notin {"advance", "unlock"}
    /\ received = IF main.packet = None THEN Len(handled) ELSE Len(handled) + 1

PacketInv ==
    /\ HandsInv
    /\ thread_running <=> reader.pc # "none"
    /\ IF thread_socket THEN ListInv /\ LockInv ELSE DirectInv

EventsInv == TypeInv /\ MemoryInv /\ OrderInv /\ PacketInv
-----------------------------------------------------------------------------
(* Posting an event. *)

LEMMA NoEventFacts == NoEvent \in Event /\ BlocksOf(NoEvent) = {}
BY DEF NoEvent, Event, BlocksOf, Block, NoBlock, NoPage

\* The memory of a new event was not in use.
LEMMA PostFacts ==
    ASSUME NEW pa, AllocatorInv(pa), NEW id \in Nat, NEW data \in Nat, NEW key \in Nat
    PROVE  /\ AllocatorInv(PostMemory(pa, data, key))
           /\ pa.blocks \subseteq PostMemory(pa, data, key).blocks
           /\ Posted(pa, id, data, key) \in Event
           /\ Posted(pa, id, data, key).id = id
           /\ BlocksOf(Posted(pa, id, data, key)) \subseteq PostMemory(pa, data, key).blocks
           /\ BlocksOf(Posted(pa, id, data, key)) \cap pa.blocks = {}
<1> DEFINE pa1 == allocate(pa, EventSize)
           pa2 == allocate(pa1, EntrySize)
           pa3 == allocate(pa2, key)
           pa4 == allocate(pa3, data)
           e == Posted(pa, id, data, key)
<1>s. EventSize \in Nat /\ EntrySize \in Nat
  BY EventsAssumption
<1>1. /\ AllocatorInv(pa1) /\ block(pa, EventSize) \in Block /\ block(pa, EventSize) \notin pa.blocks
      /\ pa1.blocks = pa.blocks \cup {b \in {block(pa, EventSize)} : b # NoBlock}
  BY <1>s, AllocateSound
<1>5. /\ e = [id |-> id, event |-> block(pa, EventSize), entry |-> block(pa1, EntrySize),
              key |-> block(pa2, key), data |-> block(pa3, data)]
      /\ PostMemory(pa, data, key) = pa4
  BY DEF Posted, PostMemory
<1> HIDE DEF pa1
<1>2. /\ AllocatorInv(pa2) /\ block(pa1, EntrySize) \in Block /\ block(pa1, EntrySize) \notin pa1.blocks
      /\ pa2.blocks = pa1.blocks \cup {b \in {block(pa1, EntrySize)} : b # NoBlock}
  BY <1>1, <1>s, AllocateSound
<1> HIDE DEF pa2
<1>3. /\ AllocatorInv(pa3) /\ block(pa2, key) \in Block /\ block(pa2, key) \notin pa2.blocks
      /\ pa3.blocks = pa2.blocks \cup {b \in {block(pa2, key)} : b # NoBlock}
  BY <1>2, AllocateSound
<1> HIDE DEF pa3
<1>4. /\ AllocatorInv(pa4) /\ block(pa3, data) \in Block /\ block(pa3, data) \notin pa3.blocks
      /\ pa4.blocks = pa3.blocks \cup {b \in {block(pa3, data)} : b # NoBlock}
  BY <1>3, AllocateSound
<1> HIDE DEF pa4, e
<1>6. e \in Event /\ e.id = id
  BY <1>1, <1>2, <1>3, <1>4, <1>5 DEF Event
<1>7. BlocksOf(e) = {b \in {block(pa, EventSize), block(pa1, EntrySize), block(pa3, data),
                            block(pa2, key)} : b # NoBlock}
  BY <1>5 DEF BlocksOf
<1>8. pa.blocks \subseteq pa4.blocks /\ BlocksOf(e) \subseteq pa4.blocks /\ BlocksOf(e) \cap pa.blocks = {}
  BY <1>1, <1>2, <1>3, <1>4, <1>7
<1> QED
  BY <1>4, <1>5, <1>6, <1>8 DEF e

\* What the invariant says of the queue, as numbers of events.
LEMMA QueueFacts ==
    ASSUME TypeInv, OrderInv
    PROVE  /\ EventId \in Nat /\ Len(returned) \in Nat /\ Len(returned) < EventId
           /\ Waiting = Len(returned) + 1 .. EventId - 1
           /\ (Waiting # {} <=> has_event) /\ queue.tail \in Nat
           /\ has_event => queue.head = Len(returned) + 1 /\ queue.tail = EventId - 1
           /\ ~has_event => queue.tail = None
           /\ \A i \in Waiting :
                /\ i \in Nat \ {0} /\ i \in DOMAIN entries /\ entries[i] \in Entry
                /\ entries[i].event.id = i
                /\ entries[i].next_event = IF i < EventId - 1 THEN i + 1 ELSE None
<1>1. Len(returned) \in Nat /\ EventId \in Nat
  BY DEF TypeInv, EventId
<1>2. Len(returned) < EventId /\ Waiting = Len(returned) + 1 .. EventId - 1
  BY DEF OrderInv, Waiting
<1>3. queue = IF Len(returned) + 1 <= EventId - 1
              THEN [head |-> Len(returned) + 1, tail |-> EventId - 1]
              ELSE [head |-> None, tail |-> None]
  BY DEF OrderInv, EventsAreFifo
<1>6. (Waiting # {} <=> has_event) /\ queue.tail \in Nat
  <2>1. CASE Len(returned) + 1 <= EventId - 1
    <3>1. /\ queue.head = Len(returned) + 1 /\ queue.tail = EventId - 1
          /\ Len(returned) + 1 \in Waiting
      BY <1>1, <1>2, <1>3, <2>1
    <3> QED
      BY <3>1, <1>1, <2>1 DEF has_event, None
  <2>2. CASE ~(Len(returned) + 1 <= EventId - 1)
    <3>1. queue.head = None /\ queue.tail = None /\ Waiting = {}
      BY <1>1, <1>2, <1>3, <2>2
    <3> QED
      BY <3>1 DEF has_event, None
  <2> QED
    BY <2>1, <2>2
<1>7. /\ has_event => queue.head = Len(returned) + 1 /\ queue.tail = EventId - 1
      /\ ~has_event => queue.tail = None
  BY <1>1, <1>3 DEF has_event, None
<1>8. \A i \in Waiting :
        /\ i \in Nat \ {0} /\ i \in DOMAIN entries /\ entries[i] \in Entry
        /\ entries[i].event.id = i
        /\ entries[i].next_event = IF i < EventId - 1 THEN i + 1 ELSE None
  <2> SUFFICES ASSUME NEW i \in Waiting
               PROVE  /\ i \in Nat \ {0} /\ i \in DOMAIN entries /\ entries[i] \in Entry
                      /\ entries[i].event.id = i
                      /\ entries[i].next_event = IF i < EventId - 1 THEN i + 1 ELSE None
    OBVIOUS
  <2>1. i \in Nat \ {0}
    BY <1>1, <1>2
  <2>2. /\ i \in DOMAIN entries /\ entries[i].event.id = i
        /\ entries[i].next_event = IF i < EventId - 1 THEN i + 1 ELSE None
    BY <1>2 DEF OrderInv, EventsAreFifo
  <2>3. entries[i] \in Entry
    BY <2>2 DEF TypeInv, EntriesOK
  <2> QED
    BY <2>1, <2>2, <2>3
<1> QED
  BY <1>1, <1>2, <1>6, <1>7, <1>8

\* A new event at the tail of the queue keeps what is known of the others.
LEMMA PostKeeps ==
    ASSUME TypeInv, MemoryInv, OrderInv, NEW data \in Nat, NEW key \in Nat,
           NEW who \in {"handlers", "timeouts", "calls"},
           post_event(data, key, who), UNCHANGED <<main, returned>>
    PROVE  /\ MemoryInv' /\ OrderInv' /\ queue' \in [head : Nat, tail : Nat] /\ EntriesOK'
           /\ posts' \in [handlers : Nat, timeouts : Nat, calls : Nat]
<1> DEFINE e == Posted(memory, EventId, data, key)
           n == EventId
           m == Len(returned)
<1>1. /\ memory' = PostMemory(memory, data, key) /\ posts' = Counted(who)
      /\ entries' = [i \in DOMAIN entries \cup {n} |->
                        IF i = n THEN [event |-> e, next_event |-> None]
                        ELSE IF i = queue.tail THEN [entries[i] EXCEPT !.next_event = n]
                        ELSE entries[i]]
      /\ queue' = IF queue.tail # None THEN [queue EXCEPT !.tail = n]
                                       ELSE [head |-> n, tail |-> n]
  BY DEF post_event
<1>2. /\ posts \in [handlers : Nat, timeouts : Nat, calls : Nat]
      /\ queue \in [head : Nat, tail : Nat] /\ entries \in [DOMAIN entries -> Entry]
  BY DEF TypeInv, EntriesOK
<1>3. n \in Nat /\ m \in Nat /\ m < n /\ Waiting = m + 1 .. n - 1
  BY QueueFacts
<1>q. /\ Waiting # {} <=> has_event
      /\ has_event => queue.head = m + 1 /\ queue.tail = n - 1
      /\ ~has_event => queue.tail = None
  BY QueueFacts
<1>w. \A i \in Waiting :
        /\ i \in Nat \ {0} /\ i \in DOMAIN entries /\ entries[i] \in Entry
        /\ entries[i].event.id = i
        /\ entries[i].next_event = IF i < n - 1 THEN i + 1 ELSE None
  BY QueueFacts
<1>4. /\ AllocatorInv(memory') /\ memory.blocks \subseteq memory'.blocks
      /\ e \in Event /\ e.id = n
      /\ BlocksOf(e) \subseteq memory'.blocks /\ BlocksOf(e) \cap memory.blocks = {}
  <2>1. AllocatorInv(memory)
    BY DEF MemoryInv
  <2>2. /\ AllocatorInv(PostMemory(memory, data, key))
        /\ memory.blocks \subseteq PostMemory(memory, data, key).blocks
        /\ e \in Event /\ e.id = EventId
        /\ BlocksOf(e) \subseteq PostMemory(memory, data, key).blocks
        /\ BlocksOf(e) \cap memory.blocks = {}
    <3>1. EventId \in Nat
      BY <1>3
    <3>2. AllocatorInv(PostMemory(memory, data, key))
      BY <2>1, <3>1, PostFacts
    <3>3. memory.blocks \subseteq PostMemory(memory, data, key).blocks
      BY <2>1, <3>1, PostFacts
    <3>4. e \in Event
      BY <2>1, <3>1, PostFacts
    <3>5. e.id = EventId
      BY <2>1, <3>1, PostFacts
    <3>6. BlocksOf(e) \subseteq PostMemory(memory, data, key).blocks
      BY <2>1, <3>1, PostFacts
    <3>7. BlocksOf(e) \cap memory.blocks = {}
      BY <2>1, <3>1, PostFacts
    <3> HIDE DEF e
    <3> QED
      BY <3>2, <3>3, <3>4, <3>5, <3>6, <3>7
  <2> QED
    BY <1>1, <2>2
<1> HIDE DEF e, n, m
<1>12. /\ posts' \in [handlers : Nat, timeouts : Nat, calls : Nat]
       /\ posts'.handlers + posts'.timeouts + posts'.calls
            = posts.handlers + posts.timeouts + posts.calls + 1
  <2>1. /\ posts.handlers \in Nat /\ posts.timeouts \in Nat /\ posts.calls \in Nat
    BY <1>2
  <2>2. CASE who = "handlers"
    <3>1. posts' = [posts EXCEPT !.handlers = posts.handlers + 1]
      BY <1>1, <1>2, <2>2 DEF Counted
    <3>2. /\ posts' \in [handlers : Nat, timeouts : Nat, calls : Nat]
          /\ posts'.handlers = posts.handlers + 1
          /\ posts'.timeouts = posts.timeouts /\ posts'.calls = posts.calls
      BY <1>2, <2>1, <3>1
    <3> QED
      BY <2>1, <3>2
  <2>3. CASE who = "timeouts"
    <3>1. posts' = [posts EXCEPT !.timeouts = posts.timeouts + 1]
      BY <1>1, <1>2, <2>3 DEF Counted
    <3>2. /\ posts' \in [handlers : Nat, timeouts : Nat, calls : Nat]
          /\ posts'.timeouts = posts.timeouts + 1
          /\ posts'.handlers = posts.handlers /\ posts'.calls = posts.calls
      BY <1>2, <2>1, <3>1
    <3> QED
      BY <2>1, <3>2
  <2>4. CASE who = "calls"
    <3>1. posts' = [posts EXCEPT !.calls = posts.calls + 1]
      BY <1>1, <1>2, <2>4 DEF Counted
    <3>2. /\ posts' \in [handlers : Nat, timeouts : Nat, calls : Nat]
          /\ posts'.calls = posts.calls + 1
          /\ posts'.handlers = posts.handlers /\ posts'.timeouts = posts.timeouts
      BY <1>2, <2>1, <3>1
    <3> QED
      BY <2>1, <3>2
  <2> QED
    BY <2>2, <2>3, <2>4
<1>5. EventId' = n + 1 /\ Len(returned)' = m
  <2>1. /\ posts.handlers \in Nat /\ posts.timeouts \in Nat /\ posts.calls \in Nat
        /\ posts'.handlers \in Nat /\ posts'.timeouts \in Nat /\ posts'.calls \in Nat
    BY <1>2, <1>12
  <2> QED
    BY <1>12, <2>1 DEF EventId, n, m
<1>6. Waiting' = m + 1 .. n /\ \A i \in m + 1 .. n : i # n => i \in Waiting
  <2>1. Waiting' = m + 1 .. (n + 1) - 1
    BY <1>5 DEF Waiting
  <2> QED
    BY <2>1, <1>3
<1>7. entries'[n] = [event |-> e, next_event |-> None] /\ DOMAIN entries' = DOMAIN entries \cup {n}
  BY <1>1
<1>8. \A i \in Waiting :
        /\ i # n /\ i \in DOMAIN entries' /\ entries'[i].event = entries[i].event
        /\ entries'[i].next_event = i + 1
  <2> SUFFICES ASSUME NEW i \in Waiting
               PROVE  /\ i # n /\ i \in DOMAIN entries' /\ entries'[i].event = entries[i].event
                      /\ entries'[i].next_event = i + 1
    OBVIOUS
  <2>1. i # n /\ i \in DOMAIN entries /\ entries[i] \in Entry
    BY <1>3, <1>w
  <2>2. entries'[i] = IF i = queue.tail THEN [entries[i] EXCEPT !.next_event = n] ELSE entries[i]
    BY <1>1, <2>1
  <2>3. queue.tail = n - 1
    BY <1>q
  <2>4. CASE i = n - 1
    <3>1. entries'[i] = [entries[i] EXCEPT !.next_event = n]
      BY <2>2, <2>3, <2>4
    <3>2. entries'[i].event = entries[i].event /\ entries'[i].next_event = n
      BY <3>1, <2>1 DEF Entry
    <3> QED
      BY <2>1, <3>2, <2>4, <1>3, <1>7
  <2>5. CASE i # n - 1
    <3>1. entries'[i] = entries[i]
      BY <2>2, <2>3, <2>5
    <3>2. i < n - 1
      BY <2>5, <1>3
    <3> QED
      BY <2>1, <3>1, <3>2, <1>w, <1>7
  <2> QED
    BY <2>4, <2>5
<1>9. EntriesOK'
  <2> SUFFICES ASSUME NEW i \in DOMAIN entries' PROVE entries'[i] \in Entry
    BY <1>1 DEF EntriesOK
  <2>1. n \in Nat /\ None \in Nat
    BY <1>3 DEF None
  <2>2. CASE i = n
    BY <2>1, <2>2, <1>4, <1>7 DEF Entry
  <2>3. CASE i # n
    <3>1. i \in DOMAIN entries /\ entries[i] \in Entry
      BY <2>3, <1>2, <1>7
    <3>2. entries'[i] = IF i = queue.tail THEN [entries[i] EXCEPT !.next_event = n] ELSE entries[i]
      BY <1>1, <2>3, <3>1
    <3> QED
      BY <2>1, <3>1, <3>2 DEF Entry
  <2> QED
    BY <2>2, <2>3
<1>10. queue' = [head |-> m + 1, tail |-> n]
  <2>1. CASE has_event
    <3>1. queue.head = m + 1 /\ queue.tail # None
      BY <2>1, <1>q, <1>3 DEF has_event, None
    <3> QED
      BY <3>1, <1>1, <1>2
  <2>2. CASE ~has_event
    <3>1. queue.tail = None /\ Waiting = {}
      BY <2>2, <1>q
    <3>2. n = m + 1
      BY <3>1, <1>3
    <3> QED
      BY <3>1, <3>2, <1>1
  <2> QED
    BY <2>1, <2>2
<1>11. MemoryInv'
  <2>1. main' = main /\ BlocksOf(main.event) \subseteq memory'.blocks
    BY <1>4 DEF MemoryInv
  <2>2. main.pc # "idle" => main.event = NoEvent
    BY DEF MemoryInv
  <2>3. \A i \in Waiting : BlocksOf(entries[i].event) \subseteq memory.blocks
    BY DEF MemoryInv
  <2>4. entries'[n].event = e /\ n \in DOMAIN entries'
    BY <1>7
  <2>5. \A i \in m + 1 .. n :
          i \in DOMAIN entries' /\ BlocksOf(entries'[i].event) \subseteq memory'.blocks
    BY <1>4, <1>6, <1>8, <2>3, <2>4
  <2>6. \A i, j \in m + 1 .. n :
          i # j => BlocksOf(entries'[i].event) \cap BlocksOf(entries'[j].event) = {}
    <3> SUFFICES ASSUME NEW i \in m + 1 .. n, NEW j \in m + 1 .. n, i # j
                 PROVE  BlocksOf(entries'[i].event) \cap BlocksOf(entries'[j].event) = {}
      OBVIOUS
    <3>1. CASE i # n /\ j # n
      <4>1. i \in Waiting /\ j \in Waiting
        BY <3>1, <1>6
      <4> QED
        BY <4>1, <1>8 DEF MemoryInv
    <3>2. CASE i = n
      <4>1. j \in Waiting
        BY <3>2, <1>6
      <4> QED
        BY <3>2, <4>1, <1>4, <1>8, <2>3, <2>4
    <3>3. CASE j = n
      <4>1. i \in Waiting
        BY <3>3, <1>6
      <4> QED
        BY <3>3, <4>1, <1>4, <1>8, <2>3, <2>4
    <3> QED
      BY <3>1, <3>2, <3>3
  <2>7. \A i \in m + 1 .. n : BlocksOf(main.event) \cap BlocksOf(entries'[i].event) = {}
    <3> SUFFICES ASSUME NEW i \in m + 1 .. n
                 PROVE  BlocksOf(main.event) \cap BlocksOf(entries'[i].event) = {}
      OBVIOUS
    <3>1. CASE i # n
      <4>1. i \in Waiting
        BY <3>1, <1>6
      <4> QED
        BY <4>1, <1>8 DEF MemoryInv
    <3>2. CASE i = n
      BY <3>2, <1>4, <2>4 DEF MemoryInv
    <3> QED
      BY <3>1, <3>2
  <2> QED
    BY <1>4, <1>6, <2>1, <2>2, <2>5, <2>6, <2>7 DEF MemoryInv
<1>13. OrderInv'
  <2>1. \A i \in m + 1 .. n :
          /\ i \in DOMAIN entries' /\ entries'[i].event.id = i
          /\ entries'[i].next_event = IF i < n THEN i + 1 ELSE None
    <3> SUFFICES ASSUME NEW i \in m + 1 .. n
                 PROVE  /\ i \in DOMAIN entries' /\ entries'[i].event.id = i
                        /\ entries'[i].next_event = IF i < n THEN i + 1 ELSE None
      OBVIOUS
    <3>1. CASE i = n
      <4>1. entries'[n].event = e /\ entries'[n].next_event = None /\ n \in DOMAIN entries'
        BY <1>7
      <4> QED
        BY <3>1, <4>1, <1>3, <1>4
    <3>2. CASE i # n
      <4>1. i \in Waiting /\ i < n
        BY <3>2, <1>3, <1>6
      <4> QED
        BY <4>1, <1>8, <1>w
    <3> QED
      BY <3>1, <3>2
  <2>2. \A i \in DOMAIN returned' : returned'[i] = i
    BY DEF OrderInv, EventsAreFifo
  <2>3. (n + 1) - 1 = n /\ m + 1 <= n /\ m < n + 1
    BY <1>3
  <2>4. EventsAreFifo'
    BY <1>5, <1>10, <2>1, <2>2, <2>3 DEF EventsAreFifo
  <2> QED
    BY <1>5, <2>3, <2>4 DEF OrderInv
<1>14. queue' \in [head : Nat, tail : Nat]
  BY <1>3, <1>10
<1> QED
  BY <1>9, <1>11, <1>12, <1>13, <1>14
-----------------------------------------------------------------------------
(* The initial states, and the steps that do not touch the events. *)

LEMMA EventsInit == Init => EventsInv
<1> SUFFICES ASSUME Init PROVE EventsInv
  OBVIOUS
<1>1. TypeInv
  <2>1. main \in [pc : MainStates, packet : Nat, pumping : BOOLEAN, event : Event]
    BY NoEventFacts, Zenon DEF Init, MainStates, None
  <2>2. reader \in [pc : ReaderStates, packet : Nat, walk : Nat]
    BY DEF Init, ReaderStates, None
  <2>3. next \in [Packets -> Nat] /\ records \subseteq Nat
    BY DEF Init, None
  <2>4. posts \in [handlers : Nat, timeouts : Nat, calls : Nat]
    BY DEF Init
  <2>5. /\ thread_socket \in BOOLEAN /\ thread_running \in BOOLEAN /\ woken \in BOOLEAN
        /\ socket \in {"unbound", "bound", "destroyed"} /\ mutex \in {"free", "reader", "main"}
    BY Zenon DEF Init
  <2>6. /\ binds \in Nat /\ kernel \in Nat /\ head \in Nat /\ received \in Nat
        /\ queue \in [head : Nat, tail : Nat] /\ handled \in Seq(Nat) /\ returned \in Seq(Nat)
    BY DEF Init, None
  <2>7. EntriesOK
    BY DEF Init, NoEntries, EntriesOK
  <2> QED
    BY <2>1, <2>2, <2>3, <2>4, <2>5, <2>6, <2>7 DEF TypeInv
<1>2. MemoryInv
  <2>1. AllocatorInv(memory) /\ Waiting = {} /\ main.event = NoEvent
    BY NewSound DEF Init, Waiting, EventId
  <2> QED
    BY <2>1, NoEventFacts DEF MemoryInv
<1>3. OrderInv
  <2>1. EventId = 1 /\ Len(returned) = 0 /\ DOMAIN returned = {}
    BY DEF Init, EventId
  <2>2. queue = [head |-> None, tail |-> None]
    BY DEF Init
  <2> QED
    BY <2>1, <2>2 DEF OrderInv, EventsAreFifo
<1>4. HandsInv
  BY EventsAssumption DEF Init, HandsInv, None
<1>5. CASE thread_socket
  <2>1. Low = 1 /\ High = 0
    BY DEF Init, Low, High, None
  <2>2. ListInv
    BY <2>1 DEF Init, ListInv, None
  <2>3. LockInv
    BY DEF Init, LockInv, None
  <2> QED
    BY <1>1, <1>2, <1>3, <1>4, <1>5, <2>2, <2>3 DEF Init, EventsInv, PacketInv
<1>6. CASE ~thread_socket
  BY <1>1, <1>2, <1>3, <1>4, <1>6 DEF Init, EventsInv, PacketInv, DirectInv
<1> QED
  BY <1>5, <1>6 DEF Init

\* A step that leaves the queue and its memory alone, and the event the application has.
LEMMA QuietEvents ==
    ASSUME MemoryInv, OrderInv, UNCHANGED <<queue, entries, memory, posts, returned>>,
           main'.event = main.event, main.pc = "idle" => main'.pc = "idle"
    PROVE  MemoryInv' /\ OrderInv'
<1>1. EventId' = EventId /\ Waiting' = Waiting
  BY DEF EventId, Waiting
<1>2. MemoryInv'
  BY <1>1 DEF MemoryInv
<1>3. OrderInv'
  BY <1>1 DEF OrderInv, EventsAreFifo
<1> QED
  BY <1>2, <1>3

\* A step that leaves the packets and the threads' places alone.
LEMMA QuietPackets ==
    ASSUME PacketInv, UNCHANGED <<thread_socket, kernel, thread_running, reader, list_vars, received, handled>>,
           main'.packet = main.packet,
           main'.pc = main.pc \/ {main.pc, main'.pc} \subseteq {"idle", "sweep", "take", "dequeue"}
    PROVE  PacketInv'
<1>1. HandsInv'
  BY DEF PacketInv, HandsInv
<1>2. Low' = Low /\ High' = High
  BY DEF Low, High
<1>3. CASE thread_socket
  <2>1. ListInv'
    BY <1>2, <1>3 DEF PacketInv, ListInv, list_vars
  <2>2. LockInv'
    BY <1>2, <1>3 DEF PacketInv, LockInv, list_vars
  <2> QED
    BY <1>1, <1>3, <2>1, <2>2 DEF PacketInv
<1>4. CASE ~thread_socket
  BY <1>1, <1>4 DEF PacketInv, DirectInv, list_vars
<1> QED
  BY <1>3, <1>4

\* What is known of the list, as numbers of packets.
LEMMA ListFacts ==
    ASSUME TypeInv, PacketInv, thread_socket
    PROVE  /\ Low \in Nat \ {0} /\ High \in Nat /\ Low <= High + 1 /\ High <= received
           /\ received \in Nat /\ received <= MaxPackets /\ MaxPackets \in Nat
           /\ Len(handled) \in Nat
<1>1. Len(handled) \in Nat /\ received \in Nat /\ kernel \in Nat /\ MaxPackets \in Nat
  BY EventsAssumption DEF TypeInv
<1>2. kernel + received <= MaxPackets /\ Low <= High + 1
  BY DEF PacketInv, HandsInv, ListInv
<1>3. received = 0 => reader.packet = None
  BY DEF PacketInv, LockInv, None
<1> QED
  BY <1>1, <1>2, <1>3 DEF Low, High
-----------------------------------------------------------------------------
(* The socket and the reader. *)

LEMMA BindKeeps == ASSUME TypeInv, PacketInv, bind PROVE TypeInv' /\ PacketInv'
<1>0. /\ UNCHANGED <<thread_socket, received, main, woken, list_vars, event_vars>>
      /\ socket' \in {"unbound", "bound"} /\ binds' = binds + 1
  BY DEF bind
<1>1. kernel' \in Nat /\ kernel' <= kernel /\ kernel \in Nat
  BY DEF bind, TypeInv
<1>2. \/ UNCHANGED <<thread_running, reader>>
      \/ /\ thread_socket /\ ~thread_running /\ thread_running' = TRUE
         /\ reader' = [reader EXCEPT !.pc = "recv"]
  BY DEF bind
<1>3. TypeInv'
  <2>1. reader' \in [pc : ReaderStates, packet : Nat, walk : Nat] /\ thread_running' \in BOOLEAN
    BY <1>2 DEF TypeInv, ReaderStates
  <2>2. EntriesOK'
    BY <1>0 DEF TypeInv, EntriesOK, event_vars
  <2>3. binds' \in Nat /\ socket' \in {"unbound", "bound", "destroyed"}
    BY <1>0 DEF TypeInv
  <2> QED
    BY <1>0, <1>1, <2>1, <2>2, <2>3 DEF TypeInv, list_vars, event_vars
<1>4. HandsInv'
  <2>1. handled' = handled /\ main' = main /\ received' = received
    BY <1>0 DEF event_vars
  <2>2. kernel' + received <= MaxPackets
    <3>1. kernel \in Nat /\ received \in Nat /\ MaxPackets \in Nat /\ kernel + received <= MaxPackets
      BY EventsAssumption DEF TypeInv, PacketInv, HandsInv
    <3>2. \A a, b, c, d \in Nat : a <= b /\ b + c <= d => a + c <= d
      OBVIOUS
    <3> QED
      BY <1>1, <3>1, <3>2
  <2> QED
    BY <2>1, <2>2 DEF PacketInv, HandsInv
<1>5. CASE UNCHANGED <<thread_running, reader>>
  <2>1. Low' = Low /\ High' = High
    BY <1>0, <1>5 DEF Low, High, event_vars
  <2>2. thread_socket => ListInv' /\ LockInv'
    BY <1>0, <1>5, <2>1 DEF PacketInv, ListInv, LockInv, list_vars
  <2>3. ~thread_socket => DirectInv'
    BY <1>0, <1>5 DEF PacketInv, DirectInv, list_vars, event_vars
  <2>4. (thread_running <=> reader.pc # "none")' /\ thread_socket' = thread_socket
    BY <1>0, <1>5 DEF PacketInv
  <2> QED
    BY <1>3, <1>4, <2>2, <2>3, <2>4 DEF PacketInv
<1>6. CASE thread_socket /\ ~thread_running /\ thread_running' /\ reader' = [reader EXCEPT !.pc = "recv"]
  <2>1. /\ reader.pc = "none" /\ reader.packet = None
        /\ reader'.pc = "recv" /\ reader'.packet = None /\ reader'.walk = reader.walk
    BY <1>0, <1>6 DEF PacketInv, LockInv, TypeInv
  <2>2. Low' = Low /\ High' = High
    BY <1>0, <2>1 DEF Low, High, event_vars
  <2>3. ListInv'
    BY <1>0, <1>6, <2>2 DEF PacketInv, ListInv, list_vars
  <2>4. LockInv'
    BY <1>0, <1>6, <2>1, <2>2 DEF PacketInv, LockInv, list_vars
  <2>5. (thread_running <=> reader.pc # "none")' /\ thread_socket' = thread_socket
    BY <1>0, <1>6, <2>1, Zenon
  <2> QED
    BY <1>3, <1>4, <1>6, <2>3, <2>4, <2>5 DEF PacketInv
<1> QED
  BY <1>2, <1>3, <1>5, <1>6

LEMMA KernelKeeps ==
    ASSUME TypeInv, PacketInv, Arrive \/ Destroy
    PROVE  TypeInv' /\ PacketInv'
<1>1. kernel' \in Nat /\ kernel' + received <= MaxPackets
  <2>1. kernel \in Nat /\ received \in Nat /\ MaxPackets \in Nat /\ kernel + received <= MaxPackets
    BY EventsAssumption DEF TypeInv, PacketInv, HandsInv
  <2> QED
    BY <2>1 DEF Arrive, Destroy
<1>2. UNCHANGED <<thread_socket, binds, thread_running, reader, received, main, woken, list_vars, event_vars>>
  BY DEF Arrive, Destroy
<1>3. TypeInv'
  <2>1. socket' \in {"unbound", "bound", "destroyed"}
    BY DEF Arrive, Destroy, TypeInv
  <2> QED
    BY <1>1, <1>2, <2>1 DEF TypeInv, EntriesOK, list_vars, event_vars
<1>4. HandsInv'
  BY <1>1, <1>2 DEF PacketInv, HandsInv, event_vars
<1>5. Low' = Low /\ High' = High
  BY <1>2 DEF Low, High, event_vars
<1>6. thread_socket => ListInv' /\ LockInv'
  BY <1>2, <1>5 DEF PacketInv, ListInv, LockInv, list_vars
<1>7. ~thread_socket => DirectInv'
  BY <1>2 DEF PacketInv, DirectInv, list_vars, event_vars
<1> QED
  BY <1>2, <1>3, <1>4, <1>6, <1>7 DEF PacketInv

\* The reader exists only for a socket with the thread, and has a packet or not.
LEMMA ReaderFacts ==
    ASSUME TypeInv, PacketInv, reader.pc # "none"
    PROVE  /\ thread_socket /\ ListInv /\ LockInv /\ HandsInv /\ thread_running
           /\ reader.packet \in Nat /\ reader.walk \in Nat
           /\ reader = [pc |-> reader.pc, packet |-> reader.packet, walk |-> reader.walk]
BY DEF PacketInv, DirectInv, TypeInv

\* Steps of the reader outside the critical section and without a packet.
LEMMA ReaderIdleKeeps ==
    ASSUME TypeInv, PacketInv, ReadNothing \/ ReadInvalid \/ ThreadEnds \/ Notify
    PROVE  TypeInv' /\ PacketInv'
<1>1. /\ reader.pc \in {"recv", "returned", "notify"}
      /\ UNCHANGED <<sock_vars, list_vars, received, main, event_vars>>
      /\ \E pc \in {"recv", "returned", "notify", "none"} :
            reader' = [reader EXCEPT !.pc = pc] /\ thread_running' = (pc # "none")
  BY ReaderFacts DEF ReadNothing, ReadInvalid, ThreadEnds, Notify, ReaderGoes
<1>2. /\ thread_socket /\ ListInv /\ LockInv /\ HandsInv
      /\ reader.packet \in Nat /\ reader.walk \in Nat /\ reader.packet = None
  BY <1>1, ReaderFacts DEF LockInv
<1>3. /\ reader'.pc \in {"recv", "returned", "notify", "none"}
      /\ reader'.packet = None /\ reader'.walk = reader.walk
      /\ reader' \in [pc : ReaderStates, packet : Nat, walk : Nat]
      /\ thread_running' = (reader'.pc # "none")
  BY <1>1, <1>2 DEF TypeInv, ReaderStates
<1>4. TypeInv'
  <2>1. woken' \in BOOLEAN
    BY DEF ReadNothing, ReadInvalid, ThreadEnds, Notify, TypeInv
  <2> QED
    BY <1>1, <1>3, <2>1 DEF TypeInv, EntriesOK, sock_vars, list_vars, event_vars
<1>5. Low' = Low /\ High' = High
  BY <1>1, <1>2, <1>3 DEF Low, High, event_vars
<1>6. ListInv'
  BY <1>1, <1>2, <1>5 DEF ListInv, list_vars
<1>7. LockInv'
  BY <1>1, <1>2, <1>3, <1>5 DEF LockInv, list_vars
<1>8. HandsInv'
  BY <1>1, <1>2 DEF HandsInv, sock_vars, event_vars
<1> QED
  BY <1>1, <1>2, <1>3, <1>4, <1>6, <1>7, <1>8 DEF PacketInv, sock_vars

LEMMA ReadPacketKeeps == ASSUME TypeInv, PacketInv, ReadPacket PROVE TypeInv' /\ PacketInv'
<1>1. /\ thread_socket /\ ListInv /\ LockInv /\ HandsInv /\ thread_running
      /\ reader.pc = "recv" /\ reader.packet = None /\ reader.walk \in Nat
  BY ReaderFacts DEF ReadPacket, LockInv
<1>2. kernel \in Nat \ {0} /\ received \in Nat /\ MaxPackets \in Nat /\ kernel + received <= MaxPackets
  BY <1>1, EventsAssumption DEF ReadPacket, TypeInv, HandsInv
<1>3. kernel' = kernel - 1 /\ received' = received + 1 /\ kernel' + received' = kernel + received
  BY <1>2 DEF ReadPacket
<1>4. /\ reader'.pc = "lock" /\ reader'.packet = received' /\ reader'.walk = reader.walk
      /\ reader' \in [pc : ReaderStates, packet : Nat, walk : Nat]
  <2>1. reader \in [pc : ReaderStates, packet : Nat, walk : Nat] /\ received' \in Nat
    BY <1>2, <1>3 DEF TypeInv
  <2>2. reader' = [reader EXCEPT !.pc = "lock", !.packet = received']
    BY DEF ReadPacket
  <2> QED
    BY <2>1, <2>2 DEF ReaderStates
<1>5. /\ records' = records \cup {received'}
      /\ UNCHANGED <<thread_socket, socket, binds, thread_running, mutex, head, next, main, woken, event_vars>>
  BY DEF ReadPacket
<1>6. TypeInv'
  <2>1. kernel' \in Nat /\ received' \in Nat
    BY <1>2, <1>3
  <2>2. records' \subseteq Nat
    BY <1>5, <2>1 DEF TypeInv
  <2> QED
    BY <1>4, <1>5, <2>1, <2>2 DEF TypeInv, EntriesOK, event_vars
<1>7. Low' = Low /\ High' = High
  <2>1. Low' = Low
    BY <1>5 DEF Low, event_vars
  <2>2. High = received /\ High' = received' - 1
    BY <1>1, <1>2, <1>3, <1>4 DEF High, None
  <2> QED
    BY <1>2, <1>3, <2>1, <2>2
<1>8. ListInv'
  BY <1>1, <1>5, <1>7 DEF ListInv
<1>9. LockInv'
  <2>1. received' # 0 /\ received' \in records'
    BY <1>2, <1>3, <1>5
  <2> QED
    BY <1>1, <1>4, <1>5, <1>7, <2>1 DEF LockInv
<1>10. HandsInv'
  <2>1. kernel' + received' <= MaxPackets /\ main' = main /\ handled' = handled
    BY <1>2, <1>3, <1>5 DEF event_vars
  <2> QED
    BY <1>1, <2>1 DEF HandsInv
<1> QED
  BY <1>1, <1>4, <1>5, <1>6, <1>8, <1>9, <1>10 DEF PacketInv

\* Inside the critical section and on its way there the reader holds the packet it read.
LEMMA ReaderHolds ==
    ASSUME TypeInv, PacketInv, reader.pc \in {"lock", "walk", "link", "unlock"}
    PROVE  /\ thread_socket /\ ListInv /\ LockInv /\ HandsInv /\ thread_running
           /\ reader.packet = received /\ received \in records /\ received \in Packets
           /\ reader.walk \in Nat /\ received \in Nat \ {0}
           /\ Low \in Nat \ {0} /\ High \in Nat /\ Low <= High + 1 /\ High <= received
           /\ reader.pc = "unlock" => High = received
           /\ reader.pc # "unlock" => High = received - 1
<1>1. thread_socket /\ ListInv /\ LockInv /\ HandsInv /\ thread_running /\ reader.walk \in Nat
  BY ReaderFacts
<1>2. reader.packet = received /\ received \in records /\ received # 0
  BY <1>1 DEF LockInv
<1>3. /\ Low \in Nat \ {0} /\ High \in Nat /\ Low <= High + 1 /\ High <= received
      /\ received \in Nat /\ received <= MaxPackets /\ MaxPackets \in Nat
  BY <1>1, ListFacts
<1>4. received \in Packets
  BY <1>2, <1>3 DEF Packets
<1>5. (reader.pc = "unlock" => High = received) /\ (reader.pc # "unlock" => High = received - 1)
  BY <1>2 DEF High, None
<1> QED
  BY <1>1, <1>2, <1>3, <1>4, <1>5

\* A step of the reader that leaves the records, the main thread and the history alone
\* keeps what PacketInv says of them.
LEMMA ReaderStep ==
    ASSUME TypeInv, PacketInv, reader.pc \in {"lock", "walk", "link", "unlock"},
           UNCHANGED <<sock_vars, thread_running, records, received, main, woken, event_vars>>,
           reader' \in [pc : ReaderStates \ {"none"}, packet : Nat, walk : Nat],
           head' \in Nat, next' \in [Packets -> Nat], mutex' \in {"free", "reader", "main"},
           ListInv', LockInv'
    PROVE  TypeInv' /\ PacketInv'
<1>1. thread_socket /\ HandsInv /\ thread_running
  BY ReaderHolds
<1>2. reader' \in [pc : ReaderStates, packet : Nat, walk : Nat] /\ reader'.pc # "none"
  OBVIOUS
<1>3. TypeInv'
  BY <1>2 DEF TypeInv, EntriesOK, sock_vars, event_vars
<1>4. HandsInv'
  BY <1>1 DEF HandsInv, sock_vars, event_vars
<1> QED
  BY <1>1, <1>2, <1>3, <1>4 DEF PacketInv, sock_vars

LEMMA ReaderLocksKeeps == ASSUME TypeInv, PacketInv, ReaderLocks PROVE TypeInv' /\ PacketInv'
<1>1. /\ thread_socket /\ ListInv /\ LockInv /\ reader.packet = received /\ received \in Nat
      /\ reader.pc = "lock" /\ mutex = "free"
  BY ReaderHolds DEF ReaderLocks
<1>2. /\ mutex' = "reader"
      /\ UNCHANGED <<sock_vars, thread_running, head, next, records, received, main, woken, event_vars>>
  BY DEF ReaderLocks
<1>3. /\ reader'.pc = "walk" /\ reader'.packet = reader.packet /\ reader'.walk = None
      /\ reader' \in [pc : ReaderStates \ {"none"}, packet : Nat, walk : Nat]
  BY DEF ReaderLocks, TypeInv, ReaderStates, None
<1>4. Low' = Low /\ High' = High
  BY <1>1, <1>2, <1>3 DEF Low, High, event_vars
<1>5. ListInv'
  BY <1>1, <1>2, <1>4 DEF ListInv
<1>6. LockInv'
  BY <1>1, <1>2, <1>3, <1>4 DEF LockInv
<1>7. head' \in Nat /\ next' \in [Packets -> Nat] /\ mutex' \in {"free", "reader", "main"}
  BY <1>2 DEF TypeInv
<1> QED
  BY <1>1, <1>2, <1>3, <1>5, <1>6, <1>7, ReaderStep

\* The reader looks for the end of the list, which stays where it is under the lock.
LEMMA ReaderWalksKeeps == ASSUME TypeInv, PacketInv, ReaderWalks PROVE TypeInv' /\ PacketInv'
<1> DEFINE link == LinkAt(reader.walk)
<1>1. /\ thread_socket /\ ListInv /\ LockInv /\ reader.packet = received /\ received \in Nat
      /\ reader.pc = "walk" /\ reader.walk \in Nat
      /\ Low \in Nat \ {0} /\ High \in Nat /\ Low <= High + 1
  BY ReaderHolds DEF ReaderWalks
<1>2. UNCHANGED <<sock_vars, thread_running, list_vars, received, main, woken, event_vars>>
  BY DEF ReaderWalks
<1>3. \/ link # None /\ link \in Low .. High
      \/ link = None /\ reader.walk = IF Low <= High THEN High ELSE None
  <2>1. CASE reader.walk = None
    BY <1>1, <2>1 DEF ListInv, LinkAt, None
  <2>2. CASE reader.walk # None
    <3>1. reader.walk \in Low .. High
      BY <1>1, <2>2 DEF LockInv
    <3>2. link = IF reader.walk < High THEN reader.walk + 1 ELSE None
      BY <1>1, <2>2, <3>1 DEF ListInv, LinkAt
    <3> HIDE DEF link
    <3>3. CASE reader.walk < High
      BY <1>1, <3>1, <3>2, <3>3 DEF None
    <3>4. CASE ~(reader.walk < High)
      BY <1>1, <3>1, <3>2, <3>4 DEF None
    <3> QED
      BY <3>3, <3>4
  <2> QED
    BY <2>1, <2>2
<1>4. reader' = IF link # None THEN [reader EXCEPT !.walk = link] ELSE [reader EXCEPT !.pc = "link"]
  BY DEF ReaderWalks
<1> HIDE DEF link
<1>5. /\ reader'.pc \in {"walk", "link"} /\ reader'.packet = reader.packet
      /\ reader'.pc = "walk" => reader'.walk \in Low .. High
      /\ reader'.pc = "link" => reader'.walk = IF Low <= High THEN High ELSE None
      /\ reader' \in [pc : ReaderStates \ {"none"}, packet : Nat, walk : Nat]
  <2>1. reader \in [pc : ReaderStates, packet : Nat, walk : Nat]
    BY DEF TypeInv
  <2>2. CASE link # None
    <3>1. link \in Nat
      BY <1>1, <1>3, <2>2
    <3> QED
      BY <1>1, <1>3, <1>4, <2>1, <2>2, <3>1 DEF ReaderStates
  <2>3. CASE link = None
    BY <1>1, <1>3, <1>4, <2>1, <2>3 DEF ReaderStates
  <2> QED
    BY <2>2, <2>3
<1>6. Low' = Low /\ High' = High
  BY <1>1, <1>2, <1>5 DEF Low, High, event_vars
<1>7. ListInv'
  BY <1>1, <1>2, <1>6 DEF ListInv, list_vars
<1>8. LockInv'
  BY <1>1, <1>2, <1>5, <1>6 DEF LockInv, list_vars
<1>9. head' \in Nat /\ next' \in [Packets -> Nat] /\ mutex' \in {"free", "reader", "main"}
  BY <1>2 DEF TypeInv, list_vars
<1> QED
  BY <1>1, <1>2, <1>5, <1>7, <1>8, <1>9, ReaderStep DEF list_vars

\* The packet is put behind the last one of the list.
LEMMA ReaderLinksKeeps == ASSUME TypeInv, PacketInv, ReaderLinks PROVE TypeInv' /\ PacketInv'
<1>1. /\ thread_socket /\ ListInv /\ LockInv /\ reader.packet = received /\ received \in Nat \ {0}
      /\ received \in records /\ received \in Packets
      /\ reader.pc = "link" /\ reader.walk \in Nat
      /\ Low \in Nat \ {0} /\ High \in Nat /\ Low <= High + 1 /\ High = received - 1
  BY ReaderHolds DEF ReaderLinks
<1>2. UNCHANGED <<sock_vars, thread_running, mutex, records, received, main, woken, event_vars>>
  BY DEF ReaderLinks
<1>3. /\ reader'.pc = "unlock" /\ reader'.packet = reader.packet /\ reader'.walk = reader.walk
      /\ reader' \in [pc : ReaderStates \ {"none"}, packet : Nat, walk : Nat]
  BY DEF ReaderLinks, ReaderGoes, TypeInv, ReaderStates
<1>4. Low' = Low /\ High' = received
  BY <1>2, <1>3 DEF Low, High, event_vars
<1>5. reader.walk = IF Low <= High THEN High ELSE None
  BY <1>1 DEF LockInv
<1>6. next \in [Packets -> Nat] /\ head \in Nat
  BY DEF TypeInv
<1>7. CASE Low <= High
  <2>1. reader.walk = High /\ reader.walk # None
    BY <1>1, <1>5, <1>7 DEF None
  <2>2. next' = [next EXCEPT ![High] = received] /\ head' = head
    BY <1>1, <2>1 DEF ReaderLinks
  <2>3. High \in Packets /\ High # received
    BY <1>1, <1>7, EventsAssumption DEF Packets
  <2>4. next' \in [Packets -> Nat] /\ next'[High] = received
        /\ \A p \in Packets : p # High => next'[p] = next[p]
    <3>1. received \in Nat
      BY <1>1
    <3> HIDE DEF High
    <3> QED
      BY <1>6, <2>2, <2>3, <3>1
  <2>5. ListInv'
    <3>1. head' = Low
      BY <1>7, <1>1, <2>2 DEF ListInv
    <3>2. next[received] = None
      BY <1>1 DEF ListInv
    <3>3. \A p \in Packets : p > received => next'[p] = None
      <4>1. \A p \in Packets : p > received => p > High /\ p # High
        BY <1>1, EventsAssumption DEF Packets
      <4>2. \A p \in Packets : p > High => next[p] = None
        BY <1>1 DEF ListInv
      <4> QED
        BY <2>4, <4>1, <4>2
    <3>4. ASSUME NEW p \in Low .. received
          PROVE  p \in records /\ next'[p] = IF p < received THEN p + 1 ELSE None
      <4>1. CASE p = received
        BY <1>1, <2>3, <2>4, <3>2, <4>1
      <4>2. CASE p = High
        BY <1>1, <1>7, <2>4, <4>2 DEF ListInv
      <4>3. CASE p \in Low .. High /\ p # High
        <5>1. p \in Packets /\ p < High /\ p < received
          BY <1>1, <4>3, EventsAssumption DEF Packets
        <5>2. p \in records /\ next[p] = p + 1
          BY <1>1, <4>3, <5>1 DEF ListInv
        <5> QED
          BY <2>4, <4>3, <5>1, <5>2
      <4> QED
        BY <1>1, <4>1, <4>2, <4>3
    <3> QED
      BY <1>1, <1>2, <1>4, <1>7, <3>1, <3>3, <3>4 DEF ListInv
  <2>6. LockInv'
    BY <1>1, <1>2, <1>3, <1>4 , <2>2, <2>5 DEF LockInv, ListInv
  <2>7. head' \in Nat /\ mutex' \in {"free", "reader", "main"}
    BY <1>2, <1>6, <2>2 DEF TypeInv
  <2> QED
    BY <1>1, <1>2, <1>3, <2>4, <2>5, <2>6, <2>7, ReaderStep
<1>8. CASE ~(Low <= High)
  <2>1. reader.walk = None /\ Low = received
    BY <1>1, <1>5, <1>8
  <2>2. head' = received /\ next' = next
    BY <1>1, <2>1 DEF ReaderLinks
  <2>3. ListInv'
    <3>1. next[received] = None
      BY <1>1 DEF ListInv
    <3>2. \A p \in Packets : p > received => next[p] = None
      <4>1. \A p \in Packets : p > received => p > High
        BY <1>1, EventsAssumption DEF Packets
      <4>2. \A p \in Packets : p > High => next[p] = None
        BY <1>1 DEF ListInv
      <4> QED
        BY <4>1, <4>2
    <3>3. \A p \in Low .. received : p = received
      BY <1>1, <2>1
    <3> QED
      BY <1>1, <1>2, <1>4, <2>1, <2>2, <3>1, <3>2, <3>3 DEF ListInv
  <2>4. LockInv'
    BY <1>1, <1>2, <1>3, <1>4, <2>2 DEF LockInv
  <2>5. head' \in Nat /\ mutex' \in {"free", "reader", "main"} /\ next' \in [Packets -> Nat]
    BY <1>1, <1>2, <1>6, <2>2 DEF TypeInv
  <2> QED
    BY <1>1, <1>2, <1>3, <2>3, <2>4, <2>5, ReaderStep
<1> QED
  BY <1>7, <1>8

LEMMA ReaderUnlocksKeeps == ASSUME TypeInv, PacketInv, ReaderUnlocks PROVE TypeInv' /\ PacketInv'
<1>1. /\ thread_socket /\ ListInv /\ LockInv /\ reader.packet = received
      /\ reader.pc = "unlock" /\ High = received
  BY ReaderHolds DEF ReaderUnlocks
<1>2. /\ mutex' = "free"
      /\ UNCHANGED <<sock_vars, thread_running, head, next, records, received, main, woken, event_vars>>
  BY DEF ReaderUnlocks
<1>3. /\ reader'.pc = "notify" /\ reader'.packet = None
      /\ reader' \in [pc : ReaderStates \ {"none"}, packet : Nat, walk : Nat]
  BY DEF ReaderUnlocks, ReaderStates, None
<1>4. Low' = Low /\ High' = High
  BY <1>1, <1>2, <1>3 DEF Low, High, event_vars
<1>5. ListInv'
  BY <1>1, <1>2, <1>4 DEF ListInv
<1>6. LockInv'
  BY <1>1, <1>2, <1>3, <1>4 DEF LockInv
<1>7. head' \in Nat /\ next' \in [Packets -> Nat] /\ mutex' \in {"free", "reader", "main"}
  BY <1>2 DEF TypeInv
<1> QED
  BY <1>1, <1>2, <1>3, <1>5, <1>6, <1>7, ReaderStep
-----------------------------------------------------------------------------
(* The main thread and the packets. *)

\* Steps of get_next_event that leave the packets alone.
LEMMA MainIdleKeeps ==
    ASSUME TypeInv, OrderInv, PacketInv,
           Pump \/ get_next_event \/ LookForEvent \/ dequeue \/ ReturnNothing
    PROVE  TypeInv' /\ PacketInv'
<1>1. /\ UNCHANGED <<sock_vars, thread_running, reader, list_vars, received, handled>>
      /\ main'.packet = main.packet
      /\ main'.pc = main.pc \/ {main.pc, main'.pc} \subseteq {"idle", "sweep", "take", "dequeue"}
  <2>1. main = [pc |-> main.pc, packet |-> main.packet, pumping |-> main.pumping, event |-> main.event]
    BY DEF TypeInv
  <2> QED
    BY <2>1 DEF Pump, get_next_event, LookForEvent, dequeue, ReturnNothing, MainGoes, event_vars
<1>2. PacketInv'
  BY <1>1, QuietPackets DEF sock_vars
<1>3. /\ main' \in [pc : MainStates, packet : Nat, pumping : BOOLEAN, event : Event]
      /\ queue' \in [head : Nat, tail : Nat] /\ EntriesOK' /\ returned' \in Seq(Nat)
  <2>1. /\ main \in [pc : MainStates, packet : Nat, pumping : BOOLEAN, event : Event]
        /\ queue \in [head : Nat, tail : Nat] /\ EntriesOK /\ returned \in Seq(Nat)
    BY DEF TypeInv
  <2>2. CASE Pump
    BY <2>1, <2>2 DEF Pump, event_vars, EntriesOK
  <2>3. CASE get_next_event
    BY <2>1, <2>3, NoEventFacts DEF get_next_event, event_vars, MainStates, EntriesOK
  <2>4. CASE LookForEvent
    <3>1. entries' = IF has_event THEN entries ELSE NoEntries
      BY <2>4 DEF LookForEvent, Cleared
    <3>2. EntriesOK'
      BY <2>1, <3>1 DEF EntriesOK, NoEntries
    <3> QED
      BY <2>1, <2>4, <3>2 DEF LookForEvent, MainGoes, MainStates
  <2>5. CASE dequeue
    <3>1. has_event /\ queue.head = Len(returned) + 1 /\ queue.head \in Waiting
      <4>1. has_event
        BY <2>5 DEF dequeue
      <4> QED
        BY <4>1, QueueFacts
    <3>2. entries[queue.head] \in Entry
      BY <3>1, QueueFacts
    <3>3. /\ entries[queue.head].event \in Event /\ entries[queue.head].event.id \in Nat
          /\ Rest \in Nat
      BY <3>2 DEF Entry, Event, Rest
    <3>4. returned' = Append(returned, entries[queue.head].event.id)
          /\ queue' = [head |-> Rest, tail |-> IF Rest = None THEN None ELSE queue.tail]
          /\ main' = [main EXCEPT !.pc = "idle", !.event = entries[queue.head].event]
          /\ entries' = entries
      BY <2>5 DEF dequeue
    <3>5. returned' \in Seq(Nat)
      BY <2>1, <3>3, <3>4
    <3>6. main' \in [pc : MainStates, packet : Nat, pumping : BOOLEAN, event : Event]
      BY <2>1, <3>3, <3>4 DEF MainStates
    <3>7. queue' \in [head : Nat, tail : Nat] /\ EntriesOK'
      BY <2>1, <3>3, <3>4 DEF EntriesOK, None
    <3> QED
      BY <3>5, <3>6, <3>7
  <2>6. CASE ReturnNothing
    BY <2>1, <2>6 DEF ReturnNothing, event_vars, MainStates, EntriesOK
  <2> QED
    BY <2>2, <2>3, <2>4, <2>5, <2>6
<1>4. woken' \in BOOLEAN /\ posts' = posts
  BY DEF Pump, get_next_event, LookForEvent, dequeue, ReturnNothing, event_vars, TypeInv
<1>5. TypeInv'
  BY <1>1, <1>3, <1>4 DEF TypeInv, sock_vars, list_vars
<1> QED
  BY <1>2, <1>5

LEMMA PostTypes ==
    ASSUME TypeInv, PacketInv, AppCall \/ SweepPosts \/ HandlerPosts,
           queue' \in [head : Nat, tail : Nat], EntriesOK',
           posts' \in [handlers : Nat, timeouts : Nat, calls : Nat]
    PROVE  TypeInv' /\ PacketInv'
<1>1. UNCHANGED <<sock_vars, thread_running, reader, list_vars, received, main, woken, handled, returned>>
  BY DEF AppCall, SweepPosts, HandlerPosts
<1>2. PacketInv'
  BY <1>1, QuietPackets DEF sock_vars
<1>3. TypeInv'
  BY <1>1 DEF TypeInv, sock_vars, list_vars
<1> QED
  BY <1>2, <1>3

LEMMA TakeFromSocketKeeps == ASSUME TypeInv, PacketInv, TakeFromSocket PROVE TypeInv' /\ PacketInv'
<1>1. /\ ~thread_socket /\ DirectInv /\ HandsInv /\ main.pc = "take" /\ main.packet = None
      /\ main \in [pc : MainStates, packet : Nat, pumping : BOOLEAN, event : Event]
  BY DEF TakeFromSocket, PacketInv, HandsInv, TypeInv
<1>2. UNCHANGED <<thread_socket, socket, binds, thread_running, reader, list_vars, woken, event_vars>>
  BY DEF TakeFromSocket
<1>3. CASE main' = [main EXCEPT !.pc = "dequeue"] /\ UNCHANGED <<kernel, received>>
  <2>1. /\ main'.packet = main.packet /\ main'.pc = "dequeue"
        /\ main' \in [pc : MainStates, packet : Nat, pumping : BOOLEAN, event : Event]
    BY <1>1, <1>3 DEF MainStates
  <2>2. PacketInv'
    BY <1>1, <1>2, <1>3, <2>1, QuietPackets DEF event_vars
  <2>3. TypeInv'
    BY <1>2, <1>3, <2>1 DEF TypeInv, EntriesOK, list_vars, event_vars
  <2> QED
    BY <2>2, <2>3
<1>4. CASE /\ kernel > 0 /\ kernel' = kernel - 1 /\ received' = received + 1
           /\ main' = [main EXCEPT !.pc = "process", !.packet = received']
  <2>1. /\ kernel \in Nat /\ received \in Nat /\ MaxPackets \in Nat /\ kernel + received <= MaxPackets
        /\ Len(handled) \in Nat /\ received = Len(handled)
    BY <1>1, EventsAssumption DEF TypeInv, HandsInv, DirectInv
  <2>2. /\ kernel' \in Nat /\ received' \in Nat \ {0} /\ received' = Len(handled) + 1
        /\ kernel' + received' <= MaxPackets
    BY <1>4, <2>1
  <2>3. /\ main'.packet = received' /\ main'.pc = "process"
        /\ main' \in [pc : MainStates, packet : Nat, pumping : BOOLEAN, event : Event]
    BY <1>1, <1>4, <2>2 DEF MainStates
  <2>4. TypeInv'
    BY <1>2, <2>2, <2>3 DEF TypeInv, EntriesOK, list_vars, event_vars
  <2>5. HandsInv'
    BY <1>1, <1>2, <2>2, <2>3 DEF HandsInv, event_vars, None
  <2>6. DirectInv'
    BY <1>1, <1>2, <2>2, <2>3 DEF DirectInv, list_vars, event_vars, None
  <2>7. (thread_running <=> reader.pc # "none")' /\ thread_socket' = thread_socket
    BY <1>2 DEF PacketInv
  <2> QED
    BY <1>1, <2>4, <2>5, <2>6, <2>7 DEF PacketInv
<1> QED
  BY <1>3, <1>4 DEF TakeFromSocket, MainGoes

LEMMA MainLocksKeeps == ASSUME TypeInv, PacketInv, MainLocks PROVE TypeInv' /\ PacketInv'
<1>1. /\ thread_socket /\ ListInv /\ LockInv /\ HandsInv /\ main.pc = "take" /\ mutex = "free"
      /\ main \in [pc : MainStates, packet : Nat, pumping : BOOLEAN, event : Event] /\ head \in Nat
  BY DEF MainLocks, PacketInv, TypeInv
<1>2. /\ mutex' = "main"
      /\ UNCHANGED <<sock_vars, thread_running, reader, head, next, records, received, woken, event_vars>>
  BY DEF MainLocks
<1>3. /\ main'.pc = "advance" /\ main'.packet = head
      /\ main' \in [pc : MainStates, packet : Nat, pumping : BOOLEAN, event : Event]
  BY <1>1 DEF MainLocks, MainStates
<1>4. Low = Len(handled) + 1 /\ Low' = Low /\ High' = High
  BY <1>1, <1>2, <1>3 DEF Low, High, event_vars
<1>5. TypeInv'
  BY <1>2, <1>3 DEF TypeInv, EntriesOK, sock_vars, event_vars
<1>6. ListInv'
  BY <1>1, <1>2, <1>4 DEF ListInv
<1>7. LockInv'
  BY <1>1, <1>2, <1>3, <1>4 DEF LockInv
<1>8. HandsInv'
  <2>1. head # None => head = Len(handled) + 1
    BY <1>1, <1>4 DEF ListInv
  <2> QED
    BY <1>1, <1>2, <1>3, <2>1 DEF HandsInv, sock_vars, event_vars
<1>9. (thread_running <=> reader.pc # "none")' /\ thread_socket' = thread_socket
  BY <1>2 DEF PacketInv, sock_vars
<1> QED
  BY <1>1, <1>5, <1>6, <1>7, <1>8, <1>9 DEF PacketInv

\* Between its lock and its unlock the main thread has the packet at the head.
LEMMA MainHolds ==
    ASSUME TypeInv, PacketInv, main.pc \in {"advance", "unlock"}
    PROVE  /\ thread_socket /\ ListInv /\ LockInv /\ HandsInv /\ mutex = "main"
           /\ main \in [pc : MainStates, packet : Nat, pumping : BOOLEAN, event : Event]
           /\ Low \in Nat \ {0} /\ High \in Nat /\ Low <= High + 1 /\ Len(handled) \in Nat
           /\ Low \in Low .. High => Low \in Packets
           /\ (thread_running <=> reader.pc # "none")
<1>1. /\ thread_socket /\ ListInv /\ LockInv /\ HandsInv /\ mutex = "main"
      /\ (thread_running <=> reader.pc # "none")
  BY DEF PacketInv, DirectInv, LockInv
<1>2. main \in [pc : MainStates, packet : Nat, pumping : BOOLEAN, event : Event]
  BY DEF TypeInv
<1>3. /\ Low \in Nat \ {0} /\ High \in Nat /\ Low <= High + 1 /\ High <= received
      /\ received \in Nat /\ received <= MaxPackets /\ MaxPackets \in Nat
      /\ Len(handled) \in Nat
  BY <1>1, ListFacts
<1>4. Low \in Low .. High => Low \in Packets
  BY <1>3 DEF Packets
<1> QED
  BY <1>1, <1>2, <1>3, <1>4

LEMMA MainAdvancesKeeps == ASSUME TypeInv, PacketInv, MainAdvances PROVE TypeInv' /\ PacketInv'
<1>1. /\ thread_socket /\ ListInv /\ LockInv /\ HandsInv /\ mutex = "main" /\ main.pc = "advance"
      /\ main \in [pc : MainStates, packet : Nat, pumping : BOOLEAN, event : Event]
      /\ Low \in Nat \ {0} /\ High \in Nat /\ Low <= High + 1 /\ Len(handled) \in Nat
      /\ Low \in Low .. High => Low \in Packets
      /\ (thread_running <=> reader.pc # "none")
  BY MainHolds DEF MainAdvances
<1>2. UNCHANGED <<sock_vars, thread_running, reader, mutex, next, records, received, woken, event_vars>>
  BY DEF MainAdvances
<1>3. /\ main'.pc = "unlock" /\ main'.packet = main.packet
      /\ main' \in [pc : MainStates, packet : Nat, pumping : BOOLEAN, event : Event]
  BY <1>1 DEF MainAdvances, MainGoes, MainStates
<1>4. Low = Len(handled) + 1 /\ High' = High /\ main.packet = head
  BY <1>1, <1>2, <1>3 DEF Low, High, LockInv
<1>5. HandsInv'
  BY <1>1, <1>2, <1>3 DEF HandsInv, sock_vars, event_vars
<1>6. head' \in Nat /\ ListInv' /\ Low' \in {Low, Low + 1}
  <2>1. CASE head = None
    <3>1. head' = None /\ Low' = Low
      BY <1>2, <1>3, <1>4, <2>1 DEF MainAdvances, Low, event_vars
    <3> QED
      BY <1>1, <1>2, <1>4, <2>1, <3>1 DEF ListInv, None
  <2>2. CASE head # None
    <3>1. Low <= High /\ head = Low /\ Low \in Packets
      BY <1>1, <2>2 DEF ListInv
    <3>2. Low' = Low + 1
      <4>1. Low' = Len(handled) + 2
        BY <1>2, <1>3, <1>4, <2>2 DEF Low, event_vars
      <4> QED
        BY <1>1, <1>4, <4>1
    <3>3. head' = next[Low]
      BY <2>2, <3>1 DEF MainAdvances
    <3>4. next[Low] = IF Low < High THEN Low + 1 ELSE None
      BY <1>1, <3>1 DEF ListInv
    <3>5. \A p \in Low + 1 .. High : p \in Low .. High
      BY <1>1
    <3>6. /\ Low + 1 <= High + 1
          /\ head' = IF Low + 1 <= High THEN Low + 1 ELSE None
          /\ head' \in Nat
      BY <1>1, <3>1, <3>3, <3>4 DEF None
    <3>7. \A p \in Low + 1 .. High : p \in records /\ next[p] = IF p < High THEN p + 1 ELSE None
      BY <1>1, <3>5 DEF ListInv
    <3>8. \A p \in Packets : p > High => next[p] = None
      BY <1>1 DEF ListInv
    <3> QED
      BY <1>2, <1>4, <3>2, <3>6, <3>7, <3>8 DEF ListInv
  <2> QED
    BY <2>1, <2>2
<1>7. LockInv'
  BY <1>1, <1>2, <1>3 DEF LockInv
<1>8. TypeInv'
  BY <1>2, <1>3, <1>6 DEF TypeInv, EntriesOK, sock_vars, event_vars
<1> QED
  BY <1>1, <1>2, <1>5, <1>6, <1>7, <1>8 DEF PacketInv, sock_vars

\* The record that is freed is neither on the list nor the reader's.
LEMMA MainUnlocksKeeps == ASSUME TypeInv, PacketInv, MainUnlocks PROVE TypeInv' /\ PacketInv'
<1>1. /\ thread_socket /\ ListInv /\ LockInv /\ HandsInv /\ mutex = "main" /\ main.pc = "unlock"
      /\ main \in [pc : MainStates, packet : Nat, pumping : BOOLEAN, event : Event]
      /\ Low \in Nat \ {0} /\ High \in Nat /\ Low <= High + 1 /\ Len(handled) \in Nat
      /\ (thread_running <=> reader.pc # "none")
  BY MainHolds DEF MainUnlocks
<1>2. /\ mutex' = "free" /\ records' = records \ {main.packet}
      /\ UNCHANGED <<sock_vars, thread_running, reader, head, next, received, woken, event_vars>>
  BY DEF MainUnlocks
<1>3. /\ main'.pc = IF main.packet # None THEN "process" ELSE "dequeue"
      /\ main'.packet = main.packet
      /\ main' \in [pc : MainStates, packet : Nat, pumping : BOOLEAN, event : Event]
  BY <1>1 DEF MainUnlocks, MainGoes, MainStates
<1>4. Low' = Low /\ High' = High
  BY <1>1, <1>2, <1>3 DEF Low, High, event_vars
<1>5. main.packet < Low
  <2>1. CASE main.packet = None
    BY <1>1, <2>1 DEF None
  <2>2. CASE main.packet # None
    BY <1>1, <2>2 DEF HandsInv, Low
  <2> QED
    BY <2>1, <2>2
<1>6. ListInv'
  <2>1. \A p \in Low .. High : p # main.packet
    BY <1>1, <1>5
  <2> QED
    BY <1>1, <1>2, <1>4, <2>1 DEF ListInv
<1>7. LockInv'
  <2>1. reader.pc = "lock" => received # main.packet
    <3>1. reader.pc = "lock" => High = received - 1 /\ received \in Nat
      BY ReaderHolds
    <3> QED
      BY <1>1, <1>5, <3>1
  <2>2. reader.pc \notin {"walk", "link", "unlock"}
    BY <1>1 DEF LockInv
  <2> QED
    BY <1>1, <1>2, <1>3, <2>1, <2>2 DEF LockInv
<1>8. HandsInv'
  BY <1>1, <1>2, <1>3 DEF HandsInv, sock_vars, event_vars
<1>9. TypeInv'
  <2>1. records' \subseteq Nat
    BY <1>2 DEF TypeInv
  <2> QED
    BY <1>2, <1>3, <2>1 DEF TypeInv, EntriesOK, sock_vars, event_vars
<1> QED
  BY <1>1, <1>2, <1>6, <1>7, <1>8, <1>9 DEF PacketInv, sock_vars

LEMMA HandlerReturnsKeeps == ASSUME TypeInv, PacketInv, HandlerReturns PROVE TypeInv' /\ PacketInv'
<1>1. /\ HandsInv /\ main.pc = "process" /\ handled \in Seq(Nat)
      /\ main \in [pc : MainStates, packet : Nat, pumping : BOOLEAN, event : Event]
      /\ (thread_running <=> reader.pc # "none")
  BY DEF HandlerReturns, PacketInv, TypeInv
<1>2. main.packet # None /\ main.packet = Len(handled) + 1 /\ Len(handled) \in Nat /\ main.packet \in Nat
  BY <1>1 DEF HandsInv
<1>3. /\ handled' = Append(handled, main.packet)
      /\ UNCHANGED <<sock_vars, thread_running, reader, list_vars, received, woken, queue, entries,
                     memory, posts, returned>>
  BY DEF HandlerReturns
<1>4. /\ main'.pc \in {"dequeue", "take"} /\ main'.packet = None
      /\ main' \in [pc : MainStates, packet : Nat, pumping : BOOLEAN, event : Event]
  BY <1>1 DEF HandlerReturns, MainStates, None
<1>5. /\ handled' \in Seq(Nat) /\ Len(handled') = Len(handled) + 1
      /\ DOMAIN handled' = 1 .. Len(handled) + 1 /\ DOMAIN handled = 1 .. Len(handled)
      /\ \A i \in 1 .. Len(handled) : handled'[i] = handled[i]
      /\ handled'[Len(handled) + 1] = main.packet
  BY <1>1, <1>2, <1>3
<1>6. HandsInv'
  <2>1. \A i \in DOMAIN handled' : handled'[i] = i
    <3>1. \A i \in 1 .. Len(handled) + 1 : i \in 1 .. Len(handled) \/ i = Len(handled) + 1
      BY <1>2
    <3>2. \A i \in 1 .. Len(handled) : handled[i] = i
      BY <1>1, <1>5 DEF HandsInv
    <3> QED
      BY <1>2, <1>5, <3>1, <3>2
  <2>2. kernel' + received' <= MaxPackets
    BY <1>1, <1>3 DEF HandsInv, sock_vars
  <2> QED
    BY <1>4, <2>1, <2>2 DEF HandsInv
<1>7. TypeInv'
  BY <1>3, <1>4, <1>5 DEF TypeInv, EntriesOK, sock_vars, list_vars
<1>8. CASE thread_socket
  <2>1. ListInv /\ LockInv
    BY <1>8 DEF PacketInv
  <2>2. Low' = Low /\ High' = High
    <3>1. Low = Len(handled) + 2 /\ Low' = Len(handled') + 1
      BY <1>1, <1>2, <1>4 DEF Low
    <3>2. High' = High
      BY <1>3 DEF High
    <3> QED
      BY <1>2, <1>5, <3>1, <3>2
  <2>3. ListInv'
    BY <1>3, <2>1, <2>2 DEF ListInv, list_vars
  <2>4. LockInv'
    BY <1>1, <1>3, <1>4, <2>1, <2>2 DEF LockInv, list_vars
  <2> QED
    BY <1>1, <1>3, <1>6, <1>7, <1>8, <2>3, <2>4 DEF PacketInv, sock_vars
<1>9. CASE ~thread_socket
  <2>1. DirectInv
    BY <1>9 DEF PacketInv
  <2>2. DirectInv'
    BY <1>2, <1>3, <1>4, <1>5, <2>1 DEF DirectInv, list_vars
  <2> QED
    BY <1>1, <1>3, <1>6, <1>7, <1>9, <2>2 DEF PacketInv, sock_vars
<1> QED
  BY <1>8, <1>9
-----------------------------------------------------------------------------
(* The main thread and the events. *)

\* Memory is freed only when no event is in it.
LEMMA LookForEventKeeps ==
    ASSUME TypeInv, MemoryInv, OrderInv, LookForEvent
    PROVE  MemoryInv' /\ OrderInv'
<1>1. main \in [pc : MainStates, packet : Nat, pumping : BOOLEAN, event : Event]
  BY DEF TypeInv
<1>2. /\ main.pc = "sweep" /\ main.event = NoEvent /\ main'.event = NoEvent
      /\ UNCHANGED <<queue, posts, returned>>
  BY <1>1 DEF LookForEvent, MainGoes, MemoryInv
<1>3. EventId' = EventId /\ Waiting' = Waiting
  BY <1>2 DEF EventId, Waiting
<1>4. /\ memory' = IF has_event THEN memory ELSE clear(memory)
      /\ entries' = IF has_event THEN entries ELSE NoEntries
  BY DEF LookForEvent, Cleared
<1>5. CASE has_event
  <2>1. memory' = memory /\ entries' = entries
    BY <1>4, <1>5
  <2>2. MemoryInv'
    BY <1>2, <1>3, <2>1 DEF MemoryInv
  <2>3. OrderInv'
    BY <1>2, <1>3, <2>1 DEF OrderInv, EventsAreFifo
  <2> QED
    BY <2>2, <2>3
<1>6. CASE ~has_event
  <2>1. memory' = clear(memory) /\ Waiting = {}
    BY <1>4, <1>6, QueueFacts
  <2>2. AllocatorInv(memory)
    BY DEF MemoryInv
  <2>3. AllocatorInv(memory')
    BY <2>1, <2>2, ClearSound
  <2>4. MemoryInv'
    BY <1>2, <1>3, <2>1, <2>3, NoEventFacts DEF MemoryInv
  <2>5. Len(returned) + 1 .. EventId - 1 = {}
    BY <2>1 DEF Waiting
  <2>6. OrderInv'
    BY <1>2, <1>3, <2>5 DEF OrderInv, EventsAreFifo
  <2> QED
    BY <2>4, <2>6
<1> QED
  BY <1>5, <1>6

\* The application's event is the one that has left the queue.
LEMMA DequeueKeeps ==
    ASSUME TypeInv, MemoryInv, OrderInv, dequeue
    PROVE  MemoryInv' /\ OrderInv'
<1> DEFINE n == EventId
           m == Len(returned)
<1>1. /\ main \in [pc : MainStates, packet : Nat, pumping : BOOLEAN, event : Event]
      /\ returned \in Seq(Nat)
  BY DEF TypeInv
<1>2. has_event /\ UNCHANGED <<entries, memory, posts>>
  BY DEF dequeue
<1>3. n \in Nat /\ m \in Nat /\ Waiting = m + 1 .. n - 1 /\ Waiting # {}
  BY <1>2, QueueFacts
<1>4. queue.head = m + 1 /\ queue.tail = n - 1
  BY <1>2, QueueFacts
<1>w. \A i \in Waiting :
        /\ i \in DOMAIN entries /\ entries[i].event.id = i
        /\ entries[i].next_event = IF i < n - 1 THEN i + 1 ELSE None
  BY QueueFacts
<1> HIDE DEF n, m
<1>5. m + 1 \in Waiting /\ m + 1 <= n - 1
  BY <1>3
<1>6. /\ main'.pc = "idle" /\ main'.event = entries[m + 1].event
      /\ returned' = Append(returned, m + 1)
  <2>1. entries[m + 1].event.id = m + 1
    BY <1>5, <1>w
  <2> QED
    BY <1>1, <1>4, <2>1 DEF dequeue
<1>7. /\ Len(returned') = m + 1 /\ DOMAIN returned' = 1 .. m + 1 /\ DOMAIN returned = 1 .. m
      /\ \A i \in 1 .. m : returned'[i] = returned[i]
      /\ returned'[m + 1] = m + 1
  BY <1>1, <1>3, <1>6 DEF m
<1>8. EventId' = n /\ Waiting' = (m + 1) + 1 .. n - 1
  <2>1. EventId' = n
    BY <1>2 DEF EventId, n
  <2> QED
    BY <2>1, <1>7 DEF Waiting
<1>9. \A i \in (m + 1) + 1 .. n - 1 : i \in Waiting /\ i # m + 1
  BY <1>3
<1>10. MemoryInv'
  <2>1. \A i \in Waiting :
          i \in DOMAIN entries /\ BlocksOf(entries[i].event) \subseteq memory.blocks
    BY DEF MemoryInv
  <2>2. \A i, j \in Waiting :
          i # j => BlocksOf(entries[i].event) \cap BlocksOf(entries[j].event) = {}
    BY DEF MemoryInv
  <2>3. AllocatorInv(memory')
    BY <1>2 DEF MemoryInv
  <2>4. BlocksOf(main'.event) \subseteq memory'.blocks
    BY <1>2, <1>5, <1>6, <2>1
  <2>5. \A i \in Waiting' : BlocksOf(main'.event) \cap BlocksOf(entries'[i].event) = {}
    BY <1>2, <1>5, <1>6, <1>8, <1>9, <2>2
  <2>6. \A i \in Waiting' :
          i \in DOMAIN entries' /\ BlocksOf(entries'[i].event) \subseteq memory'.blocks
    BY <1>2, <1>8, <1>9, <2>1
  <2>7. \A i, j \in Waiting' :
          i # j => BlocksOf(entries'[i].event) \cap BlocksOf(entries'[j].event) = {}
    BY <1>2, <1>8, <1>9, <2>2
  <2> QED
    BY <1>6, <2>3, <2>4, <2>5, <2>6, <2>7 DEF MemoryInv
<1>11. queue' = IF (m + 1) + 1 <= n - 1 THEN [head |-> (m + 1) + 1, tail |-> n - 1]
                                       ELSE [head |-> None, tail |-> None]
  <2>1. queue' = [head |-> Rest, tail |-> IF Rest = None THEN None ELSE queue.tail]
    BY DEF dequeue
  <2>2. Rest = IF m + 1 < n - 1 THEN (m + 1) + 1 ELSE None
    BY <1>4, <1>5, <1>w DEF Rest
  <2>3. CASE m + 1 < n - 1
    <3>1. Rest = (m + 1) + 1 /\ Rest # None /\ (m + 1) + 1 <= n - 1
      BY <2>2, <2>3, <1>3 DEF None
    <3> QED
      BY <2>1, <3>1, <1>4
  <2>4. CASE ~(m + 1 < n - 1)
    <3>1. Rest = None /\ ~((m + 1) + 1 <= n - 1)
      BY <2>2, <2>4, <1>3
    <3> QED
      BY <2>1, <3>1
  <2> QED
    BY <2>3, <2>4
<1>12. OrderInv'
  <2>1. \A i \in 1 .. m : returned[i] = i
    BY <1>7 DEF OrderInv, EventsAreFifo
  <2>2. \A i \in 1 .. m + 1 : i \in 1 .. m \/ i = m + 1
    BY <1>3
  <2>3. \A i \in DOMAIN returned' : returned'[i] = i
    BY <1>7, <2>1, <2>2
  <2>4. \A i \in (m + 1) + 1 .. n - 1 :
          /\ i \in DOMAIN entries' /\ entries'[i].event.id = i
          /\ entries'[i].next_event = IF i < n - 1 THEN i + 1 ELSE None
    BY <1>2, <1>9, <1>w
  <2>5. m + 1 < n
    BY <1>3, <1>5
  <2>6. EventsAreFifo'
    BY <1>7, <1>8, <1>11, <2>3, <2>4 DEF EventsAreFifo
  <2> QED
    BY <1>7, <1>8, <2>5, <2>6 DEF OrderInv
<1> QED
  BY <1>10, <1>12

LEMMA PostsKeep ==
    ASSUME TypeInv, MemoryInv, OrderInv, AppCall \/ SweepPosts \/ HandlerPosts
    PROVE  /\ MemoryInv' /\ OrderInv' /\ queue' \in [head : Nat, tail : Nat] /\ EntriesOK'
           /\ posts' \in [handlers : Nat, timeouts : Nat, calls : Nat]
<1>1. UNCHANGED <<main, returned>>
  BY DEF AppCall, SweepPosts, HandlerPosts
<1>2. DataSizes \subseteq Nat /\ KeySize \in Nat
  BY EventsAssumption
<1>3. \E data, key \in Nat : \E who \in {"handlers", "timeouts", "calls"} :
        post_event(data, key, who)
  BY <1>2 DEF AppCall, SweepPosts, HandlerPosts
<1>4. PICK data \in Nat, key \in Nat, who \in {"handlers", "timeouts", "calls"} :
        post_event(data, key, who)
  BY <1>3
<1> QED
  BY <1>1, <1>4, PostKeeps
-----------------------------------------------------------------------------
(* The invariant and what it is for. *)

LEMMA EventsStep == ASSUME EventsInv, [Next]_vars PROVE EventsInv'
<1> USE DEF EventsInv
<1>1. CASE bind
  BY <1>1, BindKeeps, QuietEvents DEF bind, event_vars
<1>2. CASE Arrive \/ Destroy
  BY <1>2, KernelKeeps, QuietEvents DEF Arrive, Destroy, event_vars
<1>3. CASE Reader
  <2>1. TypeInv' /\ PacketInv'
    BY <1>3, ReadPacketKeeps, ReaderIdleKeeps, ReaderLocksKeeps, ReaderWalksKeeps, ReaderLinksKeeps,
       ReaderUnlocksKeeps DEF Reader
  <2>2. UNCHANGED <<main, event_vars>>
    BY <1>3 DEF Reader, ReadPacket, ReadNothing, ReadInvalid, ThreadEnds, ReaderLocks, ReaderWalks,
                ReaderLinks, ReaderUnlocks, Notify
  <2> QED
    BY <2>1, <2>2, QuietEvents DEF event_vars
<1>4. CASE AppCall \/ SweepPosts \/ HandlerPosts
  BY <1>4, PostsKeep, PostTypes
<1>5. CASE Pump \/ ReturnNothing
  <2>1. UNCHANGED event_vars /\ main'.event = main.event /\ (main.pc = "idle" => main'.pc = "idle")
    BY <1>5 DEF Pump, ReturnNothing, TypeInv
  <2> QED
    BY <1>5, <2>1, MainIdleKeeps, QuietEvents DEF event_vars
<1>6. CASE get_next_event
  <2>1. UNCHANGED event_vars /\ main'.event = NoEvent
    BY <1>6 DEF get_next_event, TypeInv
  <2>2. MemoryInv'
    BY <2>1, NoEventFacts DEF MemoryInv, Waiting, EventId, event_vars
  <2>3. OrderInv'
    BY <2>1 DEF OrderInv, EventsAreFifo, EventId, event_vars
  <2> QED
    BY <1>6, <2>2, <2>3, MainIdleKeeps
<1>7. CASE LookForEvent
  BY <1>7, LookForEventKeeps, MainIdleKeeps
<1>8. CASE dequeue
  BY <1>8, DequeueKeeps, MainIdleKeeps
<1>9. CASE TakeFromSocket \/ MainLocks \/ MainAdvances \/ MainUnlocks \/ HandlerReturns
  <2>1. TypeInv' /\ PacketInv'
    BY <1>9, TakeFromSocketKeeps, MainLocksKeeps, MainAdvancesKeeps, MainUnlocksKeeps, HandlerReturnsKeeps
  <2>2. UNCHANGED <<queue, entries, memory, posts, returned>> /\ main'.event = main.event /\ main.pc # "idle"
    BY <1>9 DEF TakeFromSocket, MainLocks, MainAdvances, MainUnlocks, HandlerReturns, MainGoes, event_vars,
                TypeInv
  <2> QED
    BY <2>1, <2>2, QuietEvents
<1>10. CASE UNCHANGED vars
  <2>1. TypeInv'
    BY <1>10 DEF TypeInv, EntriesOK, vars
  <2> QED
    BY <1>10, <2>1, QuietEvents, QuietPackets DEF vars, list_vars
<1> QED
  BY <1>1, <1>2, <1>3, <1>4, <1>5, <1>6, <1>7, <1>8, <1>9, <1>10 DEF Next, InCall

\* The invariant holds of every reachable state.
THEOREM EventsInvariant == Spec => []EventsInv
<1>1. Init => EventsInv
  BY EventsInit
<1>2. EventsInv /\ [Next]_vars => EventsInv'
  BY EventsStep
<1> QED
  BY <1>1, <1>2, PTL DEF Spec

\* The list between thread_socket_process and _get_next_packet is a queue: no packet is
\* lost, doubled, overtaken or freed while it is on the list.
THEOREM ListIsQueue == Spec => []ListIsFifo
<1>1. EventsInv => ListIsFifo
  <2> SUFFICES ASSUME EventsInv PROVE ListIsFifo
    OBVIOUS
  <2>1. TypeInv /\ PacketInv /\ HandsInv
    BY DEF EventsInv, PacketInv
  <2>2. ASSUME thread_socket, mutex = "free"
        PROVE  /\ head = IF First <= Last THEN First ELSE None
               /\ \A p \in First .. Last :
                    p \in records /\ next[p] = IF p < Last THEN p + 1 ELSE None
    <3>1. ListInv /\ LockInv
      BY <2>1, <2>2 DEF PacketInv
    <3>2. reader.pc # "unlock" /\ main.pc \notin {"advance", "unlock"}
      BY <2>2, <3>1 DEF LockInv
    <3>3. First = Low
      <4>1. main.packet # None <=> main.pc \in {"unlock", "process"} /\ main.packet # None
        BY <2>1, <3>2 DEF HandsInv
      <4>2. Len(handled) \in Nat
        BY <2>1 DEF TypeInv
      <4> QED
        BY <4>1, <4>2 DEF First, Low
    <3>4. Last = High
      BY <3>2 DEF Last, High
    <3> QED
      BY <3>1, <3>3, <3>4 DEF ListInv
  <2> QED
    BY <2>1, <2>2 DEF ListIsFifo, HandsInv
<1> QED
  BY <1>1, EventsInvariant, PTL

\* Whatever the sizes of the events and of the pages, an event in the queue has its
\* memory to itself until it is taken out.
THEOREM EventsInMemory == Spec => []QueueInMemory
<1>1. EventsInv => QueueInMemory
  <2> SUFFICES ASSUME EventsInv PROVE QueueInMemory
    OBVIOUS
  <2>1. AllocatorSound(memory)
    BY InvIsSound DEF EventsInv, MemoryInv
  <2> QED
    BY <2>1 DEF EventsInv, MemoryInv, QueueInMemory
<1> QED
  BY <1>1, EventsInvariant, PTL

\* The event that get_next_event returned is left alone until the next call.
THEOREM ReturnedEventIsSafe == Spec => []ReturnedEventLives
<1>1. EventsInv => ReturnedEventLives
  BY DEF EventsInv, MemoryInv, ReturnedEventLives
<1> QED
  BY <1>1, EventsInvariant, PTL

\* The queue of events is a list from head to tail of what was posted and not yet
\* returned, whatever posts, returns and clears came before: no event is lost, repeated
\* or overtaken.
THEOREM EventsInOrder == Spec => []EventsAreFifo
<1>1. EventsInv => EventsAreFifo
  BY DEF EventsInv, OrderInv
<1> QED
  BY <1>1, EventsInvariant, PTL
=============================================================================
