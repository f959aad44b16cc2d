--------------------------- MODULE PageAllocator ---------------------------
(***************************************************************************)
(* core/page_allocator.h over core/zone_allocator.h: memory is handed out  *)
(* from the current page, never given back one block at a time, and freed  *)
(* all at once by clear.  The state of an allocator is a record and the    *)
(* operations are operators on it.                                         *)
(*                                                                         *)
(* A run of pages from the zone is named by the number of the request it   *)
(* answered, so that a block of freed memory is never equal to a new one.  *)
(* The zone has no quota here, as torque_socket constructs it, and a       *)
(* request to the operating system succeeds.  The linked list of the pages *)
(* behind the current one is the set `pages`; clear frees the whole list.  *)
(***************************************************************************)
EXTENDS Integers

CONSTANTS
    page_size,           \* zone_allocator::page_size
    page_header_size,    \* the page struct in front of every run of pages
    alignment            \* the template argument

ASSUME AllocatorAssumption ==
    /\ page_size \in Nat \ {0} /\ alignment \in Nat \ {0} /\ page_header_size \in Nat
    /\ page_header_size <= page_size

NoPage == 0
NoBlock == [page |-> NoPage, start |-> 0, end |-> 0]

\* `blocks` is a history: what was handed out since the last clear.
NewAllocator ==
    [current |-> NoPage, pages |-> {}, offset |-> page_size, size |-> page_size,
     requests |-> 0, blocks |-> {}]

aligned(size) == ((size + alignment - 1) \div alignment) * alignment

new_page_count(size) ==
    ((IF size + page_header_size > page_size THEN size + page_header_size ELSE page_size)
        + page_size - 1) \div page_size

Fits(pa, size) == pa.offset + aligned(size) <= pa.size

\* What allocate returns; nothing for a size of zero.
block(pa, size) ==
    IF size = 0 THEN NoBlock
    ELSE IF Fits(pa, size)
    THEN [page |-> pa.current, start |-> pa.offset, end |-> pa.offset + aligned(size)]
    ELSE [page |-> pa.requests + 1, start |-> page_header_size,
          end |-> page_header_size + aligned(size)]

InCurrentPage(pa, size) == [pa EXCEPT !.offset = @ + aligned(size)]

InNewPage(pa, size) ==
    LET new == pa.requests + 1
        new_size == new_page_count(aligned(size)) * page_size
        new_offset == page_header_size + aligned(size)
        p == [pa EXCEPT !.requests = new, !.pages = @ \cup {[page |-> new, size |-> new_size]}]
    IN  IF new_size - new_offset >= pa.size - pa.offset
        THEN [p EXCEPT !.current = new, !.size = new_size, !.offset = new_offset]
        ELSE p

allocate(pa, size) ==
    IF size = 0 THEN pa
    ELSE [(IF Fits(pa, size) THEN InCurrentPage(pa, size) ELSE InNewPage(pa, size))
            EXCEPT !.blocks = @ \cup {block(pa, size)}]

clear(pa) == [NewAllocator EXCEPT !.requests = pa.requests]
-----------------------------------------------------------------------------
Overlap(b, c) == b.page = c.page /\ b.start < c.end /\ c.start < b.end

\* Whatever is allocated lies in a run of pages that is still the allocator's, behind
\* the header, and shares no byte with anything else handed out since the last clear.
AllocatorSound(pa) ==
    /\ \A b \in pa.blocks : \E p \in pa.pages :
        p.page = b.page /\ page_header_size <= b.start /\ b.end <= p.size
    /\ \A b, c \in pa.blocks : Overlap(b, c) => b = c
=============================================================================
