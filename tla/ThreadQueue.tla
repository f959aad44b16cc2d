---------------------------- MODULE ThreadQueue ----------------------------
(***************************************************************************)
(* core/thread_queue.h with the puzzle_solver of client_puzzle.h on top of *)
(* it: the main thread posts, cancels and collects requests under _lock;   *)
(* worker threads wait on the semaphore, take the first unprocessed        *)
(* request under _lock, and work on it and mark it complete without it.    *)
(*                                                                         *)
(* A request is named by its request_index.  Its process_record lives from *)
(* post_request until it is deleted; a worker reaches it by the pointer it *)
(* took, whether or not it is still in the list.                           *)
(***************************************************************************)
EXTENDS Integers, Sequences, FiniteSets

CONSTANTS
    Workers,             \* the threads the constructor starts
    MaxRequests,         \* bound: how many requests are posted
    SemaphoreMax,        \* maximum_count of the semaphore (1024 in thread.h)
    Unsolvable           \* requests whose puzzle the solver never solves

\* The null process_record pointer: no request_index.
None == -1
Requests == 0 .. MaxRequests - 1

ASSUME BoundsAssumption ==
    /\ MaxRequests \in Nat
    /\ SemaphoreMax \in Nat
    /\ Unsolvable \subseteq Nat
    /\ IsFiniteSet(Workers)

VARIABLES
    current_index,       \* the next request_index
    process_list,        \* the live process_records, as request indices
    state,               \* of each record: see RecordStates
    cancelled,           \* the cancelled flag of each record
    response,            \* TRUE when the record's response_buffer is set
    semaphore,           \* the semaphore's count
    scan,                \* i + 1 of get_next_result while it holds _lock, else 0
    pc,                  \* where each worker is in dispatch_next_call
    the_record,          \* the record each worker took
    results,             \* history: what get_next_result returned
    withdrawn            \* history: what cancel_request confirmed

vars == <<current_index, process_list, state, cancelled, response, semaphore,
          scan, pc, the_record, results, withdrawn>>
records == <<state, cancelled, response>>
workers == <<pc, the_record>>
history == <<results, withdrawn>>

RecordStates == {"unposted", "not_yet_processed", "in_process",
                 "process_complete", "deleted"}
WorkerStates == {"waiting", "awake", "processing", "responding", "completing"}

Posted == 0 .. current_index - 1
Live == {"not_yet_processed", "in_process", "process_complete"}

\* _lock: only get_next_result holds it across steps of other threads, because
\* it reads states that workers write without it.  Every other critical section
\* reads at most one such state and is a single step.
Unlocked == scan = 0

Init ==
    /\ current_index = 0
    /\ process_list = <<>>
    /\ state = [r \in Requests |-> "unposted"]
    /\ cancelled = [r \in Requests |-> FALSE]
    /\ response = [r \in Requests |-> FALSE]
    /\ semaphore = 0
    /\ scan = 0
    /\ pc = [w \in Workers |-> "waiting"]
    /\ the_record = [w \in Workers |-> None]
    /\ results = <<>>
    /\ withdrawn = {}
-----------------------------------------------------------------------------
(* The main thread. *)

\* array::erase: the elements after position i move down by one.
erase(s, i) == [k \in 1 .. Len(s) - 1 |-> IF k < i THEN s[k] ELSE s[k + 1]]

\* Mutant: a binary semaphore, as if maximum_count were 1.
incrementToOne(count) == 1

\* semaphore::increment; a semaphore at maximum_count stays there.
increment(count) == IF count < SemaphoreMax THEN count + 1 ELSE count

post_request ==
    /\ Unlocked
    /\ current_index < MaxRequests
    /\ current_index' = current_index + 1
    /\ process_list' = Append(process_list, current_index)
    /\ state' = [state EXCEPT ![current_index] = "not_yet_processed"]
    /\ semaphore' = increment(semaphore)
    /\ UNCHANGED <<cancelled, response, scan, workers, history>>

\* Mutant: a record is deleted whatever a worker is doing with it.
cancelAnyRecord(i) ==
    LET r == process_list[i] IN
    /\ Unlocked
    /\ state' = [state EXCEPT ![r] = "deleted"]
    /\ process_list' = erase(process_list, i)
    /\ withdrawn' = withdrawn \cup {r}
    /\ UNCHANGED <<current_index, cancelled, response, semaphore, scan, workers, results>>

\* cancel_request on the record at position i of the list: one a worker is at
\* is flagged, any other is deleted.
cancel_request(i) ==
    LET r == process_list[i] IN
    /\ Unlocked
    /\ \/ /\ state[r] \in {"not_yet_processed", "process_complete"}
          /\ state' = [state EXCEPT ![r] = "deleted"]
          /\ process_list' = erase(process_list, i)
          /\ UNCHANGED cancelled
       \/ /\ state[r] = "in_process"
          /\ cancelled' = [cancelled EXCEPT ![r] = TRUE]
          /\ UNCHANGED <<state, process_list>>
    /\ withdrawn' = withdrawn \cup {r}
    /\ UNCHANGED <<current_index, response, semaphore, scan, workers, results>>

\* get_next_result, entered: lock and start at the first record.
StartScan ==
    /\ Unlocked
    /\ scan' = 1
    /\ UNCHANGED <<current_index, process_list, records, semaphore, workers, history>>

\* One turn of its loop that does not return.
ScanRecord ==
    /\ scan \in 1 .. Len(process_list)
    /\ LET r == process_list[scan] IN
       \/ /\ state[r] # "process_complete"
          /\ scan' = scan + 1
          /\ UNCHANGED <<process_list, state>>
       \/ /\ state[r] = "process_complete" /\ cancelled[r]
          /\ state' = [state EXCEPT ![r] = "deleted"]
          /\ process_list' = erase(process_list, scan)
          /\ UNCHANGED scan
    /\ UNCHANGED <<current_index, cancelled, response, semaphore, workers, history>>

\* Mutant: the cancelled flag is not looked at.
ReturnCancelledToo ==
    /\ scan \in 1 .. Len(process_list)
    /\ LET r == process_list[scan] IN
       /\ state[r] = "process_complete"
       /\ results' = Append(results, [request |-> r, solved |-> response[r]])
       /\ state' = [state EXCEPT ![r] = "deleted"]
       /\ process_list' = erase(process_list, scan)
    /\ scan' = 0
    /\ UNCHANGED <<current_index, cancelled, response, semaphore, workers, withdrawn>>

\* The turn that finds a result, and the exit that finds none.
ReturnResult ==
    /\ scan \in 1 .. Len(process_list)
    /\ LET r == process_list[scan] IN
       /\ state[r] = "process_complete" /\ ~cancelled[r]
       /\ results' = Append(results, [request |-> r, solved |-> response[r]])
       /\ state' = [state EXCEPT ![r] = "deleted"]
       /\ process_list' = erase(process_list, scan)
    /\ scan' = 0
    /\ UNCHANGED <<current_index, cancelled, response, semaphore, workers, withdrawn>>

ReturnNothing ==
    /\ scan > Len(process_list)
    /\ scan' = 0
    /\ UNCHANGED <<current_index, process_list, records, semaphore, workers, history>>

get_next_result == StartScan \/ ScanRecord \/ ReturnResult \/ ReturnNothing
-----------------------------------------------------------------------------
(* A worker thread, in dispatch_next_call. *)

WaitSemaphore(w) ==
    /\ pc[w] = "waiting" /\ semaphore > 0
    /\ semaphore' = semaphore - 1
    /\ pc' = [pc EXCEPT ![w] = "awake"]
    /\ UNCHANGED <<current_index, process_list, records, scan, the_record, history>>

\* Position i holds the first record nobody has processed.
FirstUnprocessed(i) ==
    /\ state[process_list[i]] = "not_yet_processed"
    /\ \A k \in 1 .. i - 1 : state[process_list[k]] # "not_yet_processed"

TakeRequest(w) ==
    /\ pc[w] = "awake" /\ Unlocked
    /\ \E i \in 1 .. Len(process_list) :
        /\ FirstUnprocessed(i)
        /\ the_record' = [the_record EXCEPT ![w] = process_list[i]]
        /\ state' = [state EXCEPT ![process_list[i]] = "in_process"]
    /\ pc' = [pc EXCEPT ![w] = "processing"]
    /\ UNCHANGED <<current_index, process_list, cancelled, response, semaphore,
                   scan, history>>

NothingToTake(w) ==
    /\ pc[w] = "awake" /\ Unlocked
    /\ \A i \in 1 .. Len(process_list) : state[process_list[i]] # "not_yet_processed"
    /\ pc' = [pc EXCEPT ![w] = "waiting"]
    /\ UNCHANGED <<current_index, process_list, records, semaphore, scan,
                   the_record, history>>

\* puzzle_solver::process_request leaves its loop: cancelled, or solved.
LeaveLoop(w) ==
    /\ pc[w] = "processing"
    /\ cancelled[the_record[w]] \/ the_record[w] \notin Unsolvable
    /\ pc' = [pc EXCEPT ![w] = "responding"]
    /\ UNCHANGED <<current_index, process_list, records, semaphore, scan,
                   the_record, history>>

\* It reads *cancelled again, and sets the response only if it is clear.
WriteResponse(w) ==
    /\ pc[w] = "responding"
    /\ response' = [response EXCEPT ![the_record[w]] = ~cancelled[the_record[w]]]
    /\ pc' = [pc EXCEPT ![w] = "completing"]
    /\ UNCHANGED <<current_index, process_list, state, cancelled, semaphore, scan,
                   the_record, history>>

\* Mutant: the worker goes back to wait without marking its record.
CompleteUnmarked(w) ==
    /\ pc[w] = "completing"
    /\ the_record' = [the_record EXCEPT ![w] = None]
    /\ pc' = [pc EXCEPT ![w] = "waiting"]
    /\ UNCHANGED <<current_index, process_list, records, semaphore, scan, history>>

\* The last line of dispatch_next_call, outside the lock.
Complete(w) ==
    /\ pc[w] = "completing"
    /\ state' = [state EXCEPT ![the_record[w]] = "process_complete"]
    /\ the_record' = [the_record EXCEPT ![w] = None]
    /\ pc' = [pc EXCEPT ![w] = "waiting"]
    /\ UNCHANGED <<current_index, process_list, cancelled, response, semaphore,
                   scan, history>>

dispatch_next_call(w) ==
    \/ WaitSemaphore(w) \/ TakeRequest(w) \/ NothingToTake(w)
    \/ LeaveLoop(w) \/ WriteResponse(w) \/ Complete(w)

Next ==
    \/ post_request
    \/ \E i \in 1 .. Len(process_list) : cancel_request(i)
    \/ get_next_result
    \/ \E w \in Workers : dispatch_next_call(w)

Spec == Init /\ [][Next]_vars

\* process_connections polls get_next_result on every frame; the system runs
\* every thread; a thread that asks for the mutex again and again gets it.
Fairness ==
    /\ WF_vars(get_next_result)
    /\ \A w \in Workers :
        /\ WF_vars(dispatch_next_call(w))
        /\ SF_vars(TakeRequest(w) \/ NothingToTake(w))

FairSpec == Spec /\ Fairness
-----------------------------------------------------------------------------
(* Properties. *)

\* Type correctness: records, workers and results keep to their states.
TypeOK ==
    /\ current_index \in 0 .. MaxRequests
    /\ process_list \in Seq(Requests)
    /\ state \in [Requests -> RecordStates]
    /\ cancelled \in [Requests -> BOOLEAN]
    /\ response \in [Requests -> BOOLEAN]
    /\ semaphore \in Nat
    /\ scan \in Nat
    /\ pc \in [Workers -> WorkerStates]
    /\ the_record \in [Workers -> Requests \cup {None}]
    /\ results \in Seq([request : Requests, solved : BOOLEAN])
    /\ withdrawn \in SUBSET Requests

Busy(w) == pc[w] \in {"processing", "responding", "completing"}

\* A worker keeps using the record it took after it has released _lock, while
\* cancel_request and get_next_result delete records: the record a worker is at
\* is never deleted under it, and no two workers are at the same one.
NoUseAfterDelete ==
    /\ \A w \in Workers : Busy(w) => state[the_record[w]] = "in_process"
    /\ \A v, w \in Workers : Busy(v) /\ Busy(w) /\ v # w => the_record[v] # the_record[w]

\* One increment per request wakes the workers, and cancel_request deletes
\* requests without taking theirs back: the wakeups still to come are never
\* fewer than the requests still to be taken.
NoLostWakeup ==
    Cardinality({r \in Requests : state[r] = "not_yet_processed"})
        <= semaphore + Cardinality({w \in Workers : pc[w] = "awake"})

\* Seen from the main thread the queue is WorkRequests: each request is answered
\* at most once, with a solution, and never after its cancellation was confirmed.
Abstract == INSTANCE WorkRequests WITH
    outstanding <- {r \in Posted : state[r] \in Live /\ ~cancelled[r]},
    answered <- results
AnsweredOnceOrWithdrawn == Abstract!Spec

\* A posted request whose puzzle can be solved is answered unless it is cancelled,
\* as long as the puzzles without a solution leave a worker free: no schedule of
\* posts, cancellations and wakeups leaves it behind.
EveryRequestAnswered ==
    Cardinality(Unsolvable) < Cardinality(Workers) =>
        \A r \in Requests \ Unsolvable :
            r \in Posted ~> \/ \E i \in 1 .. Len(results) : results[i].request = r
                            \/ r \in withdrawn
=============================================================================
