-------------------------- MODULE ThreadQueueProofs --------------------------
(***************************************************************************)
(* For any number of workers and requests: a worker's record is never      *)
(* deleted under it, and ThreadQueue implements WorkRequests.              *)
(***************************************************************************)
EXTENDS ThreadQueue, FiniteSetTheorems, SequenceTheorems, TLAPS

\* Indices that were not handed out yet have no record, flag or history.
PostedInv ==
    /\ \A i \in 1 .. Len(process_list) : process_list[i] < current_index
    /\ \A r \in Requests : r >= current_index => state[r] = "unposted" /\ ~cancelled[r]
    /\ \A r \in withdrawn : r < current_index
    /\ \A i \in 1 .. Len(results) : results[i].request < current_index

\* What a worker is about to publish, and what is published, is a solution
\* unless the request was cancelled; a cancelled request is withdrawn.
ResponseInv ==
    /\ \A w \in Workers : Busy(w) => the_record[w] \in Requests
    /\ \A w \in Workers :
        pc[w] = "completing" => cancelled[the_record[w]] \/ response[the_record[w]]
    /\ \A r \in Requests : state[r] = "process_complete" => cancelled[r] \/ response[r]
    /\ \A r \in Requests : cancelled[r] => r \in withdrawn

QueueInv == TypeOK /\ PostedInv /\ NoUseAfterDelete /\ ResponseInv

LEMMA EraseType ==
    ASSUME NEW S, NEW s \in Seq(S), NEW i \in 1 .. Len(s)
    PROVE  /\ erase(s, i) \in Seq(S)
           /\ Len(erase(s, i)) = Len(s) - 1
           /\ \A k \in 1 .. Len(s) - 1 : \E j \in 1 .. Len(s) : erase(s, i)[k] = s[j]
<1>1. Len(s) \in Nat /\ Len(s) - 1 \in Nat
  OBVIOUS
<1>2. \A k \in 1 .. Len(s) - 1 :
        /\ k \in 1 .. Len(s) /\ k + 1 \in 1 .. Len(s)
        /\ erase(s, i)[k] = IF k < i THEN s[k] ELSE s[k + 1]
  BY <1>1 DEF erase
<1>3. erase(s, i) \in [1 .. Len(s) - 1 -> S]
  BY <1>1, <1>2 DEF erase
<1>4. erase(s, i) \in Seq(S) /\ Len(erase(s, i)) = Len(s) - 1
  BY <1>1, <1>3
<1> QED
  BY <1>2, <1>4

LEMMA EraseList ==
    ASSUME process_list \in Seq(Requests), NEW i \in 1 .. Len(process_list),
           process_list' = erase(process_list, i)
    PROVE  /\ process_list' \in Seq(Requests)
           /\ \A k \in 1 .. Len(process_list') :
                \E j \in 1 .. Len(process_list) : process_list'[k] = process_list[j]
<1>1. \A s \in Seq(Requests) : \A n \in 1 .. Len(s) :
        /\ erase(s, n) \in Seq(Requests)
        /\ Len(erase(s, n)) = Len(s) - 1
        /\ \A k \in 1 .. Len(s) - 1 : \E j \in 1 .. Len(s) : erase(s, n)[k] = s[j]
  BY EraseType
<1>2. /\ erase(process_list, i) \in Seq(Requests)
      /\ Len(erase(process_list, i)) = Len(process_list) - 1
      /\ \A k \in 1 .. Len(process_list) - 1 :
            \E j \in 1 .. Len(process_list) : erase(process_list, i)[k] = process_list[j]
  BY <1>1
<1> QED
  BY <1>2

LEMMA InitInv == Init => QueueInv
BY BoundsAssumption
DEF Init, QueueInv, TypeOK, PostedInv, NoUseAfterDelete, ResponseInv, Busy,
    RecordStates, WorkerStates, Requests, None

LEMMA StepInv == QueueInv /\ [Next]_vars => QueueInv'
<1> SUFFICES ASSUME QueueInv, [Next]_vars PROVE QueueInv'
  OBVIOUS
<1> USE DEF QueueInv
<1>b. MaxRequests \in Nat
  BY BoundsAssumption
<1>n. None \notin Requests
  BY <1>b DEF None, Requests
<1>1. CASE UNCHANGED vars
  BY <1>1 DEF vars, TypeOK, PostedInv, NoUseAfterDelete, ResponseInv, Busy
<1>2. CASE post_request
  <2>1. current_index \in Requests /\ current_index + 1 \in 0 .. MaxRequests
    BY <1>2, <1>b DEF post_request, TypeOK, Requests
  <2>2. process_list' \in Seq(Requests) /\ Len(process_list') = Len(process_list) + 1
    BY <1>2, <2>1 DEF post_request, TypeOK
  <2>3. semaphore' \in Nat
    BY <1>2 DEF post_request, increment, TypeOK
  <2>4. TypeOK'
    BY <1>2, <2>1, <2>2, <2>3
    DEF post_request, TypeOK, RecordStates, workers, history
  <2>5. state[current_index] = "unposted" /\ ~cancelled[current_index]
    BY <2>1 DEF PostedInv, TypeOK, Requests
  <2>6. PostedInv'
    <3>1. \A i \in 1 .. Len(process_list') :
            process_list'[i] = current_index \/ (i \in 1 .. Len(process_list)
                                                 /\ process_list'[i] = process_list[i])
      <4>1. process_list' = Append(process_list, current_index) /\ process_list \in Seq(Requests)
        BY <1>2 DEF post_request, TypeOK
      <4> QED
        BY <4>1, <2>1, <2>2
    <3>2. \A i \in 1 .. Len(process_list') : process_list'[i] < current_index'
      <4>1. \A i \in 1 .. Len(process_list) : process_list[i] \in Requests
        BY DEF TypeOK
      <4>2. \A q \in Requests : q < current_index => q < current_index + 1
        BY <2>1 DEF Requests
      <4>3. current_index < current_index + 1 /\ current_index' = current_index + 1
        BY <1>2, <2>1 DEF post_request, Requests
      <4> QED
        BY <3>1, <4>1, <4>2, <4>3 DEF PostedInv
    <3>3. \A r \in Requests : r >= current_index' => state'[r] = "unposted" /\ ~cancelled'[r]
      BY <1>2, <2>1 DEF post_request, PostedInv, TypeOK, Requests
    <3>4. \A r \in withdrawn' : r < current_index'
      BY <1>2, <2>1 DEF post_request, PostedInv, TypeOK, Requests, history
    <3>5. \A i \in 1 .. Len(results') : results'[i].request < current_index'
      <4>1. results' = results /\ current_index' = current_index + 1
        BY <1>2 DEF post_request, history
      <4>2. \A i \in 1 .. Len(results) : results[i].request \in Requests
        <5>1. results \in Seq([request : Requests, solved : BOOLEAN])
          BY DEF TypeOK
        <5>2. \A i \in 1 .. Len(results) : results[i] \in [request : Requests, solved : BOOLEAN]
          BY <5>1, ElementOfSeq
        <5> QED
          BY <5>2
      <4>3. \A q \in Requests : q < current_index => q < current_index + 1
        BY <2>1 DEF Requests
      <4>4. \A i \in 1 .. Len(results) : results[i].request < current_index + 1
        BY <4>2, <4>3 DEF PostedInv
      <4> QED
        BY <4>1, <4>4
    <3> QED
      BY <3>2, <3>3, <3>4, <3>5 DEF PostedInv
  <2>7. NoUseAfterDelete'
    BY <1>2, <2>5, <2>1 DEF post_request, NoUseAfterDelete, Busy, workers, TypeOK
  <2>8. ResponseInv'
    BY <1>2, <2>5, <2>1 DEF post_request, ResponseInv, Busy, workers, TypeOK, history
  <2> QED
    BY <2>4, <2>6, <2>7, <2>8
<1>3. ASSUME NEW i \in 1 .. Len(process_list), cancel_request(i) PROVE QueueInv'
  <2> DEFINE r == process_list[i]
  <2>1. r \in Requests /\ r < current_index
    BY DEF TypeOK, PostedInv
  <2>2. withdrawn' = withdrawn \cup {r}
    BY <1>3 DEF cancel_request
  <2>3. UNCHANGED <<current_index, response, semaphore, scan, pc, the_record, results>>
    BY <1>3 DEF cancel_request, workers
  <2>4. CASE /\ state[r] \in {"not_yet_processed", "process_complete"}
             /\ state' = [state EXCEPT ![r] = "deleted"]
             /\ process_list' = erase(process_list, i)
             /\ UNCHANGED cancelled
    <3> HIDE DEF r
    <3>1. /\ process_list' \in Seq(Requests)
          /\ \A k \in 1 .. Len(process_list') :
               \E j \in 1 .. Len(process_list) : process_list'[k] = process_list[j]
      BY <2>4, EraseList DEF TypeOK
    <3>2. TypeOK'
      BY <2>1, <2>2, <2>3, <2>4, <3>1 DEF TypeOK, RecordStates
    <3>3. PostedInv'
      <4>1. \A k \in 1 .. Len(process_list') : process_list'[k] < current_index'
        BY <2>3, <3>1 DEF PostedInv
      <4>2. \A q \in Requests : q >= current_index => q # r
        BY <2>1 DEF TypeOK, Requests
      <4>3. \A q \in Requests : q >= current_index' => state'[q] = "unposted" /\ ~cancelled'[q]
        BY <2>3, <2>4, <4>2 DEF PostedInv, TypeOK
      <4> QED
        BY <2>1, <2>2, <2>3, <4>1, <4>3 DEF PostedInv
    <3>4. NoUseAfterDelete'
      BY <2>1, <2>3, <2>4 DEF TypeOK, NoUseAfterDelete, ResponseInv, Busy
    <3>5. ResponseInv'
      BY <2>1, <2>2, <2>3, <2>4 DEF TypeOK, ResponseInv, Busy
    <3> QED
      BY <3>2, <3>3, <3>4, <3>5
  <2>5. CASE /\ state[r] = "in_process"
             /\ cancelled' = [cancelled EXCEPT ![r] = TRUE]
             /\ UNCHANGED <<state, process_list>>
    <3> HIDE DEF r
    <3>2. TypeOK'
      BY <2>1, <2>2, <2>3, <2>5 DEF TypeOK
    <3>3. PostedInv'
      BY <2>1, <2>2, <2>3, <2>5 DEF TypeOK, PostedInv, Requests
    <3>4. NoUseAfterDelete'
      BY <2>3, <2>5 DEF NoUseAfterDelete, Busy
    <3>5. ResponseInv'
      BY <2>1, <2>2, <2>3, <2>5 DEF TypeOK, ResponseInv, Busy
    <3> QED
      BY <3>2, <3>3, <3>4, <3>5
  <2> QED
    BY <1>3, <2>4, <2>5 DEF cancel_request
<1>4. CASE StartScan \/ ReturnNothing
  <2>1. UNCHANGED <<current_index, process_list, state, cancelled, response, semaphore,
                    pc, the_record, results, withdrawn>>
    BY <1>4 DEF StartScan, ReturnNothing, records, workers, history
  <2>2. scan' \in Nat
    BY <1>4 DEF StartScan, ReturnNothing
  <2> QED
    BY <2>1, <2>2 DEF TypeOK, PostedInv, NoUseAfterDelete, ResponseInv, Busy
<1>5. CASE ScanRecord
  <2> DEFINE r == process_list[scan]
  <2>1. r \in Requests /\ r < current_index /\ scan \in 1 .. Len(process_list)
    BY <1>5 DEF TypeOK, PostedInv, ScanRecord
  <2>2. UNCHANGED <<current_index, cancelled, response, semaphore, pc, the_record,
                    results, withdrawn>>
    BY <1>5 DEF ScanRecord, workers, history
  <2>3. CASE scan' = scan + 1 /\ UNCHANGED <<process_list, state>>
    <3>1. scan' \in Nat
      BY <2>3 DEF TypeOK
    <3> QED
      BY <2>2, <2>3, <3>1 DEF TypeOK, PostedInv, NoUseAfterDelete, ResponseInv, Busy
  <2>4. CASE /\ state[r] = "process_complete"
             /\ state' = [state EXCEPT ![r] = "deleted"]
             /\ process_list' = erase(process_list, scan)
             /\ UNCHANGED scan
    <3> HIDE DEF r
    <3>1. /\ process_list' \in Seq(Requests)
          /\ \A k \in 1 .. Len(process_list') :
               \E j \in 1 .. Len(process_list) : process_list'[k] = process_list[j]
      BY <2>1, <2>4, EraseList DEF TypeOK
    <3>2. TypeOK'
      BY <2>1, <2>2, <2>4, <3>1 DEF TypeOK, RecordStates
    <3>3. PostedInv'
      <4>1. \A k \in 1 .. Len(process_list') : process_list'[k] < current_index'
        BY <2>2, <3>1 DEF PostedInv
      <4>2. \A q \in Requests : q >= current_index => q # r
        BY <2>1 DEF TypeOK, Requests
      <4>3. \A q \in Requests : q >= current_index' => state'[q] = "unposted" /\ ~cancelled'[q]
        BY <2>2, <2>4, <4>2 DEF PostedInv, TypeOK
      <4> QED
        BY <2>2, <4>1, <4>3 DEF PostedInv
    <3>4. NoUseAfterDelete'
      BY <2>1, <2>2, <2>4 DEF TypeOK, NoUseAfterDelete, ResponseInv, Busy
    <3>5. ResponseInv'
      BY <2>1, <2>2, <2>4 DEF TypeOK, ResponseInv, Busy
    <3> QED
      BY <3>2, <3>3, <3>4, <3>5
  <2> QED
    BY <1>5, <2>3, <2>4 DEF ScanRecord
<1>6. CASE ReturnResult
  <2> DEFINE r == process_list[scan]
  <2>1. r \in Requests /\ r < current_index /\ scan \in 1 .. Len(process_list)
    BY <1>6 DEF TypeOK, PostedInv, ReturnResult
  <2>2. UNCHANGED <<current_index, cancelled, response, semaphore, pc, the_record, withdrawn>>
    BY <1>6 DEF ReturnResult, workers
  <2>3. /\ state[r] = "process_complete"
        /\ results' = Append(results, [request |-> r, solved |-> response[r]])
        /\ state' = [state EXCEPT ![r] = "deleted"]
        /\ process_list' = erase(process_list, scan)
        /\ scan' = 0
    BY <1>6 DEF ReturnResult
  <2> HIDE DEF r
  <2>4. /\ process_list' \in Seq(Requests)
        /\ \A k \in 1 .. Len(process_list') :
             \E j \in 1 .. Len(process_list) : process_list'[k] = process_list[j]
    BY <2>1, <2>3, EraseList DEF TypeOK
  <2>5. results' \in Seq([request : Requests, solved : BOOLEAN])
    BY <2>1, <2>3 DEF TypeOK
  <2>6. \A k \in 1 .. Len(results') :
          results'[k].request = r
          \/ (k \in 1 .. Len(results) /\ results'[k] = results[k])
    BY <2>3 DEF TypeOK
  <2>7. TypeOK'
    BY <2>1, <2>2, <2>3, <2>4, <2>5 DEF TypeOK, RecordStates
  <2>8. PostedInv'
    <3>1. \A k \in 1 .. Len(process_list') : process_list'[k] < current_index'
      BY <2>2, <2>4 DEF PostedInv
    <3>2. \A q \in Requests : q >= current_index => q # r
      BY <2>1 DEF TypeOK, Requests
    <3>3. \A q \in Requests : q >= current_index' => state'[q] = "unposted" /\ ~cancelled'[q]
      BY <2>2, <2>3, <3>2 DEF PostedInv, TypeOK
    <3>4. \A k \in 1 .. Len(results') : results'[k].request < current_index'
      BY <2>1, <2>2, <2>6 DEF PostedInv
    <3> QED
      BY <2>2, <3>1, <3>3, <3>4 DEF PostedInv
  <2>9. NoUseAfterDelete'
    BY <2>1, <2>2, <2>3 DEF TypeOK, NoUseAfterDelete, ResponseInv, Busy
  <2>10. ResponseInv'
    BY <2>1, <2>2, <2>3 DEF TypeOK, ResponseInv, Busy
  <2> QED
    BY <2>7, <2>8, <2>9, <2>10
<1>7. ASSUME NEW w \in Workers, dispatch_next_call(w) PROVE QueueInv'
  <2>1. CASE WaitSemaphore(w) \/ NothingToTake(w) \/ LeaveLoop(w)
    <3>1. UNCHANGED <<current_index, process_list, state, cancelled, response, scan,
                      the_record, results, withdrawn>>
      BY <2>1 DEF WaitSemaphore, NothingToTake, LeaveLoop, records, history
    <3>2. semaphore' \in Nat
      BY <2>1 DEF WaitSemaphore, NothingToTake, LeaveLoop, TypeOK
    <3>3. \E p \in {"awake", "waiting", "responding"} :
            /\ pc' = [pc EXCEPT ![w] = p]
            /\ p = "responding" => pc[w] = "processing"
      BY <2>1 DEF WaitSemaphore, NothingToTake, LeaveLoop
    <3>4. TypeOK' /\ PostedInv'
      BY <3>1, <3>2, <3>3 DEF TypeOK, WorkerStates, PostedInv
    <3>5. NoUseAfterDelete' /\ ResponseInv'
      BY <3>1, <3>3 DEF TypeOK, NoUseAfterDelete, ResponseInv, Busy
    <3> QED
      BY <3>4, <3>5
  <2>2. CASE TakeRequest(w)
    <3>1. PICK i \in 1 .. Len(process_list) :
            /\ state[process_list[i]] = "not_yet_processed"
            /\ the_record' = [the_record EXCEPT ![w] = process_list[i]]
            /\ state' = [state EXCEPT ![process_list[i]] = "in_process"]
      BY <2>2 DEF TakeRequest, FirstUnprocessed
    <3> DEFINE r == process_list[i]
    <3>2. r \in Requests /\ r < current_index
      BY DEF TypeOK, PostedInv
    <3>3. UNCHANGED <<current_index, process_list, cancelled, response, semaphore, scan,
                      results, withdrawn>>
      BY <2>2 DEF TakeRequest, history
    <3>4. pc' = [pc EXCEPT ![w] = "processing"] /\ pc[w] = "awake"
      BY <2>2 DEF TakeRequest
    <3>5. /\ state[r] = "not_yet_processed"
          /\ the_record' = [the_record EXCEPT ![w] = r]
          /\ state' = [state EXCEPT ![r] = "in_process"]
      BY <3>1
    <3> HIDE DEF r
    <3>6. TypeOK'
      BY <3>2, <3>3, <3>4, <3>5 DEF TypeOK, RecordStates, WorkerStates
    <3>7. PostedInv'
      BY <3>2, <3>3, <3>5 DEF TypeOK, PostedInv, Requests
    <3>8. NoUseAfterDelete'
      BY <3>2, <3>4, <3>5 DEF TypeOK, NoUseAfterDelete, ResponseInv, Busy
    <3>9. ResponseInv'
      BY <3>2, <3>3, <3>4, <3>5 DEF TypeOK, ResponseInv, Busy
    <3> QED
      BY <3>6, <3>7, <3>8, <3>9
  <2>3. CASE WriteResponse(w)
    <3> DEFINE r == the_record[w]
    <3>1. r \in Requests
      BY <2>3 DEF WriteResponse, ResponseInv, Busy
    <3>2. UNCHANGED <<current_index, process_list, state, cancelled, semaphore, scan,
                      the_record, results, withdrawn>>
      BY <2>3 DEF WriteResponse, history
    <3>3. /\ pc[w] = "responding" /\ pc' = [pc EXCEPT ![w] = "completing"]
          /\ response' = [response EXCEPT ![r] = ~cancelled[r]]
      BY <2>3 DEF WriteResponse
    <3>4. state[r] = "in_process"
      BY <3>3 DEF NoUseAfterDelete, Busy
    <3>5. cancelled[r] \/ response'[r]
      BY <3>1, <3>3 DEF TypeOK
    <3>6. \A q \in Requests : q # r => response'[q] = response[q]
      BY <3>3 DEF TypeOK
    <3>7. \A v \in Workers : v # w /\ Busy(v) => the_record[v] # r
      BY <3>3 DEF NoUseAfterDelete, Busy
    <3>8. response' \in [Requests -> BOOLEAN] /\ pc' \in [Workers -> WorkerStates]
      BY <3>1, <3>3 DEF TypeOK, WorkerStates
    <3>9. TypeOK'
      BY <3>2, <3>8 DEF TypeOK
    <3>10. PostedInv'
      BY <3>2 DEF PostedInv
    <3>11. NoUseAfterDelete'
      BY <3>2, <3>3 DEF TypeOK, NoUseAfterDelete, Busy
    <3>12. \A v \in Workers : pc'[v] = "completing" =>
              cancelled[the_record[v]] \/ response'[the_record[v]]
      <4> SUFFICES ASSUME NEW v \in Workers, pc'[v] = "completing"
                   PROVE  cancelled[the_record[v]] \/ response'[the_record[v]]
        OBVIOUS
      <4>1. CASE v = w
        BY <4>1, <3>5
      <4>2. CASE v # w
        <5>1. pc[v] = "completing" /\ Busy(v)
          BY <4>2, <3>3 DEF TypeOK, Busy
        <5>2. the_record[v] \in Requests /\ the_record[v] # r
          BY <5>1, <4>2, <3>7 DEF ResponseInv
        <5> QED
          BY <5>1, <5>2, <3>6 DEF ResponseInv
      <4> QED
        BY <4>1, <4>2
    <3>13. \A q \in Requests : state[q] = "process_complete" => cancelled[q] \/ response'[q]
      BY <3>4, <3>6 DEF ResponseInv
    <3>14. \A v \in Workers : Busy(v)' => the_record[v] \in Requests
      BY <3>1, <3>3 DEF TypeOK, ResponseInv, Busy
    <3> HIDE DEF r
    <3>15. ResponseInv'
      BY <3>2, <3>12, <3>13, <3>14 DEF ResponseInv
    <3> QED
      BY <3>9, <3>10, <3>11, <3>15
  <2>4. CASE Complete(w)
    <3> DEFINE r == the_record[w]
    <3>1. UNCHANGED <<current_index, process_list, cancelled, response, semaphore, scan,
                      results, withdrawn>>
      BY <2>4 DEF Complete, history
    <3>2. /\ pc[w] = "completing" /\ pc' = [pc EXCEPT ![w] = "waiting"]
          /\ the_record' = [the_record EXCEPT ![w] = None]
          /\ state' = [state EXCEPT ![r] = "process_complete"]
      BY <2>4 DEF Complete
    <3>3. r \in Requests /\ state[r] = "in_process" /\ (cancelled[r] \/ response[r])
      BY <3>2 DEF ResponseInv, NoUseAfterDelete, Busy
    <3>4. \A v \in Workers : v # w /\ Busy(v) => the_record[v] # r
      BY <3>2 DEF NoUseAfterDelete, Busy
    <3>5. r < current_index
      BY <3>3 DEF PostedInv, TypeOK, Requests
    <3> HIDE DEF r
    <3>6. TypeOK'
      BY <3>1, <3>2, <3>3 DEF TypeOK, RecordStates, WorkerStates
    <3>7. PostedInv'
      BY <3>1, <3>2, <3>3, <3>5 DEF TypeOK, PostedInv, Requests
    <3>8. NoUseAfterDelete'
      BY <3>2, <3>3, <3>4 DEF TypeOK, NoUseAfterDelete, ResponseInv, Busy
    <3>9. ResponseInv'
      BY <3>1, <3>2, <3>3 DEF TypeOK, ResponseInv, Busy
    <3> QED
      BY <3>6, <3>7, <3>8, <3>9
  <2> QED
    BY <1>7, <2>1, <2>2, <2>3, <2>4 DEF dispatch_next_call
<1> QED
  BY <1>1, <1>2, <1>3, <1>4, <1>5, <1>6, <1>7 DEF Next, get_next_result

\* No worker uses a process_record after it was deleted, nor shares one with
\* another worker, for any number of workers, requests and cancellations.
THEOREM RecordsOutliveWorkers == Spec => [](TypeOK /\ NoUseAfterDelete)
<1>1. QueueInv => TypeOK /\ NoUseAfterDelete
  BY DEF QueueInv
<1> QED
  BY <1>1, InitInv, StepInv, PTL DEF Spec

\* The requests the main thread is still waiting for.
Outstanding == {r \in Posted : state[r] \in Live /\ ~cancelled[r]}

LEMMA PostedRequests == TypeOK => Posted \subseteq Requests
BY BoundsAssumption DEF TypeOK, Posted, Requests

\* A step that leaves the flags of outstanding requests and the set of live
\* records alone is invisible to the main thread.
LEMMA OutstandingUnchanged ==
    ASSUME TypeOK, UNCHANGED current_index,
           \A r \in Requests : (state'[r] \in Live /\ ~cancelled'[r])
                                  <=> (state[r] \in Live /\ ~cancelled[r])
    PROVE  Outstanding' = Outstanding
BY PostedRequests DEF Outstanding, Posted

LEMMA ListedArePosted ==
    ASSUME QueueInv, NEW i \in 1 .. Len(process_list)
    PROVE  process_list[i] \in Requests /\ process_list[i] \in Posted
<1>1. process_list[i] \in Requests
  BY DEF QueueInv, TypeOK
<1>2. process_list[i] < current_index
  BY DEF QueueInv, PostedInv
<1>3. \A r \in Requests : r < current_index => r \in Posted
  BY BoundsAssumption DEF QueueInv, TypeOK, Requests, Posted
<1> QED
  BY <1>1, <1>2, <1>3

LEMMA StepImplements ==
    ASSUME QueueInv, Next
    PROVE  \/ \E r \in Requests :
                \/ /\ r \notin Outstanding \cup withdrawn
                   /\ \A i \in 1 .. Len(results) : results[i].request # r
                   /\ Outstanding' = Outstanding \cup {r}
                   /\ UNCHANGED <<results, withdrawn>>
                \/ /\ r \in Outstanding
                   /\ Outstanding' = Outstanding \ {r}
                   /\ results' = Append(results, [request |-> r, solved |-> TRUE])
                   /\ UNCHANGED withdrawn
                \/ /\ r \in Outstanding
                   /\ Outstanding' = Outstanding \ {r}
                   /\ withdrawn' = withdrawn \cup {r}
                   /\ UNCHANGED results
           \/ UNCHANGED <<Outstanding, results, withdrawn>>
<1> USE DEF QueueInv
<1>p. Posted \subseteq Requests
  BY PostedRequests
<1>1. CASE post_request
  <2>1. current_index \in Requests /\ current_index \notin Posted
    BY <1>1, BoundsAssumption DEF post_request, TypeOK, Requests, Posted
  <2>2. current_index \notin withdrawn
    BY <2>1 DEF PostedInv, Requests
  <2>3. \A i \in 1 .. Len(results) : results[i].request # current_index
    BY <2>1 DEF PostedInv, Requests
  <2>4. Posted' = Posted \cup {current_index}
    BY <1>1, <2>1, BoundsAssumption DEF post_request, Posted, Requests
  <2>5. /\ state' = [state EXCEPT ![current_index] = "not_yet_processed"]
        /\ UNCHANGED <<cancelled, results, withdrawn>>
    BY <1>1 DEF post_request, history
  <2>6. ~cancelled[current_index]
    BY <2>1 DEF PostedInv, Requests
  <2>7. Outstanding' = Outstanding \cup {current_index}
    BY <1>p, <2>1, <2>4, <2>5, <2>6 DEF Outstanding, TypeOK, Live
  <2>8. current_index \notin Outstanding
    BY <2>1 DEF Outstanding
  <2> QED
    BY <2>1, <2>2, <2>3, <2>5, <2>7, <2>8
<1>2. ASSUME NEW i \in 1 .. Len(process_list), cancel_request(i)
      PROVE  \/ \E r \in Requests :
                   /\ r \in Outstanding
                   /\ Outstanding' = Outstanding \ {r}
                   /\ withdrawn' = withdrawn \cup {r}
                   /\ UNCHANGED results
             \/ UNCHANGED <<Outstanding, results, withdrawn>>
  <2> DEFINE r == process_list[i]
  <2>1. r \in Requests /\ r \in Posted
    BY ListedArePosted
  <2>2. /\ withdrawn' = withdrawn \cup {r}
        /\ UNCHANGED <<current_index, results>>
    BY <1>2 DEF cancel_request
  <2>3. /\ state[r] \in Live
        /\ \/ state' = [state EXCEPT ![r] = "deleted"] /\ UNCHANGED cancelled
           \/ cancelled' = [cancelled EXCEPT ![r] = TRUE] /\ UNCHANGED state
    BY <1>2 DEF cancel_request, Live
  <2> HIDE DEF r
  <2>4. CASE cancelled[r]
    <3>1. r \in withdrawn
      BY <2>1, <2>4 DEF ResponseInv
    <3>2. Outstanding' = Outstanding
      BY <2>1, <2>2, <2>3, <2>4, OutstandingUnchanged DEF TypeOK
    <3> QED
      BY <2>2, <3>1, <3>2
  <2>5. CASE ~cancelled[r]
    <3>1. Posted' = Posted
      BY <2>2 DEF Posted
    <3>2. Outstanding' = Outstanding \ {r}
      BY <1>p, <2>1, <2>3, <3>1 DEF Outstanding, TypeOK, Live
    <3>3. r \in Outstanding
      BY <2>1, <2>3, <2>5 DEF Outstanding
    <3> QED
      BY <2>1, <2>2, <3>2, <3>3
  <2> QED
    BY <2>4, <2>5
<1>3. CASE StartScan \/ ReturnNothing
  BY <1>3 DEF StartScan, ReturnNothing, records, history, Outstanding, Posted
<1>4. CASE ScanRecord
  <2>1. UNCHANGED <<current_index, cancelled, results, withdrawn>>
    BY <1>4 DEF ScanRecord, history
  <2>2. process_list[scan] \in Requests
    BY <1>4 DEF ScanRecord, TypeOK
  <2>3. \/ UNCHANGED state
        \/ /\ cancelled[process_list[scan]]
           /\ state' = [state EXCEPT ![process_list[scan]] = "deleted"]
    BY <1>4 DEF ScanRecord
  <2>4. Outstanding' = Outstanding
    BY <2>1, <2>2, <2>3, OutstandingUnchanged DEF TypeOK
  <2> QED
    BY <2>1, <2>4
<1>5. CASE ReturnResult
  <2> DEFINE r == process_list[scan]
  <2>1. r \in Requests /\ r \in Posted
    BY <1>5, ListedArePosted DEF ReturnResult
  <2>2. /\ state[r] = "process_complete" /\ ~cancelled[r]
        /\ results' = Append(results, [request |-> r, solved |-> response[r]])
        /\ state' = [state EXCEPT ![r] = "deleted"]
        /\ UNCHANGED <<current_index, cancelled, withdrawn>>
    BY <1>5 DEF ReturnResult
  <2> HIDE DEF r
  <2>3. response[r] = TRUE
    BY <2>1, <2>2 DEF ResponseInv, TypeOK
  <2>4. Posted' = Posted
    BY <2>2 DEF Posted
  <2>5. Outstanding' = Outstanding \ {r} /\ r \in Outstanding
    BY <1>p, <2>1, <2>2, <2>4 DEF Outstanding, TypeOK, Live
  <2> QED
    BY <2>1, <2>2, <2>3, <2>5
<1>6. ASSUME NEW w \in Workers, dispatch_next_call(w)
      PROVE  UNCHANGED <<Outstanding, results, withdrawn>>
  <2>1. CASE WaitSemaphore(w) \/ NothingToTake(w) \/ LeaveLoop(w) \/ WriteResponse(w)
    BY <2>1 DEF WaitSemaphore, NothingToTake, LeaveLoop, WriteResponse, records, history,
                Outstanding, Posted
  <2>2. CASE TakeRequest(w)
    <3>1. UNCHANGED <<current_index, cancelled, results, withdrawn>>
      BY <2>2 DEF TakeRequest, history
    <3>2. PICK i \in 1 .. Len(process_list) :
            /\ state[process_list[i]] = "not_yet_processed"
            /\ state' = [state EXCEPT ![process_list[i]] = "in_process"]
      BY <2>2 DEF TakeRequest, FirstUnprocessed
    <3>3. process_list[i] \in Requests
      BY DEF TypeOK
    <3>4. Outstanding' = Outstanding
      BY <3>1, <3>2, <3>3, OutstandingUnchanged DEF TypeOK, Live
    <3> QED
      BY <3>1, <3>4
  <2>3. CASE Complete(w)
    <3>1. UNCHANGED <<current_index, cancelled, results, withdrawn>>
      BY <2>3 DEF Complete, history
    <3>2. /\ the_record[w] \in Requests /\ state[the_record[w]] = "in_process"
          /\ state' = [state EXCEPT ![the_record[w]] = "process_complete"]
      BY <2>3 DEF Complete, ResponseInv, NoUseAfterDelete, Busy
    <3>3. Outstanding' = Outstanding
      BY <3>1, <3>2, OutstandingUnchanged DEF TypeOK, Live
    <3> QED
      BY <3>1, <3>3
  <2> QED
    BY <1>6, <2>1, <2>2, <2>3 DEF dispatch_next_call
<1> QED
  BY <1>1, <1>2, <1>3, <1>4, <1>5, <1>6 DEF Next, get_next_result

\* ThreadQueue implements WorkRequests: a request is answered at most once, with
\* a solution, and never after cancel_request confirmed its cancellation.
THEOREM QueueImplementsRequests == Spec => AnsweredOnceOrWithdrawn
<1>1. Init => Abstract!Init
  BY BoundsAssumption DEF Init, Abstract!Init, Posted
<1>2. QueueInv /\ [Next]_vars => [Abstract!Next]_(Abstract!vars)
  <2> SUFFICES ASSUME QueueInv, [Next]_vars PROVE [Abstract!Next]_(Abstract!vars)
    OBVIOUS
  <2>1. CASE UNCHANGED vars
    BY <2>1 DEF vars, Abstract!vars, Posted
  <2>2. CASE Next
    BY <2>2, StepImplements
    DEF Outstanding, Abstract!vars, Abstract!Next, Abstract!Post, Abstract!Answer,
        Abstract!Withdraw, Abstract!AnsweredRequests
  <2> QED
    BY <2>1, <2>2
<1> QED
  BY <1>1, <1>2, InitInv, StepInv, PTL DEF Spec, AnsweredOnceOrWithdrawn, Abstract!Spec

(* Wakeups: the requests to be taken and the workers on their way to take one. *)
Unprocessed == {r \in Requests : state[r] = "not_yet_processed"}
Awake == {w \in Workers : pc[w] = "awake"}

\* NoLostWakeup is not inductive: a worker that finds nothing to take gives its
\* wakeup up, which is only safe because every unprocessed request is listed.
WakeupInv ==
    /\ semaphore <= current_index
    /\ Cardinality(Unprocessed) <= semaphore + Cardinality(Awake)
    /\ \A r \in Unprocessed : \E i \in 1 .. Len(process_list) : process_list[i] = r

LEMMA EraseKeepsOthers ==
    ASSUME process_list \in Seq(Requests), NEW i \in 1 .. Len(process_list),
           process_list' = erase(process_list, i),
           NEW j \in 1 .. Len(process_list), j # i
    PROVE  \E k \in 1 .. Len(process_list') : process_list'[k] = process_list[j]
<1>1. Len(process_list) \in Nat
  OBVIOUS
<1>2. Len(process_list') = Len(process_list) - 1
  <2>1. \A s \in Seq(Requests) : \A n \in 1 .. Len(s) : Len(erase(s, n)) = Len(s) - 1
    BY EraseType
  <2> QED
    BY <2>1
<1>3. CASE j < i
  <2>1. j \in 1 .. Len(process_list) - 1
    BY <1>1, <1>3
  <2>2. process_list'[j] = process_list[j]
    BY <1>3, <2>1 DEF erase
  <2> QED
    BY <1>2, <2>1, <2>2
<1>4. CASE j > i
  <2>1. j - 1 \in 1 .. Len(process_list) - 1 /\ ~(j - 1 < i) /\ (j - 1) + 1 = j
    BY <1>1, <1>4
  <2>2. process_list'[j - 1] = process_list[j]
    BY <2>1 DEF erase
  <2> QED
    BY <1>2, <2>1, <2>2
<1> QED
  BY <1>3, <1>4

LEMMA FiniteParts ==
    /\ IsFiniteSet(Unprocessed) /\ Cardinality(Unprocessed) \in Nat
    /\ IsFiniteSet(Awake) /\ Cardinality(Awake) \in Nat
<1>1. IsFiniteSet(Requests)
  BY FS_Interval, BoundsAssumption DEF Requests
<1>2. IsFiniteSet(Workers)
  BY BoundsAssumption
<1>3. IsFiniteSet(Unprocessed) /\ IsFiniteSet(Awake)
  BY <1>1, <1>2, FS_Subset DEF Unprocessed, Awake
<1> QED
  BY <1>3, FS_CardinalityType

\* A request leaves the list only together with its unprocessed state.
LEMMA ErasedStep ==
    ASSUME QueueInv, WakeupInv, NEW i \in 1 .. Len(process_list),
           state' = [state EXCEPT ![process_list[i]] = "deleted"],
           process_list' = erase(process_list, i),
           UNCHANGED <<current_index, semaphore, pc>>
    PROVE  WakeupInv'
<1>1. process_list \in Seq(Requests) /\ process_list[i] \in Requests
      /\ state \in [Requests -> RecordStates]
  BY DEF QueueInv, TypeOK
<1>2. Unprocessed' \subseteq Unprocessed
      /\ \A r \in Unprocessed' : r # process_list[i]
  BY <1>1 DEF Unprocessed
<1>3. Awake' = Awake
  BY DEF Awake
<1>4. Cardinality(Unprocessed') \in Nat /\ Cardinality(Unprocessed') <= Cardinality(Unprocessed)
  <2>1. \A T \in SUBSET Unprocessed : IsFiniteSet(T) /\ Cardinality(T) <= Cardinality(Unprocessed)
    BY FiniteParts, FS_Subset
  <2> QED
    BY <1>2, <2>1, FS_CardinalityType
<1>5. \A r \in Unprocessed' : \E k \in 1 .. Len(process_list') : process_list'[k] = r
  <2> SUFFICES ASSUME NEW r \in Unprocessed'
               PROVE  \E k \in 1 .. Len(process_list') : process_list'[k] = r
    OBVIOUS
  <2>1. PICK j \in 1 .. Len(process_list) : process_list[j] = r
    BY <1>2 DEF WakeupInv
  <2>2. j # i
    BY <1>2, <2>1
  <2> QED
    BY <1>1, <2>1, <2>2, EraseKeepsOthers
<1> QED
  BY <1>3, <1>4, <1>5, FiniteParts DEF WakeupInv, QueueInv, TypeOK

LEMMA WakeupStep ==
    ASSUME SemaphoreMax >= MaxRequests, QueueInv, WakeupInv, [Next]_vars
    PROVE  WakeupInv'
<1>t. /\ current_index \in 0 .. MaxRequests /\ MaxRequests \in Nat /\ SemaphoreMax \in Nat
      /\ semaphore \in Nat /\ state \in [Requests -> RecordStates]
      /\ pc \in [Workers -> WorkerStates] /\ process_list \in Seq(Requests)
  BY BoundsAssumption DEF QueueInv, TypeOK
<1>1. ASSUME UNCHANGED <<current_index, semaphore, process_list, pc, Unprocessed>>
      PROVE  WakeupInv'
  BY <1>1 DEF WakeupInv, Awake
<1>2. CASE UNCHANGED vars
  BY <1>1, <1>2 DEF vars, Unprocessed
<1>3. CASE post_request
  <2>1. /\ current_index < MaxRequests /\ current_index' = current_index + 1
        /\ process_list' = Append(process_list, current_index)
        /\ state' = [state EXCEPT ![current_index] = "not_yet_processed"]
        /\ semaphore' = increment(semaphore) /\ pc' = pc
    BY <1>3 DEF post_request, workers
  <2>2. current_index \in Requests /\ current_index \notin Unprocessed
    BY <1>t, <2>1 DEF Requests, Unprocessed, QueueInv, PostedInv
  <2>3. semaphore < SemaphoreMax
    BY <1>t, <2>1 DEF WakeupInv
  <2>4. semaphore' = semaphore + 1
    BY <2>1, <2>3 DEF increment
  <2>5. Unprocessed' = Unprocessed \cup {current_index} /\ Awake' = Awake
    BY <1>t, <2>1, <2>2 DEF Unprocessed, Awake
  <2>6. Cardinality(Unprocessed') = Cardinality(Unprocessed) + 1
    <3>1. Cardinality(Unprocessed \cup {current_index}) = Cardinality(Unprocessed) + 1
      BY <2>2, FiniteParts, FS_AddElement
    <3> QED
      BY <3>1, <2>5
  <2>7. /\ Len(process_list') = Len(process_list) + 1 /\ Len(process_list) \in Nat
        /\ process_list'[Len(process_list) + 1] = current_index
        /\ \A i \in 1 .. Len(process_list) : process_list'[i] = process_list[i]
    BY <1>t, <2>1, <2>2
  <2>8. \A r \in Unprocessed' : \E i \in 1 .. Len(process_list') : process_list'[i] = r
    <3> SUFFICES ASSUME NEW r \in Unprocessed'
                 PROVE  \E i \in 1 .. Len(process_list') : process_list'[i] = r
      OBVIOUS
    <3>1. CASE r = current_index
      BY <3>1, <2>7
    <3>2. CASE r \in Unprocessed
      <4>1. PICK i \in 1 .. Len(process_list) : process_list[i] = r
        BY <3>2 DEF WakeupInv
      <4> QED
        BY <4>1, <2>7
    <3> QED
      BY <3>1, <3>2, <2>5
  <2> QED
    BY <1>t, <2>1, <2>4, <2>5, <2>6, <2>8, FiniteParts DEF WakeupInv
<1>4. ASSUME NEW i \in 1 .. Len(process_list), cancel_request(i) PROVE WakeupInv'
  <2>1. UNCHANGED <<current_index, semaphore, pc>>
    BY <1>4 DEF cancel_request, workers
  <2>2. \/ /\ state' = [state EXCEPT ![process_list[i]] = "deleted"]
           /\ process_list' = erase(process_list, i)
        \/ UNCHANGED <<state, process_list>>
    BY <1>4 DEF cancel_request
  <2>3. CASE UNCHANGED <<state, process_list>>
    BY <1>1, <2>1, <2>3 DEF Unprocessed
  <2> QED
    BY <2>1, <2>2, <2>3, ErasedStep
<1>5. CASE get_next_result
  <2>1. UNCHANGED <<current_index, semaphore, pc>>
    BY <1>5 DEF get_next_result, StartScan, ScanRecord, ReturnResult, ReturnNothing, workers
  <2>2. \/ /\ scan \in 1 .. Len(process_list)
           /\ state' = [state EXCEPT ![process_list[scan]] = "deleted"]
           /\ process_list' = erase(process_list, scan)
        \/ UNCHANGED <<state, process_list>>
    BY <1>5 DEF get_next_result, StartScan, ScanRecord, ReturnResult, ReturnNothing, records
  <2>3. CASE UNCHANGED <<state, process_list>>
    BY <1>1, <2>1, <2>3 DEF Unprocessed
  <2> QED
    BY <2>1, <2>2, <2>3, ErasedStep
<1>6. ASSUME NEW w \in Workers, dispatch_next_call(w) PROVE WakeupInv'
  <2>i. UNCHANGED <<current_index, process_list>>
    BY <1>6 DEF dispatch_next_call, WaitSemaphore, TakeRequest, NothingToTake, LeaveLoop,
                WriteResponse, Complete
  <2>1. CASE WaitSemaphore(w)
    <3>1. /\ pc[w] = "waiting" /\ semaphore > 0 /\ semaphore' = semaphore - 1
          /\ pc' = [pc EXCEPT ![w] = "awake"] /\ state' = state
      BY <2>1 DEF WaitSemaphore, records
    <3>2. Unprocessed' = Unprocessed
      BY <3>1 DEF Unprocessed
    <3>3. Awake' = Awake \cup {w} /\ w \notin Awake
      BY <1>t, <3>1 DEF Awake
    <3>4. Cardinality(Awake') = Cardinality(Awake) + 1
      <4>1. Cardinality(Awake \cup {w}) = Cardinality(Awake) + 1
        BY <3>3, FiniteParts, FS_AddElement
      <4> QED
        BY <4>1, <3>3
    <3> QED
      BY <1>t, <2>i, <3>1, <3>2, <3>4, FiniteParts DEF WakeupInv
  <2>2. CASE TakeRequest(w)
    <3>1. PICK i \in 1 .. Len(process_list) :
            /\ state[process_list[i]] = "not_yet_processed"
            /\ state' = [state EXCEPT ![process_list[i]] = "in_process"]
      BY <2>2 DEF TakeRequest, FirstUnprocessed
    <3> DEFINE r == process_list[i]
    <3>2. r \in Requests
      BY <1>t
    <3>3. pc[w] = "awake" /\ pc' = [pc EXCEPT ![w] = "processing"] /\ semaphore' = semaphore
      BY <2>2 DEF TakeRequest
    <3>4. Unprocessed' = Unprocessed \ {r} /\ r \in Unprocessed
      BY <1>t, <3>1, <3>2 DEF Unprocessed
    <3>5. Awake' = Awake \ {w} /\ w \in Awake
      BY <1>t, <3>3 DEF Awake
    <3> HIDE DEF r
    <3>6. Cardinality(Unprocessed') = Cardinality(Unprocessed) - 1
      <4>1. Cardinality(Unprocessed \ {r}) = Cardinality(Unprocessed) - 1
        BY <3>4, FiniteParts, FS_RemoveElement
      <4> QED
        BY <4>1, <3>4
    <3>7. Cardinality(Awake') = Cardinality(Awake) - 1
      <4>1. Cardinality(Awake \ {w}) = Cardinality(Awake) - 1
        BY <3>5, FiniteParts, FS_RemoveElement
      <4> QED
        BY <4>1, <3>5
    <3>8. \A q \in Unprocessed' : \E k \in 1 .. Len(process_list') : process_list'[k] = q
      BY <2>i, <3>4 DEF WakeupInv
    <3> QED
      BY <1>t, <2>i, <3>3, <3>6, <3>7, <3>8, FiniteParts DEF WakeupInv
  <2>3. CASE NothingToTake(w)
    <3>1. /\ \A i \in 1 .. Len(process_list) : state[process_list[i]] # "not_yet_processed"
          /\ state' = state /\ semaphore' = semaphore
      BY <2>3 DEF NothingToTake, records
    <3>2. Unprocessed = {}
      BY <3>1 DEF WakeupInv, Unprocessed
    <3>3. Unprocessed' = {}
      BY <3>1, <3>2 DEF Unprocessed
    <3>4. Cardinality(Unprocessed') = 0
      BY <3>3, FS_EmptySet
    <3>5. Cardinality(Awake') \in Nat
      <4>1. Awake' \in SUBSET Workers /\ IsFiniteSet(Workers)
        BY BoundsAssumption DEF Awake
      <4>2. IsFiniteSet(Awake')
        BY <4>1, FS_Subset
      <4> QED
        BY <4>2, FS_CardinalityType
    <3> QED
      BY <1>t, <2>i, <3>1, <3>3, <3>4, <3>5 DEF WakeupInv
  <2>4. CASE LeaveLoop(w) \/ WriteResponse(w) \/ Complete(w)
    <3>1. semaphore' = semaphore /\ Awake' = Awake
      BY <1>t, <2>4 DEF LeaveLoop, WriteResponse, Complete, Awake
    <3>2. Unprocessed' = Unprocessed
      <4>1. CASE LeaveLoop(w) \/ WriteResponse(w)
        BY <4>1 DEF LeaveLoop, WriteResponse, records, Unprocessed
      <4>2. CASE Complete(w)
        <5>1. /\ the_record[w] \in Requests /\ state[the_record[w]] = "in_process"
              /\ state' = [state EXCEPT ![the_record[w]] = "process_complete"]
          BY <4>2 DEF Complete, QueueInv, ResponseInv, NoUseAfterDelete, Busy
        <5> QED
          BY <1>t, <5>1 DEF Unprocessed
      <4> QED
        BY <2>4, <4>1, <4>2
    <3> QED
      BY <2>i, <3>1, <3>2 DEF WakeupInv
  <2> QED
    BY <1>6, <2>1, <2>2, <2>3, <2>4 DEF dispatch_next_call
<1> QED
  BY <1>2, <1>3, <1>4, <1>5, <1>6 DEF Next

\* As long as the semaphore can count every request, no request is left without
\* a wakeup to come, however posts, cancellations and workers interleave.
THEOREM WakeupsSuffice == SemaphoreMax >= MaxRequests /\ Spec => []NoLostWakeup
<1> SUFFICES ASSUME SemaphoreMax >= MaxRequests PROVE Spec => []NoLostWakeup
  OBVIOUS
<1>1. Init => WakeupInv
  <2> SUFFICES ASSUME Init PROVE WakeupInv
    OBVIOUS
  <2>1. Unprocessed = {} /\ Awake = {}
    BY DEF Init, Unprocessed, Awake
  <2>2. Cardinality(Unprocessed) = 0 /\ Cardinality(Awake) = 0
    BY <2>1, FS_EmptySet
  <2> QED
    BY <2>1, <2>2 DEF Init, WakeupInv
<1>2. QueueInv /\ WakeupInv /\ [Next]_vars => WakeupInv'
  BY WakeupStep
<1>3. WakeupInv => NoLostWakeup
  BY DEF WakeupInv, NoLostWakeup, Unprocessed, Awake
<1> QED
  BY <1>1, <1>2, <1>3, InitInv, StepInv, PTL DEF Spec
==============================================================================
