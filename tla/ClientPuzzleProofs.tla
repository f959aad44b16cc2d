------------------------- MODULE ClientPuzzleProofs -------------------------
(***************************************************************************)
(* For every refresh interval, clock and set of clients, and whatever the  *)
(* uninitialised _last_update_time holds: a solution is accepted at most   *)
(* once, and a handed out nonce stays valid for a refresh interval.        *)
(***************************************************************************)
EXTENDS ClientPuzzle, TLAPS

\* The two nonces are different and no nonce is used before it is drawn.
NonceInv ==
    /\ pm.current_nonce # pm.last_nonce
    /\ pm.current_nonce < drawn /\ pm.last_nonce < drawn
    /\ \A n \in Nonces : n >= drawn => handed[n] = Never
    /\ \A n \in Nonces, c \in ClientNonces : n >= drawn => accepts[<<n, c>>] = 0

\* The tables remember every client nonce accepted for the two nonces.
TableInv ==
    \A c \in ClientNonces :
        /\ accepts[<<pm.current_nonce, c>>] > 0 => c \in pm.current_nonce_table
        /\ accepts[<<pm.last_nonce, c>>] > 0 => c \in pm.last_nonce_table

\* The last nonce was not handed out after the refresh that retired it, and a
\* nonce given up was handed out more than a refresh interval ago.
TimeInv ==
    /\ \A n \in Nonces : handed[n] = Never \/ handed[n] <= now
    /\ handed[pm.last_nonce] = Never \/ handed[pm.last_nonce] <= last_update_time
    /\ \A n \in Nonces :
        ~KnownNonce(pm, n) => handed[n] = Never \/ now - handed[n] > RefreshTime

PuzzleInv == TypeOK /\ NonceInv /\ TableInv /\ AcceptedOnce /\ TimeInv

LEMMA PuzzleInit == Init => PuzzleInv
<1> SUFFICES ASSUME Init PROVE PuzzleInv
  OBVIOUS
<1>1. 0 \in Nonces /\ 1 \in Nonces /\ 2 \in 2 .. MaxNonces
  BY PuzzleAssumption DEF Nonces
<1>2. pm = [current_nonce |-> 1, last_nonce |-> 0,
            current_nonce_table |-> {}, last_nonce_table |-> {}]
  BY DEF Init, NewManager
<1>3. TypeOK
  <2>1. last_update_time \in Int /\ now \in 0 .. MaxTime /\ drawn \in 2 .. MaxNonces
    BY <1>1, PuzzleAssumption DEF Init
  <2>2. handed \in [Nonces -> Int] /\ born \in [Nonces -> Int]
    BY PuzzleAssumption DEF Init, Never
  <2>3. accepts \in [Nonces \X ClientNonces -> Nat] /\ ticked \in BOOLEAN
    BY DEF Init
  <2> QED
    BY <1>1, <1>2, <2>1, <2>2, <2>3 DEF TypeOK
<1>4. NonceInv
  BY <1>1, <1>2 DEF Init, NonceInv
<1>5. TableInv /\ AcceptedOnce
  <2>1. \A p \in Nonces \X ClientNonces : accepts[p] = 0
    BY DEF Init
  <2>2. \A p \in Nonces \X ClientNonces : ~(accepts[p] > 0)
    BY <2>1
  <2>3. pm.current_nonce = 1 /\ pm.last_nonce = 0
    BY <1>2
  <2>4. \A c \in ClientNonces : ~(accepts[<<1, c>>] > 0) /\ ~(accepts[<<0, c>>] > 0)
    BY <1>1, <2>2
  <2>5. TableInv
    BY <2>3, <2>4 DEF TableInv
  <2> QED
    BY <2>1, <2>5 DEF AcceptedOnce
<1>6. TimeInv
  BY <1>1, <1>2 DEF Init, TimeInv
<1> QED
  BY <1>3, <1>4, <1>5, <1>6 DEF PuzzleInv

LEMMA PuzzleStep == PuzzleInv /\ [Next]_vars => PuzzleInv'
<1> SUFFICES ASSUME PuzzleInv, [Next]_vars PROVE PuzzleInv'
  OBVIOUS
<1>t. /\ pm \in [current_nonce : Nonces, last_nonce : Nonces,
                 current_nonce_table : SUBSET ClientNonces,
                 last_nonce_table : SUBSET ClientNonces]
      /\ pm.current_nonce \in Nonces /\ pm.last_nonce \in Nonces
      /\ last_update_time \in Int /\ now \in Nat /\ now \in 0 .. MaxTime
      /\ drawn \in 2 .. MaxNonces
      /\ handed \in [Nonces -> Int] /\ born \in [Nonces -> Int]
      /\ accepts \in [Nonces \X ClientNonces -> Nat]
  BY DEF PuzzleInv, TypeOK
<1>c. RefreshTime \in Nat /\ MaxTime \in Nat /\ MaxNonces \in Nat
  BY PuzzleAssumption
<1>1. CASE UNCHANGED vars
  BY <1>1 DEF vars, PuzzleInv, TypeOK, NonceInv, TableInv, AcceptedOnce, TimeInv, KnownNonce
<1>2. CASE Pass
  <2>1. /\ now' = now + 1 /\ now' \in 0 .. MaxTime /\ ticked' \in BOOLEAN
        /\ UNCHANGED <<pm, last_update_time, drawn, handed, born, accepts>>
    <3>1. now < MaxTime /\ now' = now + 1 /\ ticked' = FALSE
      BY <1>2 DEF Pass
    <3>2. now' \in 0 .. MaxTime
      BY <1>t, <1>c, <3>1
    <3> QED
      BY <1>2, <3>1, <3>2 DEF Pass
  <2>2. TypeOK'
    BY <2>1 DEF PuzzleInv, TypeOK
  <2>3. NonceInv' /\ TableInv' /\ AcceptedOnce'
    BY <2>1 DEF PuzzleInv, NonceInv, TableInv, AcceptedOnce
  <2>4. \A h \in Int : /\ h <= now => h <= now + 1
                       /\ now - h > RefreshTime => now + 1 - h > RefreshTime
    BY <1>t, <1>c
  <2>5. \A n \in Nonces : handed[n] \in Int
    BY <1>t
  <2>6. TimeInv'
    <3>1. \A n \in Nonces : handed[n] = Never \/ handed[n] <= now + 1
      BY <2>4, <2>5 DEF PuzzleInv, TimeInv
    <3>2. \A n \in Nonces :
            ~KnownNonce(pm, n) => handed[n] = Never \/ now + 1 - handed[n] > RefreshTime
      BY <2>4, <2>5 DEF PuzzleInv, TimeInv
    <3> QED
      <4>1. handed[pm.last_nonce] = Never \/ handed[pm.last_nonce] <= last_update_time
        BY DEF PuzzleInv, TimeInv
      <4>2. /\ now' = now + 1 /\ handed' = handed /\ pm' = pm
            /\ last_update_time' = last_update_time
        BY <2>1
      <4> QED
        BY <1>t, <1>c, <3>1, <3>2, <4>1, <4>2 DEF TimeInv, KnownNonce
  <2> QED
    BY <2>2, <2>3, <2>6 DEF PuzzleInv
<1>3. CASE tick
  <2>1. CASE now - last_update_time > RefreshTime
    <3>1. /\ drawn < MaxNonces /\ drawn' = drawn + 1
          /\ pm' = [current_nonce |-> drawn, last_nonce |-> pm.current_nonce,
                    current_nonce_table |-> {},
                    last_nonce_table |-> pm.current_nonce_table]
          /\ last_update_time' = now /\ born' = [born EXCEPT ![drawn] = now]
          /\ ticked' = TRUE
          /\ UNCHANGED <<now, handed, accepts>>
      BY <1>3, <2>1 DEF tick, Refresh
    <3>2. drawn \in Nonces /\ drawn + 1 \in 2 .. MaxNonces
      BY <1>t, <1>c, <3>1 DEF Nonces
    <3>3. TypeOK'
      BY <1>t, <3>1, <3>2 DEF TypeOK
    <3>4. NonceInv'
      BY <1>t, <3>1, <3>2 DEF PuzzleInv, NonceInv, Nonces
    <3>5. \A c \in ClientNonces : accepts[<<drawn, c>>] = 0
      BY <1>t, <3>2 DEF PuzzleInv, NonceInv, Nonces
    <3>6. TableInv' /\ AcceptedOnce'
      <4>1. \A c \in ClientNonces : ~(accepts[<<drawn, c>>] > 0)
        BY <3>5
      <4>2. \A c \in ClientNonces :
              accepts[<<pm.current_nonce, c>>] > 0 => c \in pm.current_nonce_table
        BY DEF PuzzleInv, TableInv
      <4>3. TableInv'
        BY <3>1, <4>1, <4>2 DEF TableInv
      <4> QED
        BY <3>1, <4>3 DEF PuzzleInv, AcceptedOnce
    <3>7. handed[drawn] = Never
      BY <1>t, <3>2 DEF PuzzleInv, NonceInv, Nonces
    <3>8. \A n \in Nonces : ~KnownNonce(pm', n) => n = pm.last_nonce \/ ~KnownNonce(pm, n)
      BY <3>1 DEF KnownNonce
    <3>9. handed[pm.last_nonce] = Never \/ now - handed[pm.last_nonce] > RefreshTime
      <4>1. handed[pm.last_nonce] \in Int
        BY <1>t
      <4>2. handed[pm.last_nonce] = Never \/ handed[pm.last_nonce] <= last_update_time
        BY DEF PuzzleInv, TimeInv
      <4>3. \A h \in Int : h <= last_update_time => now - h > RefreshTime
        BY <1>t, <1>c, <2>1
      <4> QED
        BY <4>1, <4>2, <4>3
    <3>10. \A n \in Nonces :
             ~KnownNonce(pm', n) => handed[n] = Never \/ now - handed[n] > RefreshTime
      BY <3>8, <3>9 DEF PuzzleInv, TimeInv
    <3>11. TimeInv'
      BY <1>t, <3>1, <3>10 DEF PuzzleInv, TimeInv
    <3> QED
      BY <3>3, <3>4, <3>6, <3>11 DEF PuzzleInv
  <2>2. CASE ~(now - last_update_time > RefreshTime)
    <3>1. ticked' = TRUE /\ UNCHANGED <<pm, last_update_time, born, drawn, now, handed, accepts>>
      BY <1>3, <2>2 DEF tick
    <3> QED
      BY <3>1 DEF PuzzleInv, TypeOK, NonceInv, TableInv, AcceptedOnce, TimeInv, KnownNonce
  <2> QED
    BY <2>1, <2>2
<1>4. CASE HandOut
  <2>1. /\ handed' = [handed EXCEPT ![pm.current_nonce] = now]
        /\ UNCHANGED <<pm, last_update_time, now, drawn, born, ticked, accepts>>
    BY <1>4 DEF HandOut
  <2>2. /\ handed' \in [Nonces -> Int]
        /\ \A n \in Nonces : n # pm.current_nonce => handed'[n] = handed[n]
        /\ handed'[pm.current_nonce] = now
    BY <1>t, <2>1
  <2>3. TypeOK'
    BY <2>1, <2>2 DEF PuzzleInv, TypeOK
  <2>4. \A n \in Nonces : n >= drawn => n # pm.current_nonce
    BY <1>t DEF PuzzleInv, NonceInv, Nonces
  <2>5. NonceInv'
    BY <2>1, <2>2, <2>4 DEF PuzzleInv, NonceInv
  <2>6. TableInv' /\ AcceptedOnce'
    BY <2>1 DEF PuzzleInv, TableInv, AcceptedOnce
  <2>7. now <= now
    BY <1>t
  <2>8. pm.last_nonce # pm.current_nonce
    BY DEF PuzzleInv, NonceInv
  <2>9. TimeInv'
    BY <1>t, <2>1, <2>2, <2>7, <2>8 DEF PuzzleInv, TimeInv, KnownNonce
  <2> QED
    BY <2>3, <2>5, <2>6, <2>9 DEF PuzzleInv
<1>5. ASSUME NEW c \in ClientNonces, NEW n \in 0 .. drawn - 1, NEW d \in BOOLEAN,
             NEW s \in BOOLEAN, Submit(c, n, d, s)
      PROVE  PuzzleInv'
  <2>1. /\ KnownNonce(pm, n) /\ c \notin TableOf(pm, n)
        /\ pm' = AddNonce(pm, c, n)
        /\ accepts' = [accepts EXCEPT ![<<n, c>>] = @ + 1]
        /\ UNCHANGED <<last_update_time, now, drawn, handed, born, ticked>>
    BY <1>5 DEF Submit, check_solution, check_add
  <2>2. n \in Nonces /\ n < drawn
    BY <1>t, <1>c DEF Nonces
  <2>3. accepts[<<n, c>>] = 0
    <3>1. accepts[<<n, c>>] \in Nat
      BY <1>t, <2>2
    <3>2. ~(accepts[<<n, c>>] > 0)
      BY <2>1 DEF PuzzleInv, TableInv, KnownNonce, TableOf
    <3> QED
      BY <3>1, <3>2
  <2>4. /\ accepts' \in [Nonces \X ClientNonces -> Nat]
        /\ accepts'[<<n, c>>] = 1
        /\ \A p \in Nonces \X ClientNonces : p # <<n, c>> => accepts'[p] = accepts[p]
    BY <1>t, <2>1, <2>2, <2>3
  <2>5. /\ pm' \in [current_nonce : Nonces, last_nonce : Nonces,
                    current_nonce_table : SUBSET ClientNonces,
                    last_nonce_table : SUBSET ClientNonces]
        /\ pm'.current_nonce = pm.current_nonce /\ pm'.last_nonce = pm.last_nonce
    BY <1>t, <2>1 DEF AddNonce
  <2>6. /\ pm.current_nonce_table \subseteq pm'.current_nonce_table
        /\ pm.last_nonce_table \subseteq pm'.last_nonce_table
        /\ n = pm.current_nonce => c \in pm'.current_nonce_table
        /\ n = pm.last_nonce => c \in pm'.last_nonce_table
    BY <1>t, <2>1 DEF AddNonce, PuzzleInv, NonceInv
  <2>7. TypeOK'
    BY <2>1, <2>4, <2>5 DEF PuzzleInv, TypeOK
  <2>8. NonceInv'
    <3>1. \A m \in Nonces, b \in ClientNonces : m >= drawn => <<m, b>> # <<n, c>>
      BY <2>2, <1>t DEF Nonces
    <3> QED
      BY <2>1, <2>4, <2>5, <3>1 DEF PuzzleInv, NonceInv
  <2>9. TableInv'
    <3> SUFFICES ASSUME NEW b \in ClientNonces
                 PROVE  /\ accepts'[<<pm.current_nonce, b>>] > 0 => b \in pm'.current_nonce_table
                        /\ accepts'[<<pm.last_nonce, b>>] > 0 => b \in pm'.last_nonce_table
      BY <2>5 DEF TableInv
    <3>1. accepts'[<<pm.current_nonce, b>>] > 0 => b \in pm'.current_nonce_table
      BY <1>t, <2>4, <2>6 DEF PuzzleInv, TableInv
    <3>2. accepts'[<<pm.last_nonce, b>>] > 0 => b \in pm'.last_nonce_table
      BY <1>t, <2>4, <2>6 DEF PuzzleInv, TableInv
    <3> QED
      BY <3>1, <3>2
  <2>10. AcceptedOnce'
    BY <2>4 DEF PuzzleInv, AcceptedOnce
  <2>11. TimeInv'
    BY <2>1, <2>5 DEF PuzzleInv, TimeInv, KnownNonce
  <2> QED
    BY <2>7, <2>8, <2>9, <2>10, <2>11 DEF PuzzleInv
<1> QED
  BY <1>1, <1>2, <1>3, <1>4, <1>5 DEF Next

\* No copy of a connect request is accepted a second time.
THEOREM SolutionUsedOnce == Spec => [](TypeOK /\ AcceptedOnce)
<1>1. PuzzleInv => TypeOK /\ AcceptedOnce
  BY DEF PuzzleInv
<1> QED
  BY <1>1, PuzzleInit, PuzzleStep, PTL DEF Spec

\* Type correctness of the nonces, their tables and the times.
THEOREM PuzzleTypeCorrect == Spec => []TypeOK
BY SolutionUsedOnce, PTL

\* A nonce handed out no longer ago than the refresh interval is still known.
THEOREM NonceOutlivesPuzzle == Spec => []GracePeriod
<1>1. PuzzleInv => GracePeriod
  <2> SUFFICES ASSUME PuzzleInv, NEW n \in Nonces, handed[n] # Never,
                      now - handed[n] <= RefreshTime
               PROVE  KnownNonce(pm, n)
    BY DEF GracePeriod
  <2>1. handed[n] \in Int /\ now \in Int /\ RefreshTime \in Int
    BY PuzzleAssumption DEF PuzzleInv, TypeOK
  <2>2. ~(now - handed[n] > RefreshTime)
    BY <2>1
  <2> QED
    BY <2>2 DEF PuzzleInv, TimeInv
<1> QED
  BY <1>1, PuzzleInit, PuzzleStep, PTL DEF Spec
=============================================================================
