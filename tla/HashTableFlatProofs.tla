------------------------ MODULE HashTableFlatProofs ------------------------
(***************************************************************************)
(* Theorems about HashTableFlat: for every set of keys, every hash and     *)
(* every list of sizes that grows as the code's does, growth and removal   *)
(* keep the count exact and a gap in the table, and the table keeps to     *)
(* what LookupTable says of its calls.                                     *)
(*                                                                         *)
(* The loops of the code are recursive functions.  What a loop computes is *)
(* shown by induction on its turns, in the form the provers can use: a set *)
(* that holds 0 and, with each number, the next one, holds every number.   *)
(***************************************************************************)
EXTENDS HashTableFlat, FiniteSetTheorems, TLAPS

-----------------------------------------------------------------------------
(* Induction on the natural numbers, with a set in place of a predicate. *)

\* A set that has 0 and is closed under successor has every natural number: were n
\* not in it, adding 1 would be an injection of its part below n into itself that
\* misses 0.
LEMMA SetInduction ==
    ASSUME NEW S, 0 \in S, \A m \in Nat : m \in S => m + 1 \in S
    PROVE  \A m \in Nat : m \in S
<1> SUFFICES ASSUME NEW n \in Nat, n \notin S PROVE FALSE
  OBVIOUS
<1> DEFINE A == {k \in 0 .. n : k \in S}
           f == [k \in A |-> k + 1]
<1>1. IsFiniteSet(A)
  <2>1. IsFiniteSet(0 .. n)
    BY FS_Interval
  <2> QED
    BY <2>1, FS_Subset
<1>2. f \in [A -> A]
  OBVIOUS
<1>3. f \in Injection(A, A)
  BY <1>2, SMT DEF Injection, IsInjective
<1>4. 0 \in A /\ \A k \in A : f[k] # 0
  OBVIOUS
<1>5. f \in Surjection(A, A)
  <2> HIDE DEF f, A
  <2> QED
    BY <1>1, <1>3, FS_Injection
<1>6. \E k \in A : f[k] = 0
  <2> HIDE DEF f, A
  <2> QED
    BY <1>4, <1>5 DEF Surjection
<1> QED
  BY <1>4, <1>6

\* A set of natural numbers with an element has a least one.
LEMMA LeastElement ==
    ASSUME NEW S \in SUBSET Nat, S # {}
    PROVE  \E m \in S : \A x \in S : m <= x
<1> SUFFICES ASSUME \A m \in S : \E x \in S : x < m PROVE FALSE
  OBVIOUS
<1> DEFINE T == {m \in Nat : \A x \in S : m < x}
<1>1. 0 \in T
  OBVIOUS
<1>2. ASSUME NEW m \in Nat, m \in T PROVE m + 1 \in T
  BY <1>2
<1>3. \A m \in Nat : m \in T
  <2> HIDE DEF T
  <2> QED
    BY <1>1, <1>2, SetInduction
<1>4. PICK s \in S : TRUE
  OBVIOUS
<1> QED
  BY <1>3, <1>4

\* The states of a loop of N turns, from s, over states of T: F gives the next state
\* from the number of the turn and the state before it.
IsHistory(g, N, T, s, F) ==
    /\ g \in [0 .. N -> T]
    /\ g = [i \in 0 .. N |-> IF i = 0 THEN s ELSE F[<<i, g[i - 1]>>]]

\* Every such loop has a history.
LEMMA LoopHistory ==
    ASSUME NEW N \in Nat, NEW T, NEW s \in T, NEW F \in [(1 .. N) \X T -> T]
    PROVE  \E g : IsHistory(g, N, T, s, F)
<1> DEFINE Hist(n, g) == /\ g \in [0 .. n -> T]
                         /\ g[0] = s
                         /\ \A i \in 1 .. n : g[i] = F[<<i, g[i - 1]>>]
           S == {n \in Nat : n <= N => \E g : Hist(n, g)}
<1>1. 0 \in S
  <2>1. Hist(0, [i \in 0 .. 0 |-> s])
    OBVIOUS
  <2> QED
    BY <2>1
<1>2. ASSUME NEW n \in Nat, n \in S PROVE n + 1 \in S
  <2> SUFFICES ASSUME n + 1 <= N PROVE \E g : Hist(n + 1, g)
    OBVIOUS
  <2>1. PICK g : Hist(n, g)
    BY <1>2
  <2> DEFINE x == F[<<n + 1, g[n]>>]
             h == [i \in 0 .. n + 1 |-> IF i = n + 1 THEN x ELSE g[i]]
  <2>2. g[n] \in T
    BY <2>1
  <2>3. x \in T
    BY <2>2
  <2>4. h \in [0 .. n + 1 -> T]
    <3> HIDE DEF x
    <3> QED
      BY <2>1, <2>3
  <2>5. h[0] = s
    BY <2>1
  <2>6. ASSUME NEW i \in 1 .. n + 1 PROVE h[i] = F[<<i, h[i - 1]>>]
    <3>1. CASE i = n + 1
      <4>1. h[i] = x /\ h[i - 1] = g[n] /\ i - 1 = n
        BY <3>1
      <4> QED
        BY <4>1, <3>1
    <3>2. CASE i # n + 1
      <4>1. h[i] = g[i] /\ h[i - 1] = g[i - 1] /\ i \in 1 .. n
        BY <3>2
      <4>2. g[i] = F[<<i, g[i - 1]>>]
        BY <4>1, <2>1
      <4> QED
        BY <4>1, <4>2
    <3> QED
      BY <3>1, <3>2
  <2> HIDE DEF h
  <2> QED
    BY <2>4, <2>5, <2>6
<1>3. N \in S
  <2> HIDE DEF S
  <2> QED
    BY <1>1, <1>2, SetInduction
<1>4. PICK g : Hist(N, g)
  BY <1>3
<1>5. g = [i \in 0 .. N |-> IF i = 0 THEN s ELSE F[<<i, g[i - 1]>>]]
  <2>1. g = [i \in 0 .. N |-> g[i]]
    BY <1>4
  <2>2. \A i \in 0 .. N : g[i] = IF i = 0 THEN s ELSE F[<<i, g[i - 1]>>]
    BY <1>4
  <2> QED
    BY <2>1, <2>2
<1> QED
  BY <1>4, <1>5 DEF IsHistory

-----------------------------------------------------------------------------
(* Buckets and probes. *)

\* The numbers x modulo n that a probe computes.
LEMMA Modulo ==
    ASSUME NEW n \in Nat \ {0}, NEW x \in Nat
    PROVE  /\ x % n \in Buckets(n)
           /\ x < n => x % n = x
           /\ n <= x /\ x < 2 * n => x % n = x - n
  BY DEF Buckets

\* From one bucket every bucket is one distance away.
LEMMA Distance ==
    ASSUME NEW n \in Nat \ {0}, NEW s \in Buckets(n), NEW b \in Buckets(n)
    PROVE  \E d \in Buckets(n) : (s + d) % n = b
<1>1. CASE s <= b
  <2>1. b - s \in Buckets(n) /\ s + (b - s) = b /\ b \in Nat /\ b < n
    BY <1>1 DEF Buckets
  <2>2. b % n = b
    BY <2>1, Modulo
  <2> QED
    BY <2>1, <2>2
<1>2. CASE b < s
  <2>1. /\ (n + b) - s \in Buckets(n) /\ s + ((n + b) - s) = n + b
        /\ n + b \in Nat /\ n <= n + b /\ n + b < 2 * n /\ (n + b) - n = b
    BY <1>2 DEF Buckets
  <2>2. (n + b) % n = b
    BY <2>1, Modulo
  <2> QED
    BY <2>1, <2>2
<1> QED
  BY <1>1, <1>2 DEF Buckets

LEMMA DistanceUnique ==
    ASSUME NEW n \in Nat \ {0}, NEW s \in Buckets(n), NEW d \in Buckets(n), NEW e \in Buckets(n),
           (s + d) % n = (s + e) % n
    PROVE  d = e
<1>1. s + d \in Nat /\ s + e \in Nat /\ s + d < 2 * n /\ s + e < 2 * n
  BY DEF Buckets
<1>a. ASSUME NEW x \in Nat, x < 2 * n PROVE x % n = IF x < n THEN x ELSE x - n
  <2>1. n <= x \/ x < n
    OBVIOUS
  <2> QED
    BY <1>a, <2>1, Modulo
<1>2. (s + d) % n = IF s + d < n THEN s + d ELSE (s + d) - n
  BY <1>1, <1>a
<1>3. (s + e) % n = IF s + e < n THEN s + e ELSE (s + e) - n
  BY <1>1, <1>a
<1> QED
  BY <1>1, <1>2, <1>3 DEF Buckets

\* A probe for a set with a bucket in it ends at the first of them on its way.
LEMMA ProbeEnds ==
    ASSUME NEW n \in Nat \ {0}, NEW s \in Buckets(n), NEW B, B \cap Buckets(n) # {}
    PROVE  \E d \in Buckets(n) :
               /\ FirstBucket(n, s, B) = (s + d) % n
               /\ FirstBucket(n, s, B) \in B \cap Buckets(n)
               /\ \A e \in Buckets(d) : (s + e) % n \notin B
<1> DEFINE S == {d \in Buckets(n) : (s + d) % n \in B}
           Q(d) == (s + d) % n \in B /\ \A e \in Buckets(d) : (s + e) % n \notin B
           c == CHOOSE d \in Buckets(n) : Q(d)
<1>1. S # {} /\ S \in SUBSET Nat
  <2>1. PICK b \in Buckets(n) : b \in B
    OBVIOUS
  <2>2. PICK d \in Buckets(n) : (s + d) % n = b
    BY Distance
  <2>3. Buckets(n) \subseteq Nat
    BY DEF Buckets
  <2> QED
    BY <2>1, <2>2, <2>3
<1>2. PICK d \in S : \A x \in S : d <= x
  <2> HIDE DEF S
  <2> QED
    BY <1>1, LeastElement
<1>3. Q(d) /\ d \in Buckets(n)
  <2>1. d \in Buckets(n) /\ (s + d) % n \in B
    BY <1>2
  <2>2. ASSUME NEW e \in Buckets(d) PROVE (s + e) % n \notin B
    <3>1. e \in Buckets(n) /\ ~(d <= e)
      BY <2>1 DEF Buckets
    <3> QED
      BY <3>1, <1>2
  <2> QED
    BY <2>1, <2>2
<1>4. c \in Buckets(n) /\ Q(c)
  <2> HIDE DEF Q
  <2> QED
    BY <1>3
<1>5. FirstBucket(n, s, B) = (s + c) % n
  BY DEF FirstBucket
<1>6. (s + c) % n \in Buckets(n)
  <2> HIDE DEF c
  <2>1. s + c \in Nat
    BY <1>4 DEF Buckets
  <2> QED
    BY <2>1, Modulo
<1> HIDE DEF c
<1> QED
  BY <1>4, <1>5, <1>6

LEMMA HomeBucketType ==
    ASSUME NEW n \in Nat \ {0}, NEW k \in Keys
    PROVE  HomeBucket(k, n) \in Buckets(n)
<1>1. Hash[k] \in Nat
  BY HashAssumption
<1>2. Hash[k] % n \in Buckets(n)
  BY <1>1, Modulo
<1>3. 0 \in Buckets(n)
  BY DEF Buckets
<1> QED
  BY <1>1, <1>2, <1>3 DEF HomeBucket, looping_counter

-----------------------------------------------------------------------------
(* Tables: their entries are distinct, and reached from their home buckets. *)

Entry == [is_valid : {TRUE}, key : Keys, value : Nat]
Table(n) == [Buckets(n) -> Entry \cup {Empty}]

\* No two buckets hold entries of one insertion.
Distinct(t) == \A a, b \in Valid(t) : t[a].value = t[b].value => a = b

\* No gap lies between the home bucket of an entry and its bucket.
Reached(t, n) ==
    \A b \in Valid(t), d \in Buckets(n) :
        (HomeBucket(t[b].key, n) + d) % n = b
            => \A e \in Buckets(d) : (HomeBucket(t[b].key, n) + e) % n \in Valid(t)

LEMMA SlotKinds ==
    ASSUME NEW n \in Nat, NEW t \in Table(n)
    PROVE  /\ DOMAIN t = Buckets(n)
           /\ Valid(t) \cap Gaps(t) = {} /\ Valid(t) \cup Gaps(t) = Buckets(n)
           /\ \A b \in Valid(t) : t[b] \in Entry
           /\ \A b \in Gaps(t) : t[b] = Empty
<1>1. DOMAIN t = Buckets(n)
  BY DEF Table
<1>2. \A b \in Buckets(n) : t[b] \in Entry \/ t[b] = Empty
  BY DEF Table
<1>3. \A x \in Entry : x.is_valid = TRUE
  BY DEF Entry
<1>4. Empty.is_valid = FALSE
  BY DEF Empty
<1> HIDE DEF Entry, Empty
<1> QED
  BY <1>1, <1>2, <1>3, <1>4 DEF Valid, Gaps

LEMMA EmptyTableOK ==
    ASSUME NEW n \in Nat
    PROVE  /\ EmptyTable(n) \in Table(n)
           /\ Valid(EmptyTable(n)) = {}
           /\ Stored(EmptyTable(n)) = {}
           /\ Distinct(EmptyTable(n))
           /\ Reached(EmptyTable(n), n)
<1>1. EmptyTable(n) \in Table(n)
  BY DEF EmptyTable, Table
<1>2. Valid(EmptyTable(n)) = {}
  BY DEF EmptyTable, Valid, Empty
<1> QED
  BY <1>1, <1>2 DEF Stored, Distinct, Reached

\* Distinct entries are as many as the buckets that hold them.
LEMMA CountStored ==
    ASSUME NEW n \in Nat, NEW t \in Table(n), Distinct(t)
    PROVE  /\ IsFiniteSet(Valid(t)) /\ IsFiniteSet(Stored(t))
           /\ Cardinality(Stored(t)) = Cardinality(Valid(t))
           /\ Cardinality(Valid(t)) \in Nat
<1> DEFINE f == [b \in Valid(t) |-> t[b]]
<1>1. IsFiniteSet(Valid(t))
  <2>1. IsFiniteSet(Buckets(n))
    BY FS_Interval DEF Buckets
  <2>2. Valid(t) \subseteq Buckets(n)
    BY SlotKinds
  <2> QED
    BY <2>1, <2>2, FS_Subset
<1>2. f \in Bijection(Valid(t), Stored(t))
  <2>1. f \in [Valid(t) -> Stored(t)] /\ \A x \in Stored(t) : \E b \in Valid(t) : f[b] = x
    BY DEF Stored
  <2>2. \A a, b \in Valid(t) : f[a] = f[b] => a = b
    BY DEF Distinct
  <2> HIDE DEF f
  <2> QED
    BY <2>1, <2>2 DEF Bijection, Injection, Surjection, IsInjective
<1>3. ExistsBijection(Valid(t), Stored(t))
  BY <1>2 DEF ExistsBijection
<1> QED
  BY <1>1, <1>3, FS_Bijection, FS_CardinalityType

\* A table with fewer entries than buckets has a gap.
LEMMA GapLeft ==
    ASSUME NEW n \in Nat, NEW t \in Table(n), Cardinality(Valid(t)) < n
    PROVE  Gaps(t) # {}
<1> SUFFICES ASSUME Gaps(t) = {} PROVE FALSE
  OBVIOUS
<1>1. Valid(t) = 0 .. n - 1
  BY SlotKinds DEF Buckets
<1>2. Cardinality(0 .. n - 1) = n
  BY FS_Interval
<1> QED
  BY <1>1, <1>2

Fill(t, b, x) == [t EXCEPT ![b] = x]

\* No entry of the table is of the insertion of x.
Fresh(t, x) == \A y \in Stored(t) : y.value # x.value

\* A new entry in a gap.
LEMMA FillGap ==
    ASSUME NEW n \in Nat, NEW t \in Table(n), Distinct(t), NEW b \in Gaps(t), NEW x \in Entry,
           Fresh(t, x)
    PROVE  /\ Fill(t, b, x) \in Table(n) /\ Distinct(Fill(t, b, x))
           /\ Valid(Fill(t, b, x)) = Valid(t) \cup {b}
           /\ Stored(Fill(t, b, x)) = Stored(t) \cup {x}
<1> DEFINE u == Fill(t, b, x)
<1>1. DOMAIN t = Buckets(n) /\ b \in Buckets(n) /\ b \notin Valid(t) /\ x.is_valid
  BY SlotKinds DEF Entry, Gaps, Valid
<1>2. /\ DOMAIN u = Buckets(n) /\ u[b] = x
      /\ \A a \in Buckets(n) : a # b => u[a] = t[a]
  BY <1>1 DEF Fill
<1>3. u \in Table(n)
  <2> HIDE DEF Entry
  <2> QED
    BY <1>1 DEF Table, Fill
<1> HIDE DEF u
<1>4. Valid(u) = Valid(t) \cup {b}
  BY <1>1, <1>2 DEF Valid
<1>5. \A a \in Valid(t) : a # b /\ u[a] = t[a] /\ t[a] \in Stored(t)
  BY <1>1, <1>2 DEF Valid, Stored
<1>6. Stored(u) = Stored(t) \cup {x}
  <2>1. ASSUME NEW y \in Stored(u) PROVE y \in Stored(t) \cup {x}
    <3>1. PICK a \in Valid(u) : y = u[a]
      BY DEF Stored
    <3> QED
      BY <3>1, <1>2, <1>4, <1>5
  <2>2. ASSUME NEW y \in Stored(t) PROVE y \in Stored(u)
    <3>1. PICK a \in Valid(t) : y = t[a]
      BY DEF Stored
    <3>2. a \in Valid(u) /\ y = u[a]
      BY <3>1, <1>4, <1>5
    <3> QED
      BY <3>2 DEF Stored
  <2>3. b \in Valid(u) /\ x = u[b]
    BY <1>2, <1>4
  <2>4. x \in Stored(u)
    BY <2>3 DEF Stored
  <2> QED
    BY <2>1, <2>2, <2>4
<1>7. Distinct(u)
  BY <1>2, <1>4, <1>5 DEF Distinct, Fresh
<1> QED
  BY <1>3, <1>4, <1>6, <1>7 DEF u

\* An entry taken out of its bucket.
LEMMA ClearBucket ==
    ASSUME NEW n \in Nat, NEW t \in Table(n), Distinct(t), NEW b \in Valid(t)
    PROVE  /\ Fill(t, b, Empty) \in Table(n) /\ Distinct(Fill(t, b, Empty))
           /\ Gaps(Fill(t, b, Empty)) = Gaps(t) \cup {b}
           /\ Stored(Fill(t, b, Empty)) = Stored(t) \ {t[b]}
           /\ Fresh(Fill(t, b, Empty), t[b])
<1> DEFINE u == Fill(t, b, Empty)
<1>1. DOMAIN t = Buckets(n) /\ b \in Buckets(n) /\ b \notin Gaps(t) /\ ~Empty.is_valid
  BY SlotKinds DEF Empty, Gaps, Valid
<1>2. /\ DOMAIN u = Buckets(n) /\ u[b] = Empty
      /\ \A a \in Buckets(n) : a # b => u[a] = t[a]
  BY <1>1 DEF Fill
<1>3. u \in Table(n)
  <2> HIDE DEF Entry, Empty
  <2> QED
    BY <1>1 DEF Table, Fill
<1> HIDE DEF u
<1>4. Valid(u) = Valid(t) \ {b} /\ Gaps(u) = Gaps(t) \cup {b}
  BY <1>1, <1>2 DEF Valid, Gaps
<1>5. \A a \in Valid(t) : a # b => u[a] = t[a] /\ t[a] # t[b] /\ t[a].value # t[b].value
  BY <1>1, <1>2 DEF Valid, Distinct
<1>6. Stored(u) = Stored(t) \ {t[b]} /\ \A y \in Stored(u) : y.value # t[b].value
  <2>1. ASSUME NEW y \in Stored(u)
        PROVE  y \in Stored(t) /\ y # t[b] /\ y.value # t[b].value
    <3>1. PICK a \in Valid(u) : y = u[a]
      BY DEF Stored
    <3>2. a \in Valid(t) /\ y = t[a] /\ y # t[b] /\ y.value # t[b].value
      BY <3>1, <1>4, <1>5
    <3> QED
      BY <3>2 DEF Stored
  <2>2. ASSUME NEW y \in Stored(t), y # t[b] PROVE y \in Stored(u)
    <3>1. PICK a \in Valid(t) : y = t[a]
      BY DEF Stored
    <3>2. a \in Valid(u) /\ y = u[a]
      BY <3>1, <2>2, <1>4, <1>5
    <3> QED
      BY <3>2 DEF Stored
  <2> QED
    BY <2>1, <2>2
<1>7. Distinct(u)
  BY <1>2, <1>4, <1>5 DEF Distinct
<1> QED
  BY <1>3, <1>4, <1>6, <1>7 DEF u, Fresh

\* Put fills the first gap on the way from the home bucket of the entry.
LEMMA PutOK ==
    ASSUME NEW n \in Nat \ {0}, NEW t \in Table(n), Distinct(t), Gaps(t) # {}, NEW x \in Entry, Fresh(t, x)
    PROVE  /\ Put(t, n, x) \in Table(n) /\ Distinct(Put(t, n, x))
           /\ Stored(Put(t, n, x)) = Stored(t) \cup {x}
           /\ Reached(t, n) => Reached(Put(t, n, x), n)
<1> DEFINE h == HomeBucket(x.key, n)
           b == _insert_in_table(t, n, x.key)
           u == Put(t, n, x)
<1>1. x.key \in Keys
  BY DEF Entry
<1>2. h \in Buckets(n)
  BY <1>1, HomeBucketType
<1>3. Gaps(t) \subseteq Buckets(n) /\ Gaps(t) \cap Buckets(n) # {}
  BY SlotKinds
<1>4. PICK d \in Buckets(n) :
         /\ b = (h + d) % n
         /\ b \in Gaps(t)
         /\ \A e \in Buckets(d) : (h + e) % n \notin Gaps(t)
  <2> HIDE DEF h
  <2>1. b = FirstBucket(n, h, Gaps(t))
    BY DEF _insert_in_table, h
  <2> HIDE DEF b
  <2> QED
    BY <1>2, <1>3, <2>1, ProbeEnds
<1>5. u = Fill(t, b, x)
  BY DEF Put, Fill
<1>6. /\ u \in Table(n) /\ Distinct(u)
      /\ Valid(u) = Valid(t) \cup {b}
      /\ Stored(u) = Stored(t) \cup {x}
  <2>1. b \in Gaps(t) /\ n \in Nat
    BY <1>4
  <2> HIDE DEF u, b
  <2> QED
    BY <2>1, <1>5, FillGap
<1>7. ASSUME Reached(t, n) PROVE Reached(u, n)
  <2> HIDE DEF u, b, h
  <2>1. b \notin Valid(t) /\ b \in Buckets(n) /\ DOMAIN t = Buckets(n)
    BY <1>4, SlotKinds
  <2>2. u[b] = x /\ \A a \in Valid(t) : u[a] = t[a]
    BY <1>5, <2>1 DEF Valid, Fill
  <2> SUFFICES ASSUME NEW a \in Valid(u), NEW c \in Buckets(n),
                      (HomeBucket(u[a].key, n) + c) % n = a, NEW e \in Buckets(c)
               PROVE  (HomeBucket(u[a].key, n) + e) % n \in Valid(u)
    BY DEF Reached
  <2>3. CASE a = b
    <3>1. u[a].key = x.key
      BY <2>2, <2>3
    <3>2. HomeBucket(u[a].key, n) = h
      BY <3>1 DEF h
    <3>3. c = d
      BY <3>2, <2>3, <1>2, <1>4, DistanceUnique
    <3>4. (h + e) % n \notin Gaps(t)
      BY <3>3, <1>4
    <3>5. h + e \in Nat
      BY <1>2 DEF Buckets
    <3>6. (h + e) % n \in Buckets(n)
      BY <3>5, Modulo
    <3> QED
      BY <3>2, <3>4, <3>6, <1>6, SlotKinds
  <2>4. CASE a # b
    <3>1. a \in Valid(t) /\ u[a] = t[a]
      BY <2>2, <2>4, <1>6
    <3>2. (HomeBucket(t[a].key, n) + e) % n \in Valid(t)
      BY <3>1, <1>7 DEF Reached
    <3> QED
      BY <3>1, <3>2, <1>6
  <2> QED
    BY <2>3, <2>4
<1> QED
  BY <1>6, <1>7

\* Put keeps the type of a table even where no bucket is free.
LEMMA PutType ==
    ASSUME NEW n \in Nat, NEW t \in Table(n), NEW x \in Entry
    PROVE  Put(t, n, x) \in Table(n)
<1> DEFINE b == _insert_in_table(t, n, x.key)
<1>1. Put(t, n, x) = [t EXCEPT ![b] = x]
  BY DEF Put
<1> HIDE DEF b
<1> QED
  BY <1>1 DEF Table

-----------------------------------------------------------------------------
(* The loop that fills a new table with the entries of the old one. *)

\* The entries of the buckets before bucket i.
StoredBefore(t, i) == {t[b] : b \in {c \in Valid(t) : c < i}}

\* Growth: the new table holds the entries of the old one, each reached from its home
\* bucket, however they were stored before.
LEMMA RehashOK ==
    ASSUME table_size \in Nat, table \in Table(table_size), Distinct(table),
           NEW n \in Nat \ {0}, Cardinality(Valid(table)) < n
    PROVE  /\ Rehash(n) \in Table(n) /\ Distinct(Rehash(n))
           /\ Stored(Rehash(n)) = Stored(table)
           /\ Reached(Rehash(n), n)
<1> DEFINE N == table_size
           T == Table(n)
           Step(i, t) == IF table[i - 1].is_valid THEN Put(t, n, table[i - 1]) ELSE t
           F == [x \in (1 .. N) \X T |-> Step(x[1], x[2])]
           m == CHOOSE g : g = [i \in 0 .. N |-> IF i = 0 THEN EmptyTable(n) ELSE Step(i, g[i - 1])]
           Inv(i) == /\ m[i] \in T /\ Distinct(m[i]) /\ Reached(m[i], n)
                     /\ Stored(m[i]) = StoredBefore(table, i)
           S == {i \in Nat : i <= N => Inv(i)}
<1>1. Rehash(n) = m[N]
  BY DEF Rehash
<1>2. ASSUME NEW i \in 1 .. N
      PROVE  /\ i - 1 \in Buckets(table_size)
             /\ table[i - 1].is_valid <=> i - 1 \in Valid(table)
             /\ table[i - 1].is_valid => table[i - 1] \in Entry
  <2>1. i - 1 \in Buckets(table_size)
    BY DEF Buckets
  <2>2. table[i - 1].is_valid <=> i - 1 \in Valid(table)
    BY <2>1, SlotKinds DEF Valid
  <2> QED
    BY <2>1, <2>2, SlotKinds
<1>3. ASSUME NEW i \in 1 .. N, NEW t \in T PROVE Step(i, t) \in T
  <2>1. n \in Nat
    OBVIOUS
  <2> QED
    BY <1>2, <2>1, PutType
<1>4. m = [i \in 0 .. N |-> IF i = 0 THEN EmptyTable(n) ELSE Step(i, m[i - 1])]
  <2> HIDE DEF Step, T, m
  <2>1. F \in [(1 .. N) \X T -> T]
    BY <1>3
  <2>2. \A i \in 1 .. N, t \in T : F[<<i, t>>] = Step(i, t)
    OBVIOUS
  <2>3. EmptyTable(n) \in T
    BY EmptyTableOK DEF T
  <2> HIDE DEF F
  <2>4. PICK g : IsHistory(g, N, T, EmptyTable(n), F)
    BY <2>1, <2>3, LoopHistory
  <2>5. \A i \in 0 .. N : i # 0 => F[<<i, g[i - 1]>>] = Step(i, g[i - 1])
    <3> SUFFICES ASSUME NEW i \in 0 .. N, i # 0 PROVE F[<<i, g[i - 1]>>] = Step(i, g[i - 1])
      OBVIOUS
    <3>1. i \in 1 .. N /\ i - 1 \in 0 .. N
      OBVIOUS
    <3>2. g[i - 1] \in T
      BY <3>1, <2>4 DEF IsHistory
    <3> QED
      BY <3>1, <3>2, <2>2
  <2>6. g = [i \in 0 .. N |-> IF i = 0 THEN EmptyTable(n) ELSE Step(i, g[i - 1])]
    BY <2>4, <2>5 DEF IsHistory
  <2> QED
    BY <2>6 DEF m
<1>5. m[0] = EmptyTable(n)
  <2> HIDE DEF m, Step
  <2> QED
    BY <1>4
<1>6. \A i \in 1 .. N : m[i] = Step(i, m[i - 1])
  <2> HIDE DEF m, Step
  <2> QED
    BY <1>4
<1> HIDE DEF m
<1>7. 0 \in S
  <2>1. StoredBefore(table, 0) = {}
    BY SlotKinds DEF StoredBefore, Buckets
  <2>2. Inv(0)
    BY <1>5, <2>1, EmptyTableOK
  <2> QED
    BY <2>2
<1>8. ASSUME NEW j \in Nat, j \in S PROVE j + 1 \in S
  <2> SUFFICES ASSUME j + 1 <= N PROVE Inv(j + 1)
    OBVIOUS
  <2>1. Inv(j)
    BY <1>8
  <2>2. j + 1 \in 1 .. N /\ (j + 1) - 1 = j
    OBVIOUS
  <2>3. m[j + 1] = IF table[j].is_valid THEN Put(m[j], n, table[j]) ELSE m[j]
    BY <1>6, <2>2
  <2>4. /\ table[j].is_valid <=> j \in Valid(table)
        /\ table[j].is_valid => table[j] \in Entry
    BY <1>2, <2>2
  <2>5. Valid(table) \subseteq Nat
    BY SlotKinds DEF Buckets
  <2>6. CASE ~table[j].is_valid
    <3>1. {c \in Valid(table) : c < j} = {c \in Valid(table) : c < j + 1}
      BY <2>4, <2>5, <2>6
    <3>2. StoredBefore(table, j + 1) = StoredBefore(table, j)
      BY <3>1 DEF StoredBefore
    <3> QED
      BY <2>1, <2>3, <2>6, <3>2
  <2>7. CASE table[j].is_valid
    <3>1. j \in Valid(table) /\ table[j] \in Entry
      BY <2>4, <2>7
    <3>2. StoredBefore(table, j + 1) = StoredBefore(table, j) \cup {table[j]}
      <4>1. {c \in Valid(table) : c < j + 1} = {c \in Valid(table) : c < j} \cup {j}
        BY <2>5, <3>1
      <4> QED
        BY <4>1 DEF StoredBefore
    <3>3. Fresh(m[j], table[j])
      <4> SUFFICES ASSUME NEW y \in StoredBefore(table, j) PROVE y.value # table[j].value
        BY <2>1 DEF Fresh
      <4>1. PICK b \in Valid(table) : b < j /\ y = table[b]
        BY DEF StoredBefore
      <4>2. b # j
        BY <4>1, <2>5
      <4> QED
        BY <4>1, <4>2, <3>1 DEF Distinct
    <3>4. Gaps(m[j]) # {}
      <4>1. StoredBefore(table, j) \subseteq Stored(table)
        BY DEF StoredBefore, Stored
      <4>2. /\ IsFiniteSet(Stored(table)) /\ Cardinality(Stored(table)) = Cardinality(Valid(table))
            /\ Cardinality(Valid(table)) \in Nat
        BY CountStored
      <4>3. Cardinality(StoredBefore(table, j)) <= Cardinality(Valid(table))
        BY <4>1, <4>2, FS_Subset
      <4>4. /\ Cardinality(Stored(m[j])) = Cardinality(Valid(m[j]))
            /\ Cardinality(Valid(m[j])) \in Nat
        BY <2>1, CountStored
      <4>5. Cardinality(Valid(m[j])) <= Cardinality(Valid(table))
        BY <2>1, <4>3, <4>4
      <4>6. Cardinality(Valid(m[j])) < n
        BY <4>2, <4>4, <4>5
      <4>7. n \in Nat /\ m[j] \in Table(n)
        BY <2>1
      <4> QED
        BY <4>6, <4>7, GapLeft
    <3>5. m[j + 1] = Put(m[j], n, table[j])
      BY <2>3, <2>7
    <3>6. m[j] \in Table(n) /\ Distinct(m[j]) /\ Reached(m[j], n)
      BY <2>1
    <3>7. /\ m[j + 1] \in Table(n) /\ Distinct(m[j + 1]) /\ Reached(m[j + 1], n)
          /\ Stored(m[j + 1]) = Stored(m[j]) \cup {table[j]}
      BY <3>1, <3>3, <3>4, <3>5, <3>6, PutOK
    <3> QED
      BY <2>1, <3>2, <3>7
  <2> QED
    BY <2>6, <2>7
<1>9. Inv(N)
  <2>1. \A i \in Nat : i \in S
    <3> HIDE DEF S
    <3> QED
      BY <1>7, <1>8, SetInduction
  <2> QED
    BY <2>1
<1>10. StoredBefore(table, N) = Stored(table)
  <2>1. {c \in Valid(table) : c < N} = Valid(table)
    BY SlotKinds DEF Buckets
  <2> QED
    BY <2>1 DEF StoredBefore, Stored
<1> QED
  BY <1>1, <1>9, <1>10

-----------------------------------------------------------------------------
(* The loop that repairs the table after a removal. *)

RepairState(n) == [table : Table(n), bucket : Buckets(n), done : BOOLEAN]

\* A turn either leaves the table alone or moves one entry to another bucket.
RepairMoves(st, b, c) ==
    Repair(st) = [st EXCEPT !.bucket = b,
                            !.table = [st.table EXCEPT ![c] = st.table[b], ![b] = Empty]]

\* The turn by cases: a bucket that is free, an entry that stays, and an entry that
\* moves to a gap.
LEMMA RepairCases ==
    ASSUME table_size \in Nat \ {0}, NEW st \in RepairState(table_size)
    PROVE  \E b \in Buckets(table_size), c \in Buckets(table_size) :
               \/ Repair(st) = [st EXCEPT !.done = TRUE]
               \/ Repair(st) = [st EXCEPT !.bucket = b]
               \/ b \in Valid(st.table) /\ c \in Gaps(st.table) /\ RepairMoves(st, b, c)
<1> DEFINE n == table_size
           b == (st.bucket + 1) % n
           h == HomeBucket(st.table[b].key, n)
           c == FirstBucket(n, h, Gaps(st.table) \cup {b})
<1>1. st.table \in Table(n) /\ st.bucket \in Buckets(n)
  BY DEF RepairState
<1>2. b \in Buckets(n)
  <2>1. st.bucket + 1 \in Nat
    BY <1>1 DEF Buckets
  <2> QED
    BY <2>1, Modulo
<1>3. Repair(st) = IF ~st.table[b].is_valid THEN [st EXCEPT !.done = TRUE]
                   ELSE IF c = b THEN [st EXCEPT !.bucket = b]
                   ELSE [st EXCEPT !.bucket = b,
                           !.table = [st.table EXCEPT ![c] = st.table[b], ![b] = Empty]]
  BY DEF Repair, RepairState
<1> HIDE DEF b
<1>4. CASE ~st.table[b].is_valid
  BY <1>2, <1>3, <1>4
<1>5. CASE st.table[b].is_valid
  <2>1. n \in Nat /\ DOMAIN st.table = Buckets(n)
    BY <1>1, SlotKinds
  <2>2. b \in Valid(st.table)
    BY <1>2, <1>5, <2>1 DEF Valid
  <2>3. st.table[b].key \in Keys
    <3>1. st.table[b] \in Entry
      BY <1>1, <2>1, <2>2, SlotKinds
    <3> QED
      BY <3>1 DEF Entry
  <2>4. h \in Buckets(n)
    BY <2>3, HomeBucketType
  <2>5. c \in (Gaps(st.table) \cup {b}) \cap Buckets(n)
    <3> HIDE DEF h
    <3>1. (Gaps(st.table) \cup {b}) \cap Buckets(n) # {}
      BY <1>2
    <3> QED
      BY <2>4, <3>1, ProbeEnds
  <2> HIDE DEF c
  <2>6. CASE c = b
    BY <1>2, <1>3, <1>5, <2>6
  <2>7. CASE c # b
    <3>1. c \in Gaps(st.table) /\ c \in Buckets(n)
      BY <2>5, <2>7
    <3>2. RepairMoves(st, b, c)
      BY <1>3, <1>5, <2>7 DEF RepairMoves
    <3> QED
      BY <1>2, <2>2, <3>1, <3>2
  <2> QED
    BY <2>6, <2>7
<1> QED
  BY <1>4, <1>5

\* Moving an entry to a gap keeps the entries.
LEMMA MoveOK ==
    ASSUME NEW n \in Nat, NEW t \in Table(n), Distinct(t), NEW b \in Valid(t), NEW c \in Gaps(t),
           NEW u, u = [t EXCEPT ![c] = t[b], ![b] = Empty]
    PROVE  u \in Table(n) /\ Distinct(u) /\ Stored(u) = Stored(t)
<1> DEFINE v == Fill(t, b, Empty)
<1>1. /\ b # c /\ DOMAIN t = Buckets(n) /\ b \in Buckets(n) /\ c \in Buckets(n)
      /\ t[b] \in Entry
  BY SlotKinds
<1>2. u = Fill(v, c, t[b])
  BY <1>1 DEF Fill
<1>3. /\ v \in Table(n) /\ Distinct(v) /\ c \in Gaps(v) /\ Fresh(v, t[b])
      /\ Stored(v) = Stored(t) \ {t[b]}
  BY ClearBucket
<1> HIDE DEF v
<1>4. u \in Table(n) /\ Distinct(u) /\ Stored(u) = Stored(v) \cup {t[b]}
  <2>1. ASSUME NEW w \in Table(n), Distinct(w), NEW g \in Gaps(w), NEW x \in Entry, Fresh(w, x)
        PROVE  /\ Fill(w, g, x) \in Table(n) /\ Distinct(Fill(w, g, x))
               /\ Stored(Fill(w, g, x)) = Stored(w) \cup {x}
    BY <2>1, FillGap
  <2>2. /\ Fill(v, c, t[b]) \in Table(n) /\ Distinct(Fill(v, c, t[b]))
        /\ Stored(Fill(v, c, t[b])) = Stored(v) \cup {t[b]}
    BY <1>1, <1>3, <2>1, Zenon
  <2> QED
    BY <1>2, <2>2, Zenon
<1>5. t[b] \in Stored(t)
  BY DEF Stored
<1> QED
  BY <1>3, <1>4, <1>5

\* A turn keeps the entries of the table, all of them and each once.
LEMMA RepairOK ==
    ASSUME table_size \in Nat \ {0}, NEW st \in RepairState(table_size)
    PROVE  /\ Repair(st) \in RepairState(table_size)
           /\ Distinct(st.table) => /\ Distinct(Repair(st).table)
                                    /\ Stored(Repair(st).table) = Stored(st.table)
<1>1. PICK b \in Buckets(table_size), c \in Buckets(table_size) :
          \/ Repair(st) = [st EXCEPT !.done = TRUE]
          \/ Repair(st) = [st EXCEPT !.bucket = b]
          \/ b \in Valid(st.table) /\ c \in Gaps(st.table) /\ RepairMoves(st, b, c)
  BY RepairCases
<1>2. CASE Repair(st) = [st EXCEPT !.done = TRUE] \/ Repair(st) = [st EXCEPT !.bucket = b]
  BY <1>2 DEF RepairState
<1>3. CASE b \in Valid(st.table) /\ c \in Gaps(st.table) /\ RepairMoves(st, b, c)
  <2> DEFINE u == [st.table EXCEPT ![c] = st.table[b], ![b] = Empty]
  <2>1. Repair(st) = [st EXCEPT !.bucket = b, !.table = u]
    BY <1>3 DEF RepairMoves
  <2>2. u \in Table(table_size)
    BY DEF RepairState, Table
  <2>3. Distinct(st.table) => Distinct(u) /\ Stored(u) = Stored(st.table)
    <3>1. st.table \in Table(table_size) /\ table_size \in Nat
      BY DEF RepairState
    <3> QED
      BY <1>3, <3>1, MoveOK
  <2> HIDE DEF u
  <2>4. /\ Repair(st) \in RepairState(table_size)
        /\ Repair(st).table = u
    BY <2>1, <2>2 DEF RepairState
  <2> QED
    BY <2>3, <2>4
<1> QED
  BY <1>1, <1>2, <1>3

\* The whole repair: it loses, doubles and overwrites no entry, and the entry of the
\* removed bucket is the only one that goes.
LEMMA RepairedOK ==
    ASSUME table_size \in Nat \ {0}, table \in Table(table_size), Distinct(table),
           NEW r \in Valid(table)
    PROVE  /\ Repaired(r) \in Table(table_size) /\ Distinct(Repaired(r))
           /\ Stored(Repaired(r)) = Stored(table) \ {table[r]}
<1> DEFINE N == table_size * table_size
           T == RepairState(table_size)
           s == [table |-> [table EXCEPT ![r] = Empty],
                 bucket |-> looping_counter(r, table_size), done |-> FALSE]
           Step(st) == IF st.done THEN st ELSE Repair(st)
           F == [x \in (1 .. N) \X T |-> Step(x[2])]
           m == CHOOSE g : g = [i \in 0 .. N |-> IF i = 0 THEN s ELSE Step(g[i - 1])]
           Inv(i) == /\ m[i] \in T /\ Distinct(m[i].table)
                     /\ Stored(m[i].table) = Stored(table) \ {table[r]}
           S == {i \in Nat : i <= N => Inv(i)}
<1>1. Repaired(r) = m[N].table
  BY DEF Repaired
<1>2. N \in Nat
  OBVIOUS
<1>3. /\ s \in T /\ Distinct(s.table)
      /\ Stored(s.table) = Stored(table) \ {table[r]}
  <2>1. s.table = Fill(table, r, Empty)
    BY DEF Fill
  <2>2. /\ Fill(table, r, Empty) \in Table(table_size) /\ Distinct(Fill(table, r, Empty))
        /\ Stored(Fill(table, r, Empty)) = Stored(table) \ {table[r]}
    <3>1. table_size \in Nat
      OBVIOUS
    <3> QED
      BY <3>1, ClearBucket
  <2>3. looping_counter(r, table_size) \in Buckets(table_size)
    <3>1. r \in Nat /\ table_size \in Nat /\ 0 \in Buckets(table_size)
      <4>1. table_size \in Nat
        OBVIOUS
      <4>2. r \in Buckets(table_size)
        BY <4>1, SlotKinds
      <4> QED
        BY <4>1, <4>2 DEF Buckets
    <3>2. r % table_size \in Buckets(table_size)
      BY <3>1, Modulo
    <3> QED
      BY <3>1, <3>2 DEF looping_counter
  <2> QED
    BY <2>1, <2>2, <2>3 DEF RepairState
<1> HIDE DEF N, s
<1>4. \A st \in T : Step(st) \in T
  BY RepairOK
<1>5. m = [i \in 0 .. N |-> IF i = 0 THEN s ELSE Step(m[i - 1])]
  <2> HIDE DEF Step, T, m
  <2>1. F \in [(1 .. N) \X T -> T]
    BY <1>4
  <2>2. \A i \in 1 .. N, st \in T : F[<<i, st>>] = Step(st)
    OBVIOUS
  <2> HIDE DEF F
  <2>3. PICK g : IsHistory(g, N, T, s, F)
    BY <1>2, <1>3, <2>1, LoopHistory
  <2>4. \A i \in 0 .. N : i # 0 => F[<<i, g[i - 1]>>] = Step(g[i - 1])
    <3> SUFFICES ASSUME NEW i \in 0 .. N, i # 0 PROVE F[<<i, g[i - 1]>>] = Step(g[i - 1])
      OBVIOUS
    <3>1. i \in 1 .. N /\ i - 1 \in 0 .. N
      BY <1>2
    <3>2. g[i - 1] \in T
      BY <3>1, <2>3 DEF IsHistory
    <3> QED
      BY <3>1, <3>2, <2>2
  <2>5. g = [i \in 0 .. N |-> IF i = 0 THEN s ELSE Step(g[i - 1])]
    BY <2>3, <2>4 DEF IsHistory
  <2> QED
    BY <2>5 DEF m
<1>6. m[0] = s /\ \A i \in 1 .. N : m[i] = Step(m[i - 1])
  <2> HIDE DEF m, Step
  <2> QED
    BY <1>2, <1>5
<1> HIDE DEF m
<1>7. 0 \in S
  BY <1>3, <1>6
<1>8. ASSUME NEW j \in Nat, j \in S PROVE j + 1 \in S
  <2> SUFFICES ASSUME j + 1 <= N PROVE Inv(j + 1)
    OBVIOUS
  <2>1. Inv(j)
    BY <1>2, <1>8
  <2>2. j + 1 \in 1 .. N /\ (j + 1) - 1 = j
    BY <1>2
  <2>3. m[j + 1] = IF m[j].done THEN m[j] ELSE Repair(m[j])
    BY <1>6, <2>2
  <2>4. /\ Repair(m[j]) \in T /\ Distinct(Repair(m[j]).table)
        /\ Stored(Repair(m[j]).table) = Stored(m[j].table)
    BY <2>1, RepairOK
  <2> QED
    BY <2>1, <2>3, <2>4
<1>9. Inv(N)
  <2>1. \A i \in Nat : i \in S
    <3> HIDE DEF S
    <3> QED
      BY <1>7, <1>8, SetInduction
  <2> QED
    BY <1>2, <2>1
<1> QED
  BY <1>1, <1>9 DEF RepairState

-----------------------------------------------------------------------------
(* The inductive invariant. *)

\* The table: its size is one of the list, its entries are distinct and counted, and
\* at most half of it is used.
TableInv ==
    /\ table_size \in HashPrimes \cup {0}
    /\ table \in Table(table_size)
    /\ Distinct(table)
    /\ entry_count = Cardinality(Valid(table))
    /\ resize_threshold = table_size \div 2
    /\ entry_count <= resize_threshold

\* The client: there are no more entries than insertions, so that the table never grows
\* past the first size that is enough for them all; entries are numbered from 1.
ClientInv ==
    /\ \A p \in HashPrimes : MaxInserts <= p \div 2 => table_size <= p
    /\ inserts \in 0 .. MaxInserts
    /\ \A x \in Stored(table) : 0 < x.value /\ x.value <= inserts
    /\ entry_count <= inserts

\* While it is not disturbed, every entry is reached from its home bucket.
MapInv ==
    /\ disturbed \in BOOLEAN
    /\ ~disturbed => Reached(table, table_size)

HashInv == TableInv /\ ClientInv /\ MapInv

-----------------------------------------------------------------------------
(* What the invariant says of the sizes and of the probes. *)

LEMMA HalfMonotone ==
    ASSUME NEW a \in Nat, NEW b \in Nat
    PROVE  /\ a \div 2 \in Nat /\ a \div 2 <= a /\ (a # 0 => a \div 2 < a)
           /\ a <= b => a \div 2 <= b \div 2
  OBVIOUS

\* next_larger_hash_prime answers when a size is larger, with the least of them.
LEMMA NextPrime ==
    ASSUME NEW n \in HashPrimes \cup {0}, NEW p \in HashPrimes, n < p
    PROVE  /\ next_larger_hash_prime(n) \in HashPrimes
           /\ n < next_larger_hash_prime(n)
           /\ next_larger_hash_prime(n) <= p
           /\ n \div 2 < next_larger_hash_prime(n) \div 2
<1> DEFINE S == {q \in HashPrimes : q > n}
<1>1. HashPrimes \subseteq Nat /\ n \in Nat
  BY HashAssumption
<1>2. S \in SUBSET Nat /\ p \in S
  BY <1>1
<1>3. \E m \in S : \A x \in S : m <= x
  <2> HIDE DEF S
  <2> QED
    BY <1>2, LeastElement
<1>4. Min(S) \in S /\ \A x \in S : Min(S) <= x
  <2> HIDE DEF S
  <2> QED
    BY <1>3 DEF Min
<1>5. next_larger_hash_prime(n) = Min(S)
  BY DEF next_larger_hash_prime
<1>6. /\ next_larger_hash_prime(n) \in HashPrimes
      /\ n < next_larger_hash_prime(n)
      /\ next_larger_hash_prime(n) <= p
  <2> HIDE DEF S
  <2>1. \A x \in S : x \in HashPrimes /\ n < x
    BY <1>1 DEF S
  <2> QED
    BY <1>2, <1>4, <1>5, <2>1
<1> QED
  BY <1>6, HashAssumption

\* At most half of the table is used.
LEMMA HalfFree ==
    ASSUME TableInv
    PROVE  /\ table_size \in Nat /\ entry_count \in Nat /\ resize_threshold \in Nat
           /\ table_size # 0 => entry_count < table_size /\ Gaps(table) # {}
<1>1. table_size \in Nat
  BY HashAssumption DEF TableInv
<1>2. entry_count \in Nat
  BY <1>1, CountStored DEF TableInv
<1>3. /\ resize_threshold = table_size \div 2 /\ resize_threshold \in Nat
      /\ table_size # 0 => resize_threshold < table_size
  BY <1>1, HalfMonotone DEF TableInv
<1>4. table_size # 0 => entry_count < table_size
  BY <1>1, <1>2, <1>3 DEF TableInv
<1>5. table_size # 0 => Gaps(table) # {}
  BY <1>1, <1>4, GapLeft DEF TableInv
<1> QED
  BY <1>1, <1>2, <1>3, <1>4, <1>5

\* A probe of _find ends at a bucket of the key, or at a gap: then no bucket of the key
\* lies before the gap, and none at all where no gap comes before an entry.
LEMMA FindOK ==
    ASSUME TableInv, NEW k \in Keys
    PROVE  /\ \/ _find(k) = table_size
              \/ _find(k) \in Valid(table) /\ table[_find(k)].key = k
           /\ _find(k) \in Valid(table) => _find(k) # table_size
           /\ Reached(table, table_size) /\ (\E b \in Valid(table) : table[b].key = k)
                 => _find(k) # table_size
<1> DEFINE n == table_size
           h == HomeBucket(k, n)
           B == Gaps(table) \cup {c \in Valid(table) : table[c].key = k}
           f == FirstBucket(n, h, B)
<1>1. _find(k) = IF n # 0 /\ table[f].is_valid THEN f ELSE n
  BY DEF _find
<1>2. n \in Nat /\ table \in Table(n)
  BY HalfFree DEF TableInv
<1>3. /\ Valid(table) \subseteq Buckets(n) /\ Gaps(table) \subseteq Buckets(n)
      /\ Valid(table) \cap Gaps(table) = {} /\ DOMAIN table = Buckets(n)
      /\ \A b \in Buckets(n) : b # n
  <2>1. \A b \in Buckets(n) : b # n
    BY <1>2 DEF Buckets
  <2> QED
    BY <1>2, <2>1, SlotKinds
<1>4. CASE n = 0
  <2>1. Buckets(n) = {}
    BY <1>4 DEF Buckets
  <2>2. Valid(table) = {} /\ _find(k) = n
    BY <1>1, <1>3, <1>4, <2>1
  <2> QED
    BY <2>2
<1>5. CASE n # 0
  <2>1. n \in Nat \ {0} /\ Gaps(table) # {}
    BY <1>2, <1>5, HalfFree
  <2>2. h \in Buckets(n)
    BY <2>1, HomeBucketType
  <2>3. B \cap Buckets(n) # {}
    BY <1>3, <2>1
  <2> HIDE DEF h
  <2>4. PICK d \in Buckets(n) :
           /\ f = (h + d) % n
           /\ f \in B \cap Buckets(n)
           /\ \A e \in Buckets(d) : (h + e) % n \notin B
    <3> HIDE DEF B
    <3> QED
      BY <2>1, <2>2, <2>3, ProbeEnds
  <2> HIDE DEF f
  <2>5. table[f].is_valid <=> f \in Valid(table)
    BY <1>3, <2>4 DEF Valid
  <2>6. f \in Valid(table) => table[f].key = k
    BY <1>3, <2>4
  <2>7. ASSUME Reached(table, n), NEW b \in Valid(table), table[b].key = k
        PROVE  f \in Valid(table)
    <3>1. b \in Buckets(n) /\ b \in B
      BY <1>3, <2>7
    <3>2. PICK c \in Buckets(n) : (h + c) % n = b
      BY <2>1, <2>2, <3>1, Distance
    <3>3. ~(c < d)
      <4>1. c < d => c \in Buckets(d)
        BY <1>2 DEF Buckets
      <4> QED
        BY <2>4, <3>1, <3>2, <4>1
    <3>4. CASE d = c
      BY <2>4, <3>2, <3>4
    <3>5. CASE d # c
      <4>1. d \in Buckets(c)
        BY <1>2, <3>3, <3>5 DEF Buckets
      <4>2. HomeBucket(table[b].key, n) = h
        BY <2>7 DEF h
      <4>3. (h + d) % n \in Valid(table)
        BY <2>7, <3>2, <4>1, <4>2 DEF Reached
      <4> QED
        BY <2>4, <4>3
    <3> QED
      BY <3>4, <3>5
  <2> QED
    BY <1>1, <1>3, <1>5, <2>5, <2>6, <2>7
<1> QED
  BY <1>4, <1>5

-----------------------------------------------------------------------------
(* The invariant is inductive. *)

LEMMA HashInvInit == Init => HashInv
<1> SUFFICES ASSUME Init PROVE HashInv
  OBVIOUS
<1>1. /\ table_size = 0 /\ table = EmptyTable(0) /\ entry_count = 0 /\ resize_threshold = 0
      /\ inserts = 0 /\ disturbed = FALSE
  BY DEF Init
<1>2. /\ table \in Table(0) /\ Distinct(table) /\ Valid(table) = {} /\ Stored(table) = {}
      /\ Reached(table, 0)
  BY <1>1, EmptyTableOK
<1>3. Cardinality({}) = 0
  BY FS_EmptySet
<1>4. TableInv
  <2>1. 0 \div 2 = 0
    OBVIOUS
  <2>2. resize_threshold = table_size \div 2 /\ entry_count <= resize_threshold
    BY <1>1, <2>1
  <2>3. /\ table_size \in HashPrimes \cup {0} /\ table \in Table(table_size) /\ Distinct(table)
        /\ entry_count = Cardinality(Valid(table))
    BY <1>1, <1>2, <1>3
  <2> QED
    BY <2>2, <2>3 DEF TableInv
<1>5. ClientInv
  BY <1>1, <1>2, <1>3, HashAssumption DEF ClientInv
<1>6. MapInv
  BY <1>1, <1>2 DEF MapInv
<1> QED
  BY <1>4, <1>5, <1>6 DEF HashInv

\* The table an insertion of k puts its entry in: the old one or, where it must grow,
\* a larger one with the same entries.
GrownSize == IF must_grow THEN next_larger_hash_prime(table_size) ELSE table_size
Grown == IF must_grow THEN Rehash(GrownSize) ELSE table

LEMMA GrownOK ==
    ASSUME HashInv, inserts < MaxInserts
    PROVE  /\ GrownSize \in HashPrimes
           /\ \A p \in HashPrimes : MaxInserts <= p \div 2 => GrownSize <= p
           /\ Grown \in Table(GrownSize) /\ Distinct(Grown)
           /\ Stored(Grown) = Stored(table)
           /\ entry_count + 1 <= GrownSize \div 2
           /\ Reached(table, table_size) => Reached(Grown, GrownSize)
           /\ (IF must_grow THEN new_threshold(GrownSize) ELSE resize_threshold) = GrownSize \div 2
<1> USE DEF HashInv
<1>1. /\ table_size \in Nat /\ entry_count \in Nat /\ resize_threshold \in Nat
      /\ table_size \in HashPrimes \cup {0} /\ resize_threshold = table_size \div 2
      /\ entry_count <= resize_threshold
      /\ table \in Table(table_size) /\ Distinct(table)
      /\ entry_count = Cardinality(Valid(table))
  BY HalfFree DEF TableInv
<1>2. HashPrimes \subseteq Nat \ {0}
  BY HashAssumption
<1>3. CASE ~must_grow
  <2>1. GrownSize = table_size /\ Grown = table /\ entry_count < resize_threshold
    BY <1>1, <1>3 DEF GrownSize, Grown, must_grow
  <2>2. table_size # 0
    <3>1. table_size = 0 => table_size \div 2 <= 0
      BY <1>1, HalfMonotone
    <3> QED
      BY <1>1, <2>1, <3>1
  <2>3. entry_count + 1 <= table_size \div 2
    BY <1>1, <2>1
  <2>4. \A p \in HashPrimes : MaxInserts <= p \div 2 => table_size <= p
    BY DEF ClientInv
  <2> QED
    BY <1>1, <1>3, <2>1, <2>2, <2>3, <2>4
<1>4. CASE must_grow
  <2> DEFINE n == next_larger_hash_prime(table_size)
  <2>1. GrownSize = n /\ Grown = Rehash(n) /\ entry_count >= resize_threshold
    BY <1>4 DEF GrownSize, Grown, must_grow
  <2>2. entry_count < MaxInserts
    <3>1. inserts \in Nat /\ MaxInserts \in Nat /\ entry_count <= inserts
      BY HashAssumption DEF ClientInv
    <3> QED
      BY <1>1, <3>1
  <2>3. ASSUME NEW p \in HashPrimes, MaxInserts <= p \div 2
        PROVE  table_size < p
    <3>1. p \in Nat /\ MaxInserts \in Nat
      BY <1>2, HashAssumption
    <3>2. p <= table_size => p \div 2 <= table_size \div 2
      BY <1>1, <3>1, HalfMonotone
    <3>3. table_size \div 2 \in Nat /\ p \div 2 \in Nat
      BY <1>1, <3>1, HalfMonotone
    <3> QED
      BY <1>1, <2>1, <2>2, <2>3, <3>1, <3>2, <3>3
  <2>4. PICK p \in HashPrimes : MaxInserts <= p \div 2
    BY HashAssumption
  <2>5. n \in HashPrimes /\ table_size \div 2 < n \div 2
    BY <1>1, <2>3, <2>4, NextPrime
  <2>6. \A q \in HashPrimes : MaxInserts <= q \div 2 => n <= q
    BY <1>1, <2>3, NextPrime
  <2> HIDE DEF n
  <2>7. n \in Nat \ {0} /\ n \div 2 \in Nat /\ n \div 2 <= n
    BY <1>2, <2>5, HalfMonotone
  <2>8. entry_count < n \div 2
    BY <1>1, <2>5, <2>7
  <2>9. Cardinality(Valid(table)) < n
    BY <1>1, <2>7, <2>8
  <2>10. /\ Rehash(n) \in Table(n) /\ Distinct(Rehash(n))
         /\ Stored(Rehash(n)) = Stored(table)
         /\ Reached(Rehash(n), n)
    BY <1>1, <2>7, <2>9, RehashOK
  <2>11. entry_count + 1 <= n \div 2
    BY <1>1, <2>7, <2>8
  <2> QED
    BY <1>4, <2>1, <2>5, <2>6, <2>10, <2>11 DEF new_threshold
<1> QED
  BY <1>3, <1>4

\* The entry that an insertion of the key adds.
NewEntry(k) == [is_valid |-> TRUE, key |-> k, value |-> inserts + 1]

LEMMA InsertTable ==
    ASSUME HashInv, NEW k \in Keys, insert(k)
    PROVE  /\ table' \in Table(GrownSize) /\ Distinct(table')
           /\ Stored(table') = Stored(table) \cup {NewEntry(k)}
           /\ Reached(table, table_size) => Reached(table', GrownSize)
           /\ Cardinality(Valid(table')) = entry_count + 1
<1> DEFINE x == NewEntry(k)
<1>1. /\ inserts < MaxInserts
      /\ table' = Put(Grown, GrownSize, x)
  BY DEF insert, Grown, GrownSize, NewEntry
<1>2. /\ GrownSize \in HashPrimes
      /\ Grown \in Table(GrownSize) /\ Distinct(Grown)
      /\ Stored(Grown) = Stored(table)
      /\ entry_count + 1 <= GrownSize \div 2
      /\ Reached(table, table_size) => Reached(Grown, GrownSize)
  BY <1>1, GrownOK
<1>3. /\ inserts \in Nat /\ MaxInserts \in Nat
      /\ \A y \in Stored(table) : 0 < y.value /\ y.value <= inserts /\ y \in Entry
  <2>1. table_size \in Nat /\ table \in Table(table_size)
    BY HalfFree DEF HashInv, TableInv
  <2>2. \A y \in Stored(table) : y \in Entry
    BY <2>1, SlotKinds DEF Stored
  <2> QED
    BY <2>2, HashAssumption DEF HashInv, ClientInv
<1>4. x \in Entry /\ x.key = k /\ x.value = inserts + 1
  BY <1>3 DEF Entry, NewEntry
<1> HIDE DEF x
<1>5. Fresh(Grown, x)
  <2> SUFFICES ASSUME NEW y \in Stored(table) PROVE y.value # x.value
    BY <1>2 DEF Fresh
  <2>1. y.value <= inserts /\ y.value \in Nat
    BY <1>3 DEF Entry
  <2> QED
    BY <1>3, <1>4, <2>1
<1>6. GrownSize \in Nat \ {0} /\ GrownSize \in Nat /\ GrownSize \div 2 < GrownSize /\ GrownSize \div 2 \in Nat
  <2>1. GrownSize \in Nat \ {0}
    BY <1>2, HashAssumption
  <2> QED
    BY <2>1, HalfMonotone
<1>7. /\ table_size \in Nat /\ entry_count \in Nat /\ table \in Table(table_size) /\ Distinct(table)
      /\ entry_count = Cardinality(Valid(table))
  BY HalfFree DEF HashInv, TableInv
<1>8. /\ IsFiniteSet(Stored(table)) /\ Cardinality(Stored(table)) = entry_count
  BY <1>7, CountStored
<1>9. Gaps(Grown) # {}
  <2>1. Cardinality(Valid(Grown)) = entry_count
    BY <1>2, <1>6, <1>8, CountStored
  <2>2. Cardinality(Valid(Grown)) < GrownSize
    BY <1>2, <1>6, <1>7, <2>1
  <2> QED
    BY <1>2, <1>6, <2>2, GapLeft
<1>10. /\ table' \in Table(GrownSize) /\ Distinct(table')
       /\ Stored(table') = Stored(table) \cup {x}
       /\ Reached(table, table_size) => Reached(table', GrownSize)
  BY <1>1, <1>2, <1>4, <1>5, <1>6, <1>9, PutOK
<1>11. Cardinality(Valid(table')) = entry_count + 1
  <2>1. x \notin Stored(table)
    BY <1>2, <1>5 DEF Fresh
  <2>2. Cardinality(Stored(table')) = entry_count + 1
    BY <1>8, <1>10, <2>1, FS_AddElement
  <2> QED
    BY <1>6, <1>10, <2>2, CountStored
<1> QED
  BY <1>10, <1>11 DEF x

LEMMA InsertKeeps ==
    ASSUME HashInv, NEW k \in Keys, insert(k)
    PROVE  HashInv'
<1> DEFINE x == NewEntry(k)
<1>1. /\ inserts < MaxInserts
      /\ table_size' = GrownSize
      /\ resize_threshold' = IF must_grow THEN new_threshold(GrownSize) ELSE resize_threshold
      /\ entry_count' = entry_count + 1
      /\ inserts' = inserts + 1
      /\ disturbed' = disturbed
  BY DEF insert, GrownSize
<1>2. /\ GrownSize \in HashPrimes
      /\ \A p \in HashPrimes : MaxInserts <= p \div 2 => GrownSize <= p
      /\ entry_count + 1 <= GrownSize \div 2
      /\ (IF must_grow THEN new_threshold(GrownSize) ELSE resize_threshold) = GrownSize \div 2
  BY <1>1, GrownOK
<1>3. /\ inserts \in Nat /\ MaxInserts \in Nat
      /\ \A y \in Stored(table) : 0 < y.value /\ y.value <= inserts /\ y \in Entry
  <2>1. table_size \in Nat /\ table \in Table(table_size)
    BY HalfFree DEF HashInv, TableInv
  <2>2. \A y \in Stored(table) : y \in Entry
    BY <2>1, SlotKinds DEF Stored
  <2> QED
    BY <2>2, HashAssumption DEF HashInv, ClientInv
<1>4. x.value = inserts + 1
  BY DEF NewEntry
<1>7. entry_count \in Nat
  BY HalfFree DEF HashInv, TableInv
<1> HIDE DEF x
<1>10. /\ table' \in Table(GrownSize) /\ Distinct(table')
       /\ Stored(table') = Stored(table) \cup {x}
       /\ Reached(table, table_size) => Reached(table', GrownSize)
  BY InsertTable DEF x
<1>11. Cardinality(Valid(table')) = entry_count + 1
  BY InsertTable
<1>12. TableInv'
  <2>1. /\ table_size' \in HashPrimes \cup {0}
        /\ table' \in Table(table_size')
        /\ resize_threshold' = table_size' \div 2
        /\ entry_count' <= resize_threshold'
        /\ entry_count' = Cardinality(Valid(table'))
    BY <1>1, <1>2, <1>10, <1>11
  <2> QED
    BY <2>1, <1>10 DEF TableInv, Valid, Distinct
<1>13. ClientInv'
  <2>1. entry_count <= inserts
    BY DEF HashInv, ClientInv
  <2>2. entry_count' <= inserts' /\ inserts' \in 0 .. MaxInserts
    BY <1>1, <1>3, <1>7, <2>1
  <2>3. \A y \in Stored(table') : 0 < y.value /\ y.value <= inserts'
    <3> SUFFICES ASSUME NEW y \in Stored(table') PROVE 0 < y.value /\ y.value <= inserts + 1
      BY <1>1
    <3>1. CASE y = x
      BY <1>3, <1>4, <3>1
    <3>2. CASE y \in Stored(table)
      <4>1. y.value \in Nat /\ 0 < y.value /\ y.value <= inserts
        BY <1>3, <3>2 DEF Entry
      <4> QED
        BY <1>3, <4>1
    <3> QED
      BY <1>10, <3>1, <3>2
  <2>4. \A p \in HashPrimes : MaxInserts <= p \div 2 => table_size' <= p
    BY <1>1, <1>2
  <2> QED
    BY <2>2, <2>3, <2>4 DEF ClientInv, Stored, Valid
<1>14. MapInv'
  <2>1. disturbed' \in BOOLEAN
    BY <1>1 DEF HashInv, MapInv
  <2>2. ASSUME ~disturbed PROVE Reached(table', table_size')
    BY <1>1, <1>10, <2>2 DEF HashInv, MapInv
  <2> QED
    BY <1>1, <2>1, <2>2 DEF MapInv, Reached, Valid
<1> QED
  BY <1>12, <1>13, <1>14 DEF HashInv

\* What a removal does to the table: an entry of the key goes, or nothing changes.
LEMMA RemoveTable ==
    ASSUME HashInv, NEW k \in Keys, remove(k)
    PROVE  /\ table' \in Table(table_size) /\ Distinct(table') /\ entry_count' \in Nat
           /\ entry_count' = Cardinality(Valid(table'))
           /\ \/ /\ _find(k) = table_size /\ Stored(table') = Stored(table)
                 /\ entry_count' = entry_count /\ disturbed' = disturbed
              \/ /\ \E y \in Stored(table) : y.key = k /\ Stored(table') = Stored(table) \ {y}
                 /\ entry_count' = entry_count - 1 /\ disturbed' = (entry_count' # 0)
<1>1. /\ table_size \in Nat /\ entry_count \in Nat /\ table \in Table(table_size) /\ Distinct(table)
      /\ entry_count = Cardinality(Valid(table))
  BY HalfFree DEF HashInv, TableInv
<1>2. /\ IsFiniteSet(Stored(table)) /\ Cardinality(Stored(table)) = entry_count
  BY <1>1, CountStored
<1>3. CASE _find(k) = table_size
  <2>1. table' = table /\ entry_count' = entry_count /\ disturbed' = disturbed
    BY <1>3 DEF remove
  <2> QED
    BY <1>1, <1>3, <2>1
<1>4. CASE _find(k) # table_size
  <2>1. PICK b : b = _find(k)
    OBVIOUS
  <2>2. table' = Repaired(b) /\ entry_count' = entry_count - 1 /\ disturbed' = (entry_count' # 0)
    BY <1>4, <2>1 DEF remove
  <2>3. b \in Valid(table) /\ table[b].key = k
    BY <1>4, <2>1, FindOK DEF HashInv
  <2>4. table_size # 0
    <3>1. table_size = 0 => Buckets(table_size) = {}
      BY DEF Buckets
    <3> QED
      BY <1>1, <2>3, <3>1, SlotKinds
  <2>5. table_size \in Nat \ {0}
    BY <1>1, <2>4
  <2>6. /\ Repaired(b) \in Table(table_size) /\ Distinct(Repaired(b))
        /\ Stored(Repaired(b)) = Stored(table) \ {table[b]}
    BY <1>1, <2>3, <2>5, RepairedOK
  <2>7. table[b] \in Stored(table)
    BY <2>3 DEF Stored
  <2>8. Cardinality(Stored(table) \ {table[b]}) = entry_count - 1
    BY <1>2, <2>7, FS_RemoveElement
  <2>9. /\ table' \in Table(table_size) /\ Distinct(table')
        /\ Stored(table') = Stored(table) \ {table[b]}
    BY <2>2, <2>6
  <2>10. Cardinality(Valid(table')) = entry_count - 1 /\ Cardinality(Valid(table')) \in Nat
    BY <1>1, <2>8, <2>9, CountStored
  <2> QED
    BY <2>2, <2>3, <2>7, <2>9, <2>10
<1> QED
  BY <1>3, <1>4

LEMMA RemoveKeeps ==
    ASSUME HashInv, NEW k \in Keys, remove(k)
    PROVE  HashInv'
<1>1. table_size' = table_size /\ resize_threshold' = resize_threshold /\ inserts' = inserts
  BY DEF remove
<1>2. /\ table' \in Table(table_size) /\ Distinct(table') /\ entry_count' \in Nat
      /\ entry_count' = Cardinality(Valid(table'))
      /\ entry_count' = entry_count \/ entry_count' = entry_count - 1
      /\ Stored(table') \subseteq Stored(table)
  BY RemoveTable
<1>3. /\ table_size \in Nat /\ entry_count \in Nat /\ resize_threshold \in Nat
      /\ table_size \in HashPrimes \cup {0} /\ resize_threshold = table_size \div 2
      /\ entry_count <= resize_threshold
  BY HalfFree DEF HashInv, TableInv
<1>4. TableInv'
  <2>1. entry_count' <= resize_threshold'
    BY <1>1, <1>2, <1>3
  <2>2. resize_threshold' = table_size' \div 2 /\ table_size' \in HashPrimes \cup {0}
    BY <1>1, <1>3
  <2> QED
    BY <1>1, <1>2, <2>1, <2>2 DEF TableInv, Valid, Distinct
<1>5. ClientInv'
  <2>1. /\ inserts \in 0 .. MaxInserts /\ entry_count <= inserts
        /\ \A y \in Stored(table) : 0 < y.value /\ y.value <= inserts
    BY DEF HashInv, ClientInv
  <2>2. inserts \in Nat
    BY <2>1, HashAssumption
  <2>3. entry_count' <= inserts'
    BY <1>1, <1>2, <1>3, <2>1, <2>2
  <2>4. \A p \in HashPrimes : MaxInserts <= p \div 2 => table_size' <= p
    BY <1>1 DEF HashInv, ClientInv
  <2>5. \A y \in Stored(table') : 0 < y.value /\ y.value <= inserts'
    BY <1>1, <1>2, <2>1
  <2> QED
    BY <1>1, <2>1, <2>3, <2>4, <2>5 DEF ClientInv, Stored, Valid
<1>6. MapInv'
  <2>1. CASE _find(k) = table_size
    <3>1. table' = table /\ disturbed' = disturbed
      BY <2>1 DEF remove
    <3> QED
      BY <1>1, <3>1 DEF HashInv, MapInv, Reached, Valid
  <2>2. CASE _find(k) # table_size
    <3>1. disturbed' = (entry_count' # 0)
      BY <2>2 DEF remove
    <3>2. ASSUME entry_count' = 0 PROVE Valid(table') = {}
      <4>1. IsFiniteSet(Valid(table'))
        BY <1>2, <1>3, CountStored
      <4> QED
        BY <1>2, <3>2, <4>1, FS_EmptySet
    <3>3. entry_count' = 0 => Reached(table', table_size')
      BY <3>2 DEF Reached
    <3> QED
      BY <3>1, <3>3 DEF MapInv, Reached, Valid
  <2> QED
    BY <2>1, <2>2
<1> QED
  BY <1>4, <1>5, <1>6 DEF HashInv

-----------------------------------------------------------------------------
(* The calls on the entries, as LookupTable has them. *)

\* The pairs of an entry's key and value.
Pair(e) == [key |-> e.key, value |-> e.value]
Pairs(S) == {Pair(e) : e \in S}

\* Entries have numbers of their own, so that one of them is one of the pairs.
LEMMA PairsWithout ==
    ASSUME HashInv, NEW y \in Stored(table)
    PROVE  /\ Pairs(Stored(table) \ {y}) = Pairs(Stored(table)) \ {Pair(y)}
           /\ Pairs(Stored(table)) = {Pair(y)} <=> Stored(table) = {y}
<1>1. ASSUME NEW a \in Stored(table), NEW b \in Stored(table), Pair(a) = Pair(b) PROVE a = b
  <2>1. PICK c \in Valid(table), d \in Valid(table) : a = table[c] /\ b = table[d]
    BY DEF Stored
  <2>2. table[c].value = table[d].value
    BY <1>1, <2>1 DEF Pair
  <2> QED
    BY <2>1, <2>2 DEF HashInv, TableInv, Distinct
<1> QED
  BY <1>1 DEF Pairs

LEMMA InsertAsPromised ==
    ASSUME HashInv, NEW k \in Keys, insert(k)
    PROVE  AsLookupTable' = Lookup!insert(AsLookupTable, k, inserts')
<1>1. PICK x : x = NewEntry(k)
  OBVIOUS
<1>2. disturbed' = disturbed /\ inserts' = inserts + 1
  BY DEF insert
<1>a. x.key = k /\ x.value = inserts' /\ Stored(table') = Stored(table) \cup {x}
  BY <1>1, <1>2, InsertTable DEF NewEntry
<1>3. Pairs(Stored(table')) = Pairs(Stored(table)) \cup {[key |-> k, value |-> inserts']}
  BY <1>a DEF Pairs, Pair
<1>4. AsLookupTable = [entries |-> Pairs(Stored(table)), disturbed |-> disturbed]
  BY DEF AsLookupTable, Pairs, Pair
<1>5. AsLookupTable' = [entries |-> Pairs(Stored(table')), disturbed |-> disturbed']
  BY DEF AsLookupTable, Pairs, Pair, Stored, Valid
<1> QED
  BY <1>2, <1>3, <1>4, <1>5 DEF Lookup!insert

LEMMA RemoveAsPromised ==
    ASSUME HashInv, NEW k \in Keys, remove(k)
    PROVE  AsLookupTable' \in Lookup!remove(AsLookupTable, k)
<1> DEFINE L == AsLookupTable
<1>1. L = [entries |-> Pairs(Stored(table)), disturbed |-> disturbed]
  BY DEF AsLookupTable, Pairs, Pair
<1>2. AsLookupTable' = [entries |-> Pairs(Stored(table')), disturbed |-> disturbed']
  BY DEF AsLookupTable, Pairs, Pair, Stored, Valid
<1> HIDE DEF L
<1>3. CASE _find(k) = table_size /\ Stored(table') = Stored(table) /\ disturbed' = disturbed
  <2>1. AsLookupTable' = L
    BY <1>1, <1>2, <1>3
  <2>2. Lookup!MayMiss(L, k)
    <3>1. ASSUME ~disturbed PROVE Lookup!Entries(L, k) = {}
      <4>1. \A e \in Stored(table) : e.key # k
        BY <1>3, <3>1, FindOK DEF HashInv, MapInv, Stored
      <4>2. \A e \in Pairs(Stored(table)) : e.key # k
        BY <4>1 DEF Pairs, Pair
      <4> QED
        BY <1>1, <4>2 DEF Lookup!Entries
    <3> QED
      BY <1>1, <3>1 DEF Lookup!MayMiss
  <2> QED
    BY <2>1, <2>2 DEF Lookup!remove, L
<1>4. CASE /\ \E y \in Stored(table) : y.key = k /\ Stored(table') = Stored(table) \ {y}
           /\ disturbed' = (entry_count' # 0)
  <2>1. PICK y \in Stored(table) : y.key = k /\ Stored(table') = Stored(table) \ {y}
    BY <1>4
  <2>2. Pair(y) \in Lookup!Entries(L, k)
    BY <1>1, <2>1 DEF Lookup!Entries, Pairs, Pair
  <2>3. /\ Pairs(Stored(table')) = Pairs(Stored(table)) \ {Pair(y)}
        /\ Pairs(Stored(table)) = {Pair(y)} <=> Stored(table) = {y}
    BY <2>1, PairsWithout
  <2>4. entry_count' # 0 <=> Stored(table) # {y}
    <3>1. /\ table' \in Table(table_size) /\ Distinct(table')
          /\ entry_count' = Cardinality(Valid(table')) /\ table_size \in Nat
      BY RemoveTable, HalfFree DEF HashInv
    <3>2. IsFiniteSet(Stored(table')) /\ Cardinality(Stored(table')) = entry_count'
      BY <3>1, CountStored
    <3>3. entry_count' = 0 <=> Stored(table') = {}
      BY <3>2, FS_EmptySet
    <3> QED
      BY <2>1, <3>3
  <2>5. disturbed' = (Pairs(Stored(table)) # {Pair(y)})
    BY <1>4, <2>3, <2>4
  <2>6. AsLookupTable' = Lookup!Without(L, Pair(y))
    BY <1>1, <1>2, <2>3, <2>5 DEF Lookup!Without
  <2> QED
    BY <2>2, <2>6 DEF Lookup!remove, L
<1> QED
  BY <1>3, <1>4, RemoveTable

-----------------------------------------------------------------------------
(* The theorems. *)

\* The inductive invariant holds in every reachable state.
THEOREM HashInvariant == Spec => []HashInv
<1>1. Init => HashInv
  BY HashInvInit
<1>2. HashInv /\ [Next]_vars => HashInv'
  <2> SUFFICES ASSUME HashInv, [Next]_vars PROVE HashInv'
    OBVIOUS
  <2>1. ASSUME NEW k \in Keys, insert(k) PROVE HashInv'
    BY <2>1, InsertKeeps
  <2>2. ASSUME NEW k \in Keys, remove(k) PROVE HashInv'
    BY <2>2, RemoveKeeps
  <2>3. CASE UNCHANGED vars
    BY <2>3 DEF vars, HashInv, TableInv, ClientInv, MapInv, Valid, Stored, Distinct, Reached
  <2> QED
    BY <2>1, <2>2, <2>3 DEF Next
<1> QED
  BY <1>1, <1>2, PTL DEF Spec

\* Whatever was inserted and removed before, _entry_count is exact, half of the table is
\* free, so that the probes of _find, _insert_in_table and _remove meet a gap, and the
\* assertion of the growth holds: a larger size exists and has room.
THEOREM ProbesTerminateTheorem == Spec => []ProbesTerminate
<1>1. HashInv => ProbesTerminate
  <2> SUFFICES ASSUME HashInv PROVE ProbesTerminate
    OBVIOUS
  <2>1. /\ table_size \in Nat /\ entry_count \in Nat /\ table_size \in HashPrimes \cup {0}
        /\ entry_count = Cardinality(Valid(table)) /\ resize_threshold = table_size \div 2
        /\ entry_count <= resize_threshold
    BY HalfFree DEF HashInv, TableInv
  <2>2. PICK p \in HashPrimes, q \in HashPrimes :
           p < q /\ MaxInserts <= p \div 2
    BY HashAssumption
  <2>3. table_size < q
    <3>1. p \in Nat /\ q \in Nat
      BY HashAssumption
    <3>2. table_size <= p
      BY <2>2 DEF HashInv, ClientInv
    <3> QED
      BY <2>1, <2>2, <3>1, <3>2
  <2>4. /\ next_larger_hash_prime(table_size) \in HashPrimes
        /\ table_size \div 2 < next_larger_hash_prime(table_size) \div 2
    BY <2>1, <2>3, NextPrime
  <2>5. /\ table_size \div 2 \in Nat /\ next_larger_hash_prime(table_size) \div 2 \in Nat
    <3>1. next_larger_hash_prime(table_size) \in Nat
      BY <2>4, HashAssumption
    <3> QED
      BY <2>1, <3>1, HalfMonotone
  <2>6. entry_count < next_larger_hash_prime(table_size) \div 2
    BY <2>1, <2>4, <2>5
  <2> QED
    BY <2>1, <2>6 DEF ProbesTerminate
<1> QED
  BY <1>1, HashInvariant, PTL

\* Through any growth, whatever the hash of the keys, find returns an entry of the key;
\* it misses none until a removal leaves other entries behind.
THEOREM FindsAsPromisedTheorem == Spec => []FindsAsPromised
<1>1. HashInv => FindsAsPromised
  <2> SUFFICES ASSUME HashInv, NEW k \in Keys
               PROVE  find(k) \in Lookup!find(AsLookupTable, k)
    BY DEF FindsAsPromised
  <2> DEFINE L == AsLookupTable
  <2>1. /\ L.entries = {[key |-> e.key, value |-> e.value] : e \in Stored(table)}
        /\ L.disturbed = disturbed
    BY DEF AsLookupTable
  <2>2. /\ _find(k) = table_size \/ (_find(k) \in Valid(table) /\ table[_find(k)].key = k)
        /\ (Reached(table, table_size) /\ \E b \in Valid(table) : table[b].key = k)
                => _find(k) # table_size
    BY FindOK DEF HashInv
  <2>3. ~disturbed => Reached(table, table_size)
    BY DEF HashInv, MapInv
  <2>4. CASE _find(k) = table_size
    <3>1. ASSUME ~disturbed PROVE Lookup!Entries(L, k) = {}
      <4>1. \A e \in Stored(table) : e.key # k
        BY <2>2, <2>3, <2>4, <3>1 DEF Stored
      <4> QED
        BY <2>1, <4>1 DEF Lookup!Entries
    <3>2. Lookup!MayMiss(L, k)
      BY <2>1, <3>1 DEF Lookup!MayMiss
    <3>3. find(k) = Lookup!Null
      BY <2>4 DEF find
    <3> QED
      BY <3>2, <3>3 DEF Lookup!find
  <2>5. CASE _find(k) # table_size
    <3>1. find(k) = table[_find(k)].value
      BY <2>5 DEF find
    <3>2. table[_find(k)] \in Stored(table) /\ table[_find(k)].key = k
      BY <2>2, <2>5 DEF Stored
    <3>3. PICK e : e = [key |-> k, value |-> find(k)]
      OBVIOUS
    <3>4. e \in L.entries /\ e.key = k /\ e.value = find(k)
      BY <2>1, <3>1, <3>2, <3>3
    <3> QED
      BY <3>4 DEF Lookup!find, Lookup!Entries
  <2> QED
    BY <2>4, <2>5
<1> QED
  BY <1>1, HashInvariant, PTL

\* Every call does to the entries what LookupTable says: an insertion, through any growth,
\* adds one, a removal takes at most one of the key out, and the repair after it loses,
\* doubles and overwrites none: whatever the keys, their hashes and the calls before.
THEOREM StepsAsPromisedTheorem == Spec => StepsAsPromised
<1> DEFINE Step(k) == \/ AsLookupTable' = Lookup!insert(AsLookupTable, k, inserts')
                      \/ AsLookupTable' \in Lookup!remove(AsLookupTable, k)
<1>1. HashInv /\ [Next]_vars => [\E k \in Keys : Step(k)]_vars
  <2> SUFFICES ASSUME HashInv, Next PROVE \E k \in Keys : Step(k)
    OBVIOUS
  <2>1. ASSUME NEW k \in Keys, insert(k) PROVE Step(k)
    BY <2>1, InsertAsPromised
  <2>2. ASSUME NEW k \in Keys, remove(k) PROVE Step(k)
    BY <2>2, RemoveAsPromised
  <2> QED
    BY <2>1, <2>2 DEF Next
<1> QED
  BY <1>1, HashInvariant, PTL DEF Spec, StepsAsPromised
=============================================================================
