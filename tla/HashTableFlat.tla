--------------------------- MODULE HashTableFlat ---------------------------
(***************************************************************************)
(* core/hash_table_flat.h: open addressing with linear probing, growth at  *)
(* half load, and removal that closes the gap it leaves.  torque_socket    *)
(* finds its connections by id and by address through two such tables.     *)
(* _add_connection inserts without a look whether the key is there, so     *)
(* that an address may have several entries.                               *)
(*                                                                         *)
(* LookupTable is what TorqueSocket relies on; the properties below say    *)
(* that this table keeps to it.                                            *)
(***************************************************************************)
EXTENDS Integers, FiniteSets, FiniteSetsExt

CONSTANTS
    Keys,                \* the keys the client uses
    Hash,                \* hash(key), a number for each key
    HashPrimes,          \* the table sizes of next_larger_hash_prime
    MaxInserts,          \* bound: how many insertions the client makes
    MaxRemovals          \* bound: how many removals the client makes

\* The sizes reach far enough that next_larger_hash_prime always has an answer.  Each
\* size is about twice the last.
ASSUME HashAssumption ==
    /\ Hash \in [Keys -> Nat]
    /\ MaxInserts \in Nat /\ MaxRemovals \in Nat
    /\ HashPrimes \in SUBSET (Nat \ {0})
    /\ \E p, q \in HashPrimes : p < q /\ MaxInserts <= p \div 2
    /\ \A p \in HashPrimes, n \in HashPrimes \cup {0} : n < p => n \div 2 < p \div 2

Empty == [is_valid |-> FALSE]

VARIABLES
    table,               \* the entries, by bucket
    table_size,          \* _table_size
    entry_count,         \* _entry_count
    resize_threshold,    \* _resize_threshold
    inserts,             \* history: insertions, also the last value
    removals,            \* history: calls of remove
    disturbed            \* history: a removal left entries, since the table was last empty

vars == <<table, table_size, entry_count, resize_threshold, inserts, removals, disturbed>>

Buckets(n) == 0 .. n - 1
EmptyTable(n) == [b \in Buckets(n) |-> Empty]

Init ==
    /\ table = EmptyTable(0)
    /\ table_size = 0
    /\ entry_count = 0
    /\ resize_threshold = 0
    /\ inserts = 0
    /\ removals = 0
    /\ disturbed = FALSE
-----------------------------------------------------------------------------
next_larger_hash_prime(n) == Min({p \in HashPrimes : p > n})

\* The constructor of looping_counter: a value below the count becomes 0.
looping_counter(v, n) == IF v < n THEN 0 ELSE v % n

\* The first bucket at or after `start`, going round, of the buckets B.
FirstBucket(n, start, B) ==
    LET turn(d) == (start + d) % n
        d == CHOOSE d \in Buckets(n) :
                turn(d) \in B /\ \A e \in Buckets(d) : turn(e) \notin B
    IN  turn(d)

HomeBucket(k, n) == looping_counter(Hash[k], n)

Valid(t) == {b \in DOMAIN t : t[b].is_valid}
Gaps(t) == {b \in DOMAIN t : ~t[b].is_valid}

\* _insert_in_table: the bucket the key goes to.
_insert_in_table(t, n, k) == FirstBucket(n, HomeBucket(k, n), Gaps(t))

Put(t, n, e) == [t EXCEPT ![_insert_in_table(t, n, e.key)] = e]

\* Mutant: the entries are put in the new table by the old size.
RehashByOldSize(n) ==
    LET bucket(t, e) == FirstBucket(n, HomeBucket(e.key, table_size), Gaps(t))
        moved[i \in 0 .. table_size] ==
            IF i = 0 THEN EmptyTable(n)
            ELSE IF table[i - 1].is_valid
                 THEN [moved[i - 1] EXCEPT ![bucket(moved[i - 1], table[i - 1])] = table[i - 1]]
                 ELSE moved[i - 1]
    IN  moved[table_size]

\* The entries of the table put, in the order of their buckets, in one of n buckets.
Rehash(n) ==
    LET moved[i \in 0 .. table_size] ==
            IF i = 0 THEN EmptyTable(n)
            ELSE IF table[i - 1].is_valid THEN Put(moved[i - 1], n, table[i - 1])
                 ELSE moved[i - 1]
    IN  moved[table_size]

\* Mutant: the table grows only when it is full.
mustGrowWhenFull == entry_count >= table_size

\* The table grows when it holds as many entries as the threshold allows.
must_grow == entry_count >= resize_threshold

new_threshold(n) == n \div 2

insert(k) ==
    LET e == [is_valid |-> TRUE, key |-> k, value |-> inserts + 1]
        n == IF must_grow THEN next_larger_hash_prime(table_size) ELSE table_size
        t == IF must_grow THEN Rehash(n) ELSE table
    IN  /\ inserts < MaxInserts
        /\ table' = Put(t, n, e)
        /\ table_size' = n
        /\ resize_threshold' = IF must_grow THEN new_threshold(n) ELSE resize_threshold
        /\ entry_count' = entry_count + 1
        /\ inserts' = inserts + 1
        /\ UNCHANGED <<removals, disturbed>>

\* _find: the bucket of the key, or table_size when the probe meets a gap first.
_find(k) ==
    LET b == FirstBucket(table_size, HomeBucket(k, table_size),
                         Gaps(table) \cup {c \in Valid(table) : table[c].key = k})
    IN  IF table_size # 0 /\ table[b].is_valid THEN b ELSE table_size

\* Mutant: the bucket an entry was moved from is not freed.
RepairByCopy(st) ==
    LET n == table_size
        b == (st.bucket + 1) % n
        correct_bucket == FirstBucket(n, HomeBucket(st.table[b].key, n),
                                      Gaps(st.table) \cup {b})
    IN  IF ~st.table[b].is_valid THEN [st EXCEPT !.done = TRUE]
        ELSE [st EXCEPT !.bucket = b, !.table = [@ EXCEPT ![correct_bucket] = st.table[b]]]

\* One turn of the loop in _remove: st.bucket moves on; a gap ends the loop; an
\* entry that a gap lies before, on the way from its home bucket, is moved there.
Repair(st) ==
    LET n == table_size
        b == (st.bucket + 1) % n
        correct_bucket == FirstBucket(n, HomeBucket(st.table[b].key, n),
                                      Gaps(st.table) \cup {b})
    IN  IF ~st.table[b].is_valid THEN [st EXCEPT !.done = TRUE]
        ELSE IF correct_bucket = b THEN [st EXCEPT !.bucket = b]
        ELSE [st EXCEPT !.bucket = b,
                        !.table = [@ EXCEPT ![correct_bucket] = st.table[b], ![b] = Empty]]

\* The loop: it starts at a looping_counter made from the removed bucket.
Repaired(removed) ==
    LET turns == table_size * table_size
        loop[i \in 0 .. turns] ==
            IF i = 0
            THEN [table |-> [table EXCEPT ![removed] = Empty],
                  bucket |-> looping_counter(removed, table_size), done |-> FALSE]
            ELSE LET st == loop[i - 1] IN IF st.done THEN st ELSE Repair(st)
    IN  loop[turns].table

\* remove: find, then _remove of the bucket found; a key not found changes nothing.
remove(k) ==
    LET b == _find(k) IN
    /\ removals < MaxRemovals
    /\ \/ /\ b # table_size
          /\ table' = Repaired(b) /\ entry_count' = entry_count - 1
          /\ disturbed' = (entry_count' # 0)
       \/ /\ b = table_size
          /\ UNCHANGED <<table, entry_count, disturbed>>
    /\ removals' = removals + 1
    /\ UNCHANGED <<table_size, resize_threshold, inserts>>

Next == \E k \in Keys : insert(k) \/ remove(k)

Spec == Init /\ [][Next]_vars
-----------------------------------------------------------------------------
(* Properties. *)

Stored(t) == {t[b] : b \in Valid(t)}

\* Probes of _find, _insert_in_table and _remove stop only at a gap: whatever was
\* inserted and removed before, the count is exact and half the table is free, and
\* growing never trips assert(_entry_count < new_threshold).
ProbesTerminate ==
    /\ entry_count = Cardinality(Valid(table)) /\ resize_threshold = table_size \div 2
    /\ entry_count <= resize_threshold
    /\ entry_count < next_larger_hash_prime(table_size) \div 2

Lookup == INSTANCE LookupTable

\* The table as its client sees it, and what find returns.
AsLookupTable == [entries |-> {[key |-> e.key, value |-> e.value] : e \in Stored(table)},
                  disturbed |-> disturbed]
find(k) == IF _find(k) = table_size THEN Lookup!Null ELSE table[_find(k)].value

\* find returns an entry of the key, and misses none while no removal has disturbed the
\* table: in whatever order keys that share buckets are inserted, through all the sizes.
FindsAsPromised == \A k \in Keys : find(k) \in Lookup!find(AsLookupTable, k)

\* Every call does to the entries what LookupTable says: growth keeps them all, and the
\* repair after a removal moves entries between buckets, however their runs overlap and go
\* round the end, without losing, doubling or overwriting one.
StepsAsPromised ==
    [][\E k \in Keys :
        \/ AsLookupTable' = Lookup!insert(AsLookupTable, k, inserts')
        \/ AsLookupTable' \in Lookup!remove(AsLookupTable, k)]_vars

\* Every key that has an entry is found.  It does not hold after a removal (README,
\* further divergences).
FindsEveryEntry == \A e \in Stored(table) : _find(e.key) # table_size
=============================================================================
