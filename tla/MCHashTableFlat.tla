-------------------------- MODULE MCHashTableFlat --------------------------
EXTENDS HashTableFlat

\* Connection ids hash to themselves.
IdHash == [k \in Keys |-> k]

\* Five keys that meet in few buckets: 3, 3, 4, 0 and 3 modulo 5; 10, 10, 10, 9 and 0
\* modulo 11, where their run goes round the end of the table.
AddressHash == [k \in Keys |-> CASE k = 1 -> 43 [] k = 2 -> 98 [] k = 3 -> 54
                                 [] k = 4 -> 20 [] k = 5 -> 33]
=============================================================================
