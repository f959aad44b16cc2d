---------------------------- MODULE LookupTable ----------------------------
(***************************************************************************)
(* What a torque_socket can rely on in its two lookup tables               *)
(* (core/hash_table_flat.h), the table of connections by id and the one by *)
(* address.  HashTableFlat is the table itself and is shown to keep to     *)
(* this.                                                                   *)
(*                                                                         *)
(* A table has a set of entries; one key may have several.  find returns   *)
(* one of the key, whichever it meets first.  A removal that leaves other  *)
(* entries behind disturbs the table: the gap may cut off entries that     *)
(* once collided with the one removed, so that from then on find, and      *)
(* with it remove, may miss an entry that is there.  An empty table has    *)
(* no gaps.                                                                *)
(***************************************************************************)
NewTable == [entries |-> {}, disturbed |-> FALSE]

Null == 0                \* the pointer of a find that meets a gap

Entries(t, k) == {e \in t.entries : e.key = k}

MayMiss(t, k) == t.disturbed \/ Entries(t, k) = {}

\* The values find may return.
find(t, k) == {e.value : e \in Entries(t, k)} \cup {v \in {Null} : MayMiss(t, k)}

insert(t, k, v) == [t EXCEPT !.entries = @ \cup {[key |-> k, value |-> v]}]

Without(t, e) == [entries |-> t.entries \ {e}, disturbed |-> t.entries # {e}]

\* The tables remove may leave.
remove(t, k) == {Without(t, e) : e \in Entries(t, k)} \cup {u \in {t} : MayMiss(t, k)}
=============================================================================
