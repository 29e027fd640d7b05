------------------------------- MODULE ZHash -------------------------------
(***************************************************************************)
(* The hash table of modules/apriltags/zhash.c: buckets of entries, which  *)
(* are doubled when the table is too full, and an iterator over it.        *)
(***************************************************************************)
EXTENDS Integers, Sequences, FiniteSets, SequencesExt, Functions

CONSTANTS
    Keys, Values,
    Hash,             \* the function of keys zh->hash
    InitialBuckets,   \* INITIAL_NBUCKETS
    RehashRatio       \* REHASH_RATIO

VARIABLES
    buckets,   \* the entries of each bucket
    size,      \* zh->size
    found,     \* what the last operation returned
    zit        \* an iterator; `given' and `start' are history: the keys it has
               \* returned, and those there were when it was made

vars == <<buckets, size, found, zit>>

TableAssumption == Hash \in [Keys -> Nat] /\ {InitialBuckets, RehashRatio} \subseteq Nat \ {0}

Empty(n) == [b \in 1 .. n |-> <<>>]
NoIterator == [valid |-> FALSE, bucket |-> 0, idx |-> 0, given |-> <<>>, start |-> {}]

Init == buckets = Empty(InitialBuckets) /\ size = 0 /\ found = FALSE /\ zit = NoIterator

-----------------------------------------------------------------------------
Place(table, k) == (Hash[k] % Len(table)) + 1
Index(bucket, k) == SelectInSeq(bucket, LAMBDA e : e.key = k)
IsIn(table, k) == Index(table[Place(table, k)], k) # 0

(* The entries in the order of an iterator. *)
Entries(table) == FlattenSeq(table)

(* zhash_put_real *)
PutReal(table, k, v) ==
    LET i == Index(table[Place(table, k)], k)
        entry == [key |-> k, value |-> v]
    IN  [table EXCEPT ![Place(table, k)] =
            IF i = 0 THEN Append(@, entry) ELSE [@ EXCEPT ![i] = entry]]

PutAll(table, entries) == FoldLeft(LAMBDA t, e : PutReal(t, e.key, e.value), table, entries)

Doubled(table) == PutAll(Empty(2 * Len(table)), Entries(table))

(* zhash_put: the table is doubled before the key is looked for. *)
Grown(table, n) == IF Len(table) * RehashRatio < n THEN Doubled(table) ELSE table
Put(k, v) ==
    /\ buckets' = PutReal(Grown(buckets, size), k, v)
    /\ found' = IsIn(buckets, k)
    /\ size' = IF found' THEN size ELSE size + 1
    /\ zit' = NoIterator

(* zhash_remove: the last entry of the bucket fills the gap. *)
Shuffled(bucket, i) == Front([bucket EXCEPT ![i] = Last(bucket)])
RemoveReal(k) ==
    /\ found' = IsIn(buckets, k)
    /\ IF found'
       THEN /\ buckets' = [buckets EXCEPT ![Place(buckets, k)] = Shuffled(@, Index(@, k))]
            /\ size' = size - 1
       ELSE UNCHANGED <<buckets, size>>

RemoveKey(k) == RemoveReal(k) /\ zit' = NoIterator

(* zhash_get, zhash_get_volatile and zhash_contains *)
Get(k) == found' = IsIn(buckets, k) /\ UNCHANGED <<buckets, size, zit>>

(* zhash_copy, and the destruction of the original.  What is put one by    *)
(* one into a new table makes it grow one doubling behind the original.    *)
CopyOf(entries) ==
    LET copied[n \in 0 .. Len(entries)] ==
            IF n = 0 THEN Empty(InitialBuckets)
            ELSE PutReal(Grown(copied[n - 1], n - 1), entries[n].key, entries[n].value)
    IN  copied[Len(entries)]
Copy ==
    /\ buckets' = CopyOf(Entries(buckets))
    /\ zit' = NoIterator
    /\ UNCHANGED <<size, found>>

-----------------------------------------------------------------------------
(* Iteration; zhash_keys, zhash_values and the maps over them iterate.     *)

IteratorInit ==
    /\ zit' = [NoIterator EXCEPT !.valid = TRUE, !.start = {e.key : e \in ToSet(Entries(buckets))}]
    /\ UNCHANGED <<buckets, size, found>>

(* The first place from that of the iterator on which has an entry. *)
NextPlace ==
    LET nonempty == {b \in zit.bucket .. Len(buckets) - 1 :
                        Len(buckets[b + 1]) > (IF b = zit.bucket THEN zit.idx ELSE 0)}
    IN  IF nonempty = {} THEN Len(buckets)
        ELSE CHOOSE b \in nonempty : \A c \in nonempty : b <= c

IteratorNext ==
    /\ zit.valid
    /\ LET b   == NextPlace
           idx == IF b = zit.bucket THEN zit.idx ELSE 0
       IN  IF b = Len(buckets)
           THEN found' = FALSE /\ zit' = [zit EXCEPT !.bucket = b, !.idx = 0]
           ELSE /\ found' = TRUE
                /\ zit' = [zit EXCEPT !.bucket = b, !.idx = idx + 1,
                                      !.given = Append(@, buckets[b + 1][idx + 1].key)]
    /\ UNCHANGED <<buckets, size>>

(* Defect: the iterator stays on the entry that fills the gap.             *)
StayThere == zit' = zit

StepBack == zit' = [zit EXCEPT !.idx = @ - 1]

(* zhash_iterator_remove, after an entry was returned. *)
IteratorRemove ==
    /\ zit.valid /\ zit.given # <<>> /\ zit.bucket < Len(buckets)
    /\ IsIn(buckets, Last(zit.given))
    /\ RemoveReal(Last(zit.given))
    /\ StepBack

Next ==
    \/ \E k \in Keys, v \in Values : Put(k, v)
    \/ \E k \in Keys : RemoveKey(k) \/ Get(k)
    \/ Copy
    \/ IteratorInit \/ IteratorNext \/ IteratorRemove

Spec == Init /\ [][Next]_vars

-----------------------------------------------------------------------------
(* The table as a map: what a key's bucket says of it. *)
Present == {k \in Keys : IsIn(buckets, k)}
Map == [k \in Present |-> LET bucket == buckets[Place(buckets, k)] IN bucket[Index(bucket, k)].value]

Contract == INSTANCE MapContract WITH map <- Map, found <- found

(* Every step is one of the map, however the table is doubled, copied and  *)
(* shuffled: no key is lost or seen twice.  (A step of an iterator finds   *)
(* an entry or not.)                                                       *)
IsAMap ==
    \/ [Contract!Next]_<<Map, found>>
    \/ Map' = Map /\ (IteratorNext \/ Copy)

(* size is the number of entries, and no bucket keeps one of another.      *)
SizeIsExact ==
    /\ size = Cardinality(Present)
    /\ size = Len(Entries(buckets))

(* An iterator that only its own removals disturb returns every key once,  *)
(* and has returned all of them when it ends.                              *)
EachKeyOnce ==
    zit.valid =>
        /\ IsInjective(zit.given)
        /\ ToSet(zit.given) \subseteq zit.start
        /\ zit.bucket = Len(buckets) => ToSet(zit.given) = zit.start
=============================================================================
