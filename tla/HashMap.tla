------------------------------ MODULE HashMap ------------------------------
(***************************************************************************)
(* The hash table of include/HashMap.hpp: buckets of at most BucketSize    *)
(* elements, doubled when the load or a bucket is too high.  An insertion  *)
(* takes several steps, one a rehash, since nothing bounds how often it    *)
(* rehashes.                                                               *)
(***************************************************************************)
EXTENDS Integers, Sequences, FiniteSets, SequencesExt, Functions

CONSTANTS
    Keys, Values,
    Hash,             \* hash_func, a function of Keys
    InitialBuckets,   \* 5 in the constructor
    BucketSize,       \* BUCKET_SIZE
    MaxLoad,          \* max_load_factor
    MaxBuckets        \* bound: buckets from which on no removed key is inserted again

VARIABLES
    data,         \* the elements of each bucket
    n_elements,
    next_rehash,
    op,           \* the insertion under way: its kind, key and value
    overfull,     \* whether a rehash has found a bucket full, and so starts over for ever
    found         \* whether the last operation has found its key

vars == <<data, n_elements, next_rehash, op, overfull, found>>

TableAssumption ==
    /\ Hash \in [Keys -> Nat]
    /\ {InitialBuckets, BucketSize, MaxLoad} \subseteq Nat \ {0}

Idle == [kind |-> "none", key |-> 0, val |-> 0]

Init ==
    /\ data = [b \in 1 .. InitialBuckets |-> <<>>]
    /\ n_elements = 0 /\ next_rehash = InitialBuckets * MaxLoad
    /\ op = Idle /\ overfull = FALSE /\ found = FALSE

-----------------------------------------------------------------------------
Place(n, k) == (Hash[k] % n) + 1
BucketOf(k) == data[Place(Len(data), k)]
Index(bucket, k) == SelectInSeq(bucket, LAMBDA e : e.key = k)
IsIn(k) == Index(BucketOf(k), k) # 0
Full(k) == Len(BucketOf(k)) = BucketSize

(* An element becomes the last one of its bucket.                          *)
Placed(table, e) == [table EXCEPT ![Place(Len(table), e.key)] = Append(@, e)]

(* rehash takes the elements to n new buckets, one after the other.        *)
Spread(n) == FoldLeft(Placed, [b \in 1 .. n |-> <<>>], FlattenSeq(data))

Rehash ==
    LET new == Spread(2 * Len(data))
    IN  /\ next_rehash' = 2 * Len(data) * MaxLoad
        /\ IF \E b \in DOMAIN new : Len(new[b]) > BucketSize
           THEN overfull' = TRUE /\ UNCHANGED data
           ELSE data' = new /\ UNCHANGED overfull

Idling == op = Idle /\ ~overfull
Begin(kind, k, v) == op' = [kind |-> kind, key |-> k, val |-> v]

-----------------------------------------------------------------------------
(* insert rehashes for the load at most once, before the key is looked for *)
(* and even if it is there; then for as long as its bucket is full.        *)
BeginInsert(k, v) ==
    /\ Idling /\ Len(data) <= MaxBuckets
    /\ Begin("insert", k, v)
    /\ IF n_elements + 1 >= next_rehash THEN Rehash ELSE UNCHANGED <<data, next_rehash, overfull>>
    /\ UNCHANGED <<n_elements, found>>

(* hm[k] = v, an assignment to what get returns: a key that is there keeps *)
(* its place, and one that is not gets one.                                *)
AssignPresent(k, v) ==
    /\ Idling /\ IsIn(k)
    /\ data' = [data EXCEPT ![Place(Len(data), k)][Index(BucketOf(k), k)].val = v]
    /\ found' = TRUE
    /\ UNCHANGED <<n_elements, next_rehash, op, overfull>>

BeginAssign(k, v) ==
    /\ Idling /\ ~IsIn(k) /\ Len(data) <= MaxBuckets
    /\ Begin("get", k, v)
    /\ UNCHANGED <<data, n_elements, next_rehash, overfull, found>>

MustRehash ==
    \/ Full(op.key)
    \/ op.kind = "get" /\ n_elements + 1 >= next_rehash

RehashAgain ==
    /\ op # Idle /\ ~overfull /\ MustRehash
    /\ Rehash
    /\ UNCHANGED <<n_elements, op, found>>

Finish ==
    /\ op # Idle /\ ~overfull /\ ~MustRehash
    /\ found' = IsIn(op.key)
    /\ IF found' THEN UNCHANGED <<data, n_elements>>
       ELSE data' = Placed(data, [key |-> op.key, val |-> op.val]) /\ n_elements' = n_elements + 1
    /\ op' = Idle
    /\ UNCHANGED <<next_rehash, overfull>>

(* remove closes the gap, and does not count the element out. *)
RemoveKey(k) ==
    /\ Idling
    /\ found' = IsIn(k)
    /\ data' = [data EXCEPT ![Place(Len(data), k)] =
                   IF found' THEN RemoveAt(@, Index(@, k)) ELSE @]
    /\ UNCHANGED <<n_elements, next_rehash, op, overfull>>

ContainsKey(k) == Idling /\ found' = IsIn(k) /\ UNCHANGED <<data, n_elements, next_rehash, op, overfull>>

(* copy, for operator= and the copy constructor: the memory of the table   *)
(* is replaced (and leaks) by as many buckets as the other has; a bucket   *)
(* that is assigned copies as many elements as it has itself, none.  The   *)
(* count of the elements stays; that of a table that is constructed is     *)
(* never initialized.  Bounds: the other table was doubled once at most,   *)
(* and what is not initialized is 0 or more than a new table may hold.     *)
OtherBuckets  == {InitialBuckets, 2 * InitialBuckets}
Uninitialized == {0, InitialBuckets * MaxLoad}
Copy(n) ==
    /\ Idling
    /\ data' = [b \in 1 .. n |-> <<>>] /\ next_rehash' = n * MaxLoad
    /\ \/ n_elements' = n_elements /\ n_elements <= InitialBuckets * MaxLoad
       \/ n_elements' \in Uninitialized
    /\ UNCHANGED <<op, overfull, found>>

Next ==
    \/ \E n \in OtherBuckets : Copy(n)
    \/ \E k \in Keys, v \in Values : BeginInsert(k, v) \/ AssignPresent(k, v) \/ BeginAssign(k, v)
    \/ RehashAgain \/ Finish
    \/ \E k \in Keys : RemoveKey(k) \/ ContainsKey(k)

Spec == Init /\ [][Next]_vars

-----------------------------------------------------------------------------
Present == {k \in Keys : IsIn(k)}
Map == [k \in Present |-> BucketOf(k)[Index(BucketOf(k), k)].val]
Contract == INSTANCE MapContract WITH map <- Map, found <- found

(* Every step is one of a map: a rehash loses no element, in whichever     *)
(* order elements and rehashes come; but for a copy, which is empty        *)
(* whatever the other table holds.                                         *)
CopyIsEmpty == \E n \in OtherBuckets : Copy(n) /\ DOMAIN Map' = {}
IsAMap == [Contract!Next]_<<Map, found>> \/ CopyIsEmpty

(* A rehash never finds a bucket of the doubled table full, since what is  *)
(* in one of them was in one bucket of the table before.  So the loop that *)
(* would start over with the same size for ever is not entered.            *)
RehashSucceeds == ~overfull

(* No bucket overflows, and the elements counted are those there are and   *)
(* those that were removed.                                                *)
BucketsHold ==
    /\ \A b \in DOMAIN data : Len(data[b]) <= BucketSize
    /\ n_elements >= Cardinality(Present)
    /\ Len(FlattenSeq(data)) = Cardinality(Present)

(* Every insertion comes to its end. *)
InsertionsEnd == op # Idle ~> op = Idle
=============================================================================
