------------------------------- MODULE ZArray -------------------------------
(***************************************************************************)
(* The growing array of modules/apriltags/zarray.c, as the memory it is    *)
(* in: za->data is the sequence of the za->alloc cells, of which the first *)
(* za->size are in use, and elements are moved by memmove.                 *)
(***************************************************************************)
EXTENDS Integers, Sequences, SequencesExt, Functions

CONSTANTS
    Elements,
    MinAlloc,   \* MIN_ALLOC
    MaxSize     \* bound: elements in the array

VARIABLES
    data,   \* the cells; what was never written is Unset
    size    \* za->size

vars == <<data, size>>

Unset == 0
ListAssumption == Elements \subseteq Int \ {Unset} /\ MinAlloc \in Nat \ {0} /\ MaxSize \in Nat

Init == data = <<>> /\ size = 0

Contents == SubSeq(data, 1, size)

-----------------------------------------------------------------------------
(* memmove of n cells, indices from 0. *)
Moved(cells, to, from, n) ==
    [c \in DOMAIN cells |-> IF c - 1 \in to .. to + n - 1 THEN cells[c - to + from] ELSE cells[c]]

(* zarray_ensure_capacity doubles at most once, which is enough for one    *)
(* element more.                                                           *)
NewAlloc(alloc) == IF 2 * alloc < MinAlloc THEN MinAlloc ELSE 2 * alloc
Ensured(cells, capacity) ==
    IF Len(cells) > capacity THEN cells
    ELSE cells \o [c \in 1 .. NewAlloc(Len(cells)) - Len(cells) |-> Unset]

(* zarray_add *)
Add(e) ==
    /\ size < MaxSize
    /\ data' = [Ensured(data, size + 1) EXCEPT ![size + 1] = e]
    /\ size' = size + 1

(* Defect: one element too few is moved. *)
MovedByInsertShort(cells, idx) == Moved(cells, idx + 1, idx, size - idx - 1)

MovedByInsert(cells, idx) == Moved(cells, idx + 1, idx, size - idx)

(* zarray_insert *)
InsertElement(idx, e) ==
    /\ size < MaxSize
    /\ data' = [MovedByInsert(Ensured(data, size + 1), idx) EXCEPT ![idx + 1] = e]
    /\ size' = size + 1

(* zarray_remove_index, either way *)
RemoveIndex(idx) ==
    /\ data' = Moved(data, idx, idx + 1, size - idx - 1)
    /\ size' = size - 1

RemoveShuffling(idx) ==
    /\ data' = [data EXCEPT ![idx + 1] = data[size]]
    /\ size' = size - 1

(* zarray_index_of, and zarray_contains; -1 if there is none.              *)
IndexOf(e) == SelectInSeq(Contents, LAMBDA f : f = e) - 1

(* zarray_remove_value removes the first that is equal. *)
RemoveValue(e) ==
    IF IndexOf(e) = -1 THEN UNCHANGED vars
    ELSE RemoveIndex(IndexOf(e)) \/ RemoveShuffling(IndexOf(e))

(* zarray_set *)
Set(idx, e) == data' = [data EXCEPT ![idx + 1] = e] /\ UNCHANGED size

(* zarray_clear keeps the cells as they are. *)
Clear == size' = 0 /\ UNCHANGED data

(* zarray_copy copies the elements, and no others, to cells of its own. *)
Copy ==
    /\ data' = Contents \o [c \in 1 .. Len(data) - size |-> Unset]
    /\ UNCHANGED size

(* zarray_sort, by qsort: some order of the cells that is ascending.       *)
Orders(s) ==
    {p \in Bijection(DOMAIN s, DOMAIN s) : \A i, j \in DOMAIN s : i < j => s[p[i]] <= s[p[j]]}
Sorted(s) == LET p == CHOOSE p \in Orders(s) : TRUE IN [i \in DOMAIN s |-> s[p[i]]]
Sort ==
    /\ data' = Sorted(Contents) \o SubSeq(data, size + 1, Len(data))
    /\ UNCHANGED size

Next ==
    \/ \E e \in Elements : Add(e) \/ RemoveValue(e)
    \/ \E e \in Elements, idx \in 0 .. size : InsertElement(idx, e)
    \/ \E idx \in 0 .. size - 1 :
          \/ RemoveIndex(idx) \/ RemoveShuffling(idx)
          \/ \E e \in Elements : Set(idx, e)
    \/ Clear \/ Copy \/ Sort

Spec == Init /\ [][Next]_vars

-----------------------------------------------------------------------------
(* The elements are in the cells that are in use, and no cell beyond those *)
(* allocated is needed.                                                    *)
ElementsAreHeld == size <= Len(data) /\ \A i \in 1 .. size : data[i] \in Elements

(* The elements follow the operations as those of a sequence would,        *)
(* wherever the cells are moved and whenever the array grows.              *)
IsASequence ==
    \/ UNCHANGED Contents
    \/ Contents' = <<>>
    \/ \E p \in Orders(Contents) : Contents' = [i \in 1 .. size |-> Contents[p[i]]]
    \/ \E e \in Elements :
          \/ Contents' = Append(Contents, e)
          \/ \E i \in 1 .. size + 1 : Contents' = InsertAt(Contents, i, e)
          \/ \E i \in 1 .. size : Contents' = [Contents EXCEPT ![i] = e]
    \/ \E i \in 1 .. size :
          \/ Contents' = RemoveAt(Contents, i)
          \/ Contents' = Front([Contents EXCEPT ![i] = Last(Contents)])
=============================================================================
