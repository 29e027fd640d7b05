---------------------------- MODULE MapContract ----------------------------
(***************************************************************************)
(* What a hash table promises: it is a map, and every operation says       *)
(* whether it has found its key.                                           *)
(***************************************************************************)
EXTENDS Functions

CONSTANTS Keys, Values

VARIABLES map, found

(* The value of a key is written, whether it had one or not. *)
Put(k, v) ==
    /\ map' = [j \in DOMAIN map \cup {k} |-> IF j = k THEN v ELSE map[j]]
    /\ found' = (k \in DOMAIN map)

(* The value of a key is written if it has none. *)
Insert(k, v) ==
    /\ map' = [j \in DOMAIN map \cup {k} |-> IF j \in DOMAIN map THEN map[j] ELSE v]
    /\ found' = (k \in DOMAIN map)

Remove(k) == map' = Restrict(map, DOMAIN map \ {k}) /\ found' = (k \in DOMAIN map)

Get(k) == found' = (k \in DOMAIN map) /\ UNCHANGED map

Next ==
    \E k \in Keys :
        \/ \E v \in Values : Put(k, v) \/ Insert(k, v)
        \/ Remove(k)
        \/ Get(k)
=============================================================================
