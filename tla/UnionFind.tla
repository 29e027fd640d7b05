----------------------------- MODULE UnionFind -----------------------------
(***************************************************************************)
(* The disjoint sets of modules/apriltags/unionfind.h.  A union-find is    *)
(* the function from ids 0 .. maxid to the parent of each and to its       *)
(* `size', which is one less than the size of the set, at roots.           *)
(*                                                                         *)
(* A parent of zero stands for "its own parent", so that calloc can make   *)
(* one; an id cannot have 0 for its parent and not be a root.              *)
(***************************************************************************)
EXTENDS Integers, FiniteSets

(* unionfind_create *)
Create(maxid) == [id \in 0 .. maxid |-> [parent |-> 0, size |-> 0]]

IsRoot(uf, id) == uf[id].parent = 0

Representative(uf, id) ==
    LET root[i \in DOMAIN uf] == IF IsRoot(uf, i) THEN i ELSE root[uf[i].parent]
    IN  root[id]

(* The ids on the way from id to its root, which is left out. *)
Path(uf, id) ==
    LET path[i \in DOMAIN uf] == IF IsRoot(uf, i) THEN {} ELSE {i} \cup path[uf[i].parent]
    IN  path[id]

(* unionfind_get_representative leaves every id on the way at the root. *)
Compressed(uf, id) ==
    [i \in DOMAIN uf |->
        IF i \in Path(uf, id) THEN [uf[i] EXCEPT !.parent = Representative(uf, id)] ELSE uf[i]]

(* unionfind_get_set_size *)
SetSize(uf, id) == uf[Representative(uf, id)].size + 1

(* The root of the larger set, and of equal ones that of bid, remains. *)
Winner(uf, aroot, broot) == IF uf[aroot].size > uf[broot].size THEN aroot ELSE broot

Linked(uf, root, child) ==
    [uf EXCEPT ![child].parent = root, ![root].size = @ + uf[child].size + 1]

(* unionfind_connect; what it returns is the Winner of the two roots. *)
Connect(uf, aid, bid) ==
    LET aroot == Representative(uf, aid)
        broot == Representative(uf, bid)
        found == Compressed(Compressed(uf, aid), bid)
        root  == Winner(uf, aroot, broot)
    IN  IF aroot = broot THEN found
        ELSE Linked(found, root, IF root = aroot THEN broot ELSE aroot)
=============================================================================
