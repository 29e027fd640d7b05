------------------------------ MODULE Gridder ------------------------------
(***************************************************************************)
(* The grid of cells in which the detector looks for the segments near a   *)
(* point (src/modules/apriltags/gridder.h).                                *)
(***************************************************************************)
EXTENDS Integers, Sequences, SequencesExt

CONSTANTS
    X1, Y1,      \* the lower right corner; the upper left one is <<0, 0>>
    CellSize,
    Positions,   \* bound: where items are added and looked for
    Radii,       \* bound: how far is looked
    MaxItems     \* bound: items that are added

VARIABLES
    cells,       \* the items of each cell, in their order
    added        \* where the items 1, 2, ... were added
gridVars == <<cells, added>>

\* Division of C, and a ceiling.
Cell(x) == IF x >= 0 THEN x \div CellSize ELSE -((-x) \div CellSize)
width == (X1 + CellSize - 1) \div CellSize
height == (Y1 + CellSize - 1) \div CellSize
Clamp(x, x0, x1) == IF x < x0 THEN x0 ELSE IF x > x1 THEN x1 ELSE x

Init ==
    /\ cells = [c \in (0 .. width - 1) \X (0 .. height - 1) |-> <<>>]
    /\ added = <<>>
Add(at) ==
    LET c == <<Cell(at[1]), Cell(at[2])>>
    IN  /\ Len(added) < MaxItems
        /\ added' = Append(added, at)
        /\ cells' = IF c \in DOMAIN cells THEN [cells EXCEPT ![c] = Append(@, Len(added'))] ELSE cells
Next == \E at \in Positions : Add(at)
Spec == Init /\ [][Next]_gridVars

(* Defect: the last column of cells is left out. *)
IteratorInitShort(at, r) ==
    LET Lo(i, n) == Clamp(Cell(at[i] - r), 0, n - 1)
        Hi(i, n) == Clamp(Cell(at[i] + r), 0, n - 2)
    IN  [x0 |-> Lo(1, width), x1 |-> Hi(1, width), y1 |-> Hi(2, height),
         x |-> Lo(1, width), y |-> Lo(2, height), pos |-> 1]

IteratorInit(at, r) ==
    LET Lo(i, n) == Clamp(Cell(at[i] - r), 0, n - 1)
        Hi(i, n) == Clamp(Cell(at[i] + r), 0, n - 1)
    IN  [x0 |-> Lo(1, width), x1 |-> Hi(1, width), y1 |-> Hi(2, height),
         x |-> Lo(1, width), y |-> Lo(2, height), pos |-> 1]
RECURSIVE IteratorNext(_)
\* The items that are left to an iterator.
IteratorNext(gi) ==
    LET c == cells[gi.x, gi.y]
    IN  IF gi.pos <= Len(c) THEN <<c[gi.pos]>> \o IteratorNext([gi EXCEPT !.pos = @ + 1])
        ELSE IF gi.x < gi.x1 THEN IteratorNext([gi EXCEPT !.x = @ + 1, !.pos = 1])
        ELSE IF gi.y < gi.y1 THEN IteratorNext([gi EXCEPT !.x = gi.x0, !.y = @ + 1, !.pos = 1])
        ELSE <<>>

(* Whatever was added in the grid, or less than a cell before it, is found *)
(* once from any point it is near to, and nothing is that is further away  *)
(* than a cell; from outside of the grid the cells at its border are seen. *)
Kept(at) == \A i \in {1, 2} : -CellSize < at[i] /\ at[i] < CellSize * <<width, height>>[i]
Near(a, b, r) == \A i \in {1, 2} : a[i] - b[i] \in -r .. r
NearIsFound ==
    \A at \in Positions, r \in Radii :
        LET found == IteratorNext(IteratorInit(at, r))
        IN  /\ IsInjective(found)
            /\ \A i \in DOMAIN added :
                  /\ Kept(added[i]) /\ Near(added[i], at, r) => i \in ToSet(found)
                  /\ Kept(at) /\ i \in ToSet(found) => Kept(added[i]) /\ Near(added[i], at, r + 2 * CellSize - 2)
=============================================================================
