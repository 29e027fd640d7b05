--------------------------- MODULE GeometryCheck ---------------------------
(***************************************************************************)
(* The polygons of g2d.c against their definitions, on a small grid.       *)
(***************************************************************************)
EXTENDS Geometry

CONSTANTS
    Side,       \* bound: polygons lie on a grid of Side by Side points
    Outlines    \* bound: polygons that are not convex, as sequences of points

VARIABLES stage, input

vars == <<stage, input>>

Grid == (0 .. Side - 1) \X (0 .. Side - 1)

IsConvex(p) ==
    \A i \in DOMAIN p : LET e == EdgesOf(p)[i]
                        IN  \A r \in ToSet(p) \ ToSet(e) : Cross(Minus(e[2], e[1]), Minus(r, e[1])) > 0
(* Triangles begin with their leftmost point, quads with any. *)
Triangles == {p \in [1 .. 3 -> Grid] : IsInjective(p) /\ IsConvex(p) /\ LeftMost(p) = 1}
Quads     == {p \in [1 .. 4 -> Grid] : IsInjective(p) /\ IsConvex(p)}
Convex    == Triangles \cup Quads

Init == stage = "start" /\ input = <<>>

TakePoint ==
    /\ stage = "start"
    /\ \E p \in {c \in Convex : LeftMost(c) = 1} \cup Outlines, q \in (-1 .. 2 * Side) \X (-1 .. 2 * Side) :
          \E poly \in {p, Reverse(p)} : input' = [poly |-> poly, q |-> q]
    /\ stage' = "point"

TakePolygons ==
    /\ stage = "start"
    /\ \E a \in Triangles, b \in Convex, d \in {<<0, 0>>, <<1, 0>>, <<2, 1>>} :
          input' = [a |-> a, b |-> [i \in DOMAIN b |-> <<b[i][1] + d[1], b[i][2] + d[2]>>]]
    /\ stage' = "polygons"

(* Points in any order, not all in one line. *)
InLine(p, q, r) == Cross(Minus(q, p), Minus(r, p)) = 0
TakePoints ==
    /\ stage = "start"
    /\ \E n \in 3 .. 5 : \E points \in [1 .. n -> Grid] :
          /\ IsInjective(points)
          /\ \E i \in 1 .. n : ~InLine(points[1], points[2], points[i])
          /\ input' = points
    /\ stage' = "points"

Next == TakePoint \/ TakePolygons \/ TakePoints
Spec == Init /\ [][Next]_vars

-----------------------------------------------------------------------------
Twice(p) == [i \in DOMAIN p |-> <<2 * p[i][1], 2 * p[i][2]>>]
OnLine(q, e) == Cross(Minus(e[2], e[1]), Minus(q, e[1])) = 0
Between(q, e) ==
    /\ OnLine(q, e)
    /\ DotOf(Minus(e[1], q), Minus(e[2], q)) <= 0
OnBoundary(p, q) == \E e \in ToSet(EdgesOf(p)) : Between(q, e)

(* A ray to the right of q crosses an odd number of edges. *)
Inside(p, q) ==
    LET crossed == {e \in ToSet(EdgesOf(p)) :
                       /\ (e[1][2] > q[2]) # (e[2][2] > q[2])
                       /\ LET up == IF e[2][2] > e[1][2] THEN e ELSE <<e[2], e[1]>>
                          IN  Cross(Minus(up[2], up[1]), Minus(q, up[1])) > 0}
    IN  Cardinality(crossed) % 2 = 1

(* A point off the edges of a polygon is contained in it just if it is     *)
(* inside, whichever way the polygon is wound, convex or not.              *)
ContainsIsInside ==
    stage = "point" =>
        LET p == Twice(input.poly)
        IN  ~OnBoundary(p, input.q) => (ContainsPoint(p, input.q) <=> Inside(p, input.q))

(* Convex polygons, wound counterclockwise, are apart if one is to the     *)
(* right of an edge of the other.                                          *)
Apart(a, b) ==
    \/ \E e \in ToSet(EdgesOf(a)) : \A q \in ToSet(b) : Cross(Minus(e[2], e[1]), Minus(q, e[1])) < 0
    \/ \E e \in ToSet(EdgesOf(b)) : \A q \in ToSet(a) : Cross(Minus(e[2], e[1]), Minus(q, e[1])) < 0

Touch(a, b) == (\E q \in ToSet(b) : OnBoundary(a, q)) \/ (\E q \in ToSet(a) : OnBoundary(b, q))

(* Polygons overlap unless they are apart, also when one contains the      *)
(* other; and one that contains another has all its points inside.  Only   *)
(* where a corner of one lies on an edge of the other this depends on the  *)
(* rounding: if it is not noticed, polygons that share area may be told    *)
(* not to overlap.                                                         *)
OverlapIsSharing ==
    stage = "polygons" =>
        LET a == input.a
            b == input.b
        IN  \A touching \in BOOLEAN : touching \/ ~Touch(a, b) =>
              /\ PolygonsOverlap(a, b, touching) <=> ~Apart(a, b)
              /\ PolygonsOverlap(b, a, touching) <=> ~Apart(a, b)
              /\ ContainsPolygon(a, b, touching) =>
                    \A q \in ToSet(b) : Inside(Twice(a), <<2 * q[1], 2 * q[2]>>)

(* g2d.c:134: "The resulting polygon is CCW and implicitly closed.         *)
(* Unnecessary colinear points are omitted."                               *)
IsHull(h, points) ==
    /\ h.closed /\ IsInjective(h.hull) /\ IsConvex(h.hull)
    /\ \A e \in ToSet(EdgesOf(h.hull)), q \in ToSet(points) :
          Cross(Minus(e[2], e[1]), Minus(q, e[1])) >= 0

(* Where a counterclockwise walk around the points may go next from p, and *)
(* whence it may have come; on an edge, p is between such points.          *)
Ahead(points, p)  == {q \in ToSet(points) \ {p} : \A r \in ToSet(points) : Cross(Minus(q, p), Minus(r, p)) >= 0}
Behind(points, p) == {q \in ToSet(points) \ {p} : \A r \in ToSet(points) : Cross(Minus(q, p), Minus(r, p)) <= 0}
OnEdge(points, p) == \E q \in Ahead(points, p), r \in Behind(points, p) : InLine(p, q, r)
Precede(points, S, T) == \A i, j \in DOMAIN points : points[i] \in S /\ points[j] \in T => i < j

(* The wrapping stops at p, on an edge but no corner.  It starts there, or *)
(* the edge ends at its start, so that p is not left out; or it looks back *)
(* first, ahead next and only then to the side, and leaves the edge.       *)
Misleads(points, p) ==
    LET pleft  == points[LeftMost(points)]
        ahead  == Ahead(points, p)
        behind == Behind(points, p)
    IN  /\ OnEdge(points, p)
        /\ \/ p = pleft
           \/ /\ Precede(points, {p}, ahead)
              /\ \/ pleft \in ahead
                 \/ /\ points[IF points[1] = p THEN 2 ELSE 1] \in behind
                    /\ Precede(points, ahead, ToSet(points) \ (ahead \cup behind \cup {p}))

(* The hull is what the comment promises just if no point on one of its    *)
(* edges misleads the wrapping: contrary to the comment, points in a line  *)
(* are not always omitted, a corner may be, and the wrapping may not end.  *)
HullIsConvex ==
    stage = "points" =>
        (IsHull(ConvexHull(input, Len(input) + 1), input) <=> ~\E p \in ToSet(input) : Misleads(input, p))

(* Every line strictly between the heights of points crosses the polygon   *)
(* from outside to inside and out again.                                   *)
CrossingsAlternate ==
    stage = "point" =>
        LET p == Twice(input.poly)
            xs == Crossings(p, input.q[2], FALSE)
        IN  input.q[2] \notin {p[i][2] : i \in DOMAIN p} =>
              /\ xs = Crossings(p, input.q[2], TRUE)
              /\ Len(xs) % 2 = 0
              /\ ~OnBoundary(p, input.q) =>
                   (Inside(p, input.q) <=>
                       Len(SelectSeq(xs, LAMBDA e : LET m == Meeting(<<<<0, input.q[2]>>, <<1, input.q[2]>>>>, e)
                                                    IN  m[1] < input.q[1] * m[2])) % 2 = 1)
=============================================================================
