------------------------------ MODULE Geometry ------------------------------
(***************************************************************************)
(* Polygons in the plane, modules/apriltags/g2d.c.  Points have integer    *)
(* coordinates, for which the code's sums and products are exact; a        *)
(* quotient is compared by its products.  No two neighbouring points of a  *)
(* polygon are equal.                                                      *)
(***************************************************************************)
EXTENDS Integers, Sequences, FiniteSets, SequencesExt, FiniteSetsExt

Minus(a, b) == <<a[1] - b[1], a[2] - b[2]>>
DotOf(u, v) == u[1] * v[1] + u[2] * v[2]
Cross(u, v) == u[1] * v[2] - u[2] * v[1]

(* The edges of a polygon; the last point is followed by the first.        *)
EdgesOf(poly) == [i \in DOMAIN poly |-> <<poly[i], poly[(i % Len(poly)) + 1]>>]

-----------------------------------------------------------------------------
(* Lines and segments.  A line is a pair of points it goes through.        *)

(* g2d_line_intersect_line: how far along linea the lines meet, the        *)
(* quotient of the two numbers; parallel lines have 0 for the second.      *)
Meeting(linea, lineb) ==
    LET u   == Minus(linea[2], linea[1])
        v   == Minus(lineb[2], lineb[1])
        det == Cross(u, v)
        num == Cross(Minus(lineb[1], linea[1]), v)
    IN  IF det < 0 THEN <<-num, -det>> ELSE <<num, det>>

(* Between the ends of the segment.  The code divides the directions of    *)
(* lines by their lengths, so it depends on the rounding whether the very  *)
(* ends are taken to be on the segment: they are if `touching'.            *)
OnSegment(along, touching) ==
    /\ along[2] > 0 /\ 0 <= along[1] /\ along[1] <= along[2]
    /\ touching \/ along[1] \notin {0, along[2]}

(* g2d_line_segment_intersect_line *)
SegmentMeetsLine(seg, line, touching) == OnSegment(Meeting(seg, line), touching)

(* g2d_line_segment_intersect_segment *)
SegmentsMeet(sega, segb, touching) ==
    OnSegment(Meeting(sega, segb), touching) /\ OnSegment(Meeting(segb, sega), touching)

-----------------------------------------------------------------------------
(* Polygons. *)

(* Quadrants around q are numbered counterclockwise from the upper right;  *)
(* a point on an axis belongs to the one above or to the right.            *)
Quadrant(p, q) ==
    IF p[1] < q[1] THEN (IF p[2] < q[2] THEN 2 ELSE 1)
    ELSE IF p[2] < q[2] THEN 3 ELSE 0

(* Defect: a step to the opposite quadrant always turns left. *)
TurnAlwaysLeft(p0, p, q) ==
    LET d == Quadrant(p, q) - Quadrant(p0, q)
    IN  CASE d \in {-3, 1} -> 1 [] d \in {-1, 3} -> -1 [] d = 0 -> 0 [] d \in {-2, 2} -> 2

(* The quadrants by which the step from p0 to p turns around q. *)
Turn(p0, p, q) ==
    LET d == Quadrant(p, q) - Quadrant(p0, q)
        normal == <<p[2] - q[2], q[1] - p[1]>>
    IN  CASE d \in {-3, 1} -> 1 [] d \in {-1, 3} -> -1 [] d = 0 -> 0
          [] d \in {-2, 2} -> IF DotOf(normal, Minus(p0, q)) < 0 THEN -2 ELSE 2

(* g2d_polygon_contains_point *)
ContainsPoint(poly, q) ==
    LET edges == EdgesOf(poly)
        quad_acc == MapThenSumSet(LAMBDA i : Turn(edges[i][1], edges[i][2], q), DOMAIN edges)
    IN  quad_acc >= 2 \/ quad_acc <= -2

(* g2d_polygon_intersects_polygon.  Each end that touches may be rounded   *)
(* its own way; what is found then is between what is found if all are     *)
(* taken to touch and if none is.                                          *)
PolygonsIntersect(polya, polyb, touching) ==
    \E a \in ToSet(EdgesOf(polya)), b \in ToSet(EdgesOf(polyb)) : SegmentsMeet(a, b, touching)

(* g2d_polygon_contains_polygon *)
ContainsPolygon(polya, polyb, touching) ==
    ~PolygonsIntersect(polya, polyb, touching) /\ ContainsPoint(polya, polyb[1])

(* g2d_polygon_get_interior_point is a third of this. *)
InteriorPoint(poly) ==
    <<poly[1][1] + poly[2][1] + poly[3][1], poly[1][2] + poly[2][2] + poly[3][2]>>
Thrice(poly) == [i \in DOMAIN poly |-> <<3 * poly[i][1], 3 * poly[i][2]>>]

(* g2d_polygon_overlaps_polygon *)
PolygonsOverlap(polya, polyb, touching) ==
    \/ PolygonsIntersect(polya, polyb, touching)
    \/ ContainsPoint(Thrice(polya), InteriorPoint(polyb))
    \/ ContainsPoint(Thrice(polyb), InteriorPoint(polya))

(* g2d_polygon_rasterize: the edges that cross the line at height y, from  *)
(* left to right; each crossing is where the edge is at y, a quotient.     *)
Crossings(poly, y, touching) ==
    LET line     == <<<<0, y>>, <<1, y>>>>
        at(e)    == Meeting(line, e)
        before(d, e) == at(d)[1] * at(e)[2] < at(e)[1] * at(d)[2]
    IN  SortSeq(SelectSeq(EdgesOf(poly), LAMBDA e : SegmentMeetsLine(e, line, touching)), before)

-----------------------------------------------------------------------------
(* g2d_convex_hull wraps a line around the points, an array of different   *)
(* points.                                                                 *)

LeftMost(points) == SelectInSeq(points, LAMBDA p : \A r \in ToSet(points) : p[1] <= r[1])

(* The point q of which no other is right of the line from p to it: the    *)
(* last to be taken in one pass over the points.                           *)
WrapFrom(points, p) ==
    FoldLeft(LAMBDA q, this : IF this = p THEN q
                              ELSE IF q = p \/ Cross(Minus(q, p), Minus(this, p)) < 0 THEN this ELSE q,
             p, points)

(* A point in line with the last two takes the place of the last. *)
Extended(hull, q) ==
    IF Len(hull) > 1 /\ Cross(Minus(q, Last(hull)), Minus(hull[Len(hull) - 1], Last(hull))) = 0
    THEN [hull EXCEPT ![Len(hull)] = q]
    ELSE Append(hull, q)

(* The hull after n passes, and whether the last came back to the start.   *)
ConvexHull(points, passes) ==
    LET pleft == points[LeftMost(points)]
        wrap[n \in 0 .. passes] ==
            IF n = 0 THEN [hull |-> <<pleft>>, closed |-> FALSE]
            ELSE LET w == wrap[n - 1]
                     q == WrapFrom(points, Last(w.hull))
                 IN  IF w.closed \/ q = pleft THEN [w EXCEPT !.closed = TRUE]
                     ELSE [w EXCEPT !.hull = Extended(w.hull, q)]
    IN  wrap[passes]
=============================================================================
