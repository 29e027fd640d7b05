-------------------------- MODULE MarkerDetection --------------------------
(***************************************************************************)
(* FXBcam of src/fxbcam.cpp as operators: thresholds from the marker file, *)
(* blobs of the two colours, the identification of the LEDs of one square  *)
(* object, the rays cast through them, and their intersection.             *)
(*                                                                         *)
(* A colour is a number, in place of its three HSV components; a light is  *)
(* what dilate, findContours and moments make of the pixels of one LED:    *)
(* its centre in whole pixels (Blob and Marker truncate it), area, colour. *)
(***************************************************************************)
EXTENDS Integers, Sequences, FiniteSets, SequencesExt, FiniteSetsExt

CONSTANT Colors    \* the colours of pixels, numbers

Nothing == -1   \* a node that is not in the file; an id that was not assigned

Blue == 0
Red  == 2

-----------------------------------------------------------------------------
(* Thresholds. *)

(* rgb_threshold, NULL until `loaded', markers_min and markers_max.        *)
NewCamera == [loaded |-> FALSE, table |-> [c \in Colors |-> {}], mins |-> <<>>, maxs |-> <<>>]

(* What readCamPara needs, all of it; a file that is not there has none.   *)
Parameters == {"intrinsic", "distCoeff", "Rc_ext", "Tc_ext"}
ReadCamPara(file) == Parameters \subseteq file

(* The entries marker_min<i>, marker_max<i> up to the first that lacks one. *)
WholeEntries(entries) ==
    LET broken == {i \in DOMAIN entries : Nothing \in {entries[i].min, entries[i].max}}
    IN  IF broken = {} THEN entries ELSE SubSeq(entries, 1, Min(broken) - 1)

(* The table has a bit per marker, in a byte.  The ranges of an earlier    *)
(* file stay in front, and so does a minimum without a maximum.  Without a *)
(* file there is no table.                                                 *)
ReadMarkerData(camera, file) ==
    IF ~file.found THEN camera
    ELSE LET whole  == WholeEntries(file.entries)
             n      == Len(whole)
             next   == SubSeq(file.entries, n + 1, Min({n + 1, Len(file.entries)}))
             mins   == camera.mins \o [i \in 1 .. n |-> whole[i].min]
                         \o SelectSeq([i \in DOMAIN next |-> next[i].min], LAMBDA v : v # Nothing)
             maxs   == camera.maxs \o [i \in 1 .. n |-> whole[i].max]
         IN  [loaded |-> TRUE,
              table  |-> [c \in Colors |->
                            {m \in 0 .. n - 1 : m < 8 /\ c \in mins[m + 1] .. maxs[m + 1]}],
              mins   |-> mins,
              maxs   |-> maxs]

(* inRange_table_v: the program exits if there is no table. *)
CanSegment(camera) == camera.loaded
Segment(camera, lights, m) == SelectSeq(lights, LAMBDA b : m \in camera.table[b.color])

-----------------------------------------------------------------------------
(* Blobs and markers. *)

FindBlobs(lights) == SelectSeq(lights, LAMBDA b : b.area > 5 /\ b.area < 1000000)

ByArea(blobs) == SortSeq(blobs, LAMBDA a, b : a.area > b.area)

NewMarker(blob, color) == [x |-> blob.x, y |-> blob.y, color |-> color, id |-> Nothing]

(* organizeMarkers: every blue blob and the largest red one.               *)
OrganizeMarkers(camera, lights) ==
    LET blobs(m) == ByArea(FindBlobs(Segment(camera, lights, m)))
        markers(m, color) == [i \in DOMAIN blobs(m) |-> NewMarker(blobs(m)[i], color)]
        reds == markers(1, Red)
    IN  markers(0, Blue) \o SubSeq(reds, 1, Min({1, Len(reds)}))

-----------------------------------------------------------------------------
(* Angles.  atan2 is compared without being computed: theta is the angle   *)
(* of a vector in [0, 2 pi).                                               *)
Cross(u, v) == u.x * v.y - u.y * v.x
Turn(u, v)  == [x |-> u.x * v.x + u.y * v.y, y |-> Cross(u, v)]   \* the angle from u to v
UpperHalf(u) == u.y > 0 \/ (u.y = 0 /\ u.x >= 0)
AngleLess(u, v) ==
    \/ UpperHalf(u) /\ ~UpperHalf(v)
    \/ UpperHalf(u) = UpperHalf(v) /\ Cross(u, v) > 0

(* The vector from the centroid to marker m, times the number of markers.  *)
FromCentroid(ms, m) ==
    LET sum(f(_)) == FoldLeft(LAMBDA acc, k : acc + f(k), 0, ms)
    IN  [x |-> Len(ms) * m.x - sum(LAMBDA k : k.x), y |-> Len(ms) * m.y - sum(LAMBDA k : k.y)]

SortByTheta(ms) ==
    SortSeq(ms, LAMBDA a, b : AngleLess(FromCentroid(ms, a), FromCentroid(ms, b)))

(* The markers that come after the largest gap.  When several gaps are the *)
(* same the rounding of atan2 makes one of them the largest.               *)
Starts(ms) ==
    LET dir == [i \in DOMAIN ms |-> FromCentroid(ms, ms[i])]
        gap == [i \in DOMAIN ms |-> Turn(dir[IF i = 1 THEN Len(ms) ELSE i - 1], dir[i])]
    IN  IF \A i \in DOMAIN ms : ~AngleLess(dir[1], dir[i]) THEN {1}
        ELSE {i \in DOMAIN ms : \A j \in DOMAIN ms : ~AngleLess(gap[i], gap[j])}

StartAt(ms, s) == SubSeq(ms, s, Len(ms)) \o SubSeq(ms, 1, s - 1)

(* led_pattern: the LEDs 0 to 3 twice over, of which LED 0 is red.         *)
LedId(i)    == i % 4
LedColor(i) == IF LedId(i) = 0 THEN Red ELSE Blue

(* Defect: a match may not begin with the last LED of the pattern. *)
PatternStartsButLast == 0 .. 2

PatternStarts == 0 .. 3

(* The markers that agree with the pattern from LED p on.  Beyond its      *)
(* eight entries the code would read past the array.                       *)
Agreeing(ms, p) ==
    LET wrong == {i \in DOMAIN ms : p + i > 8 \/ ms[i].color # LedColor(p + i - 1)}
    IN  IF wrong = {} THEN Len(ms) ELSE Min(wrong) - 1

(* Every start of the pattern is tried until all markers agree; the ids    *)
(* given on the way stay.                                                  *)
Identify(ms) ==
    LET full  == {p \in PatternStarts : Agreeing(ms, p) = Len(ms)}
        tried == {p \in PatternStarts : \A q \in full : p <= q}
        last(i) == {p \in tried : Agreeing(ms, p) >= i}
    IN  [i \in DOMAIN ms |->
            IF last(i) = {} THEN ms[i]
            ELSE [ms[i] EXCEPT !.id = LedId(Max(last(i)) + i - 1)]]

(* findSingleMarker: what `markers' may be afterwards.                     *)
FindSingleMarker(ms) ==
    IF Len(ms) <= 2 THEN {ms}
    ELSE LET sorted == SortByTheta(ms)
         IN  {Identify(StartAt(sorted, s)) : s \in Starts(sorted)}

(* castRays: one ray per marker, through its pixel.                        *)
CastRays(ms) == [i \in DOMAIN ms |-> [through |-> <<ms[i].x, ms[i].y>>, marker |-> ms[i].id]]

-----------------------------------------------------------------------------
(* intersectRays: the matrix and the right side of A * x = b, times 25,    *)
(* for rays with origin o and direction d in units of one fifth.           *)
Axes == 1 .. 3
Projector(d) == [i \in Axes |-> [j \in Axes |-> (IF i = j THEN 25 ELSE 0) - d[i] * d[j]]]
TimesVector(A, v) == [i \in Axes |-> MapThenSumSet(LAMBDA j : A[i][j] * v[j], Axes)]

SumOver(rays, f(_)) == FoldLeft(LAMBDA acc, r : acc + f(r), 0, rays)

MatrixA(rays) ==
    [i \in Axes |-> [j \in Axes |-> SumOver(rays, LAMBDA r : Projector(r.d)[i][j])]]

VectorB(rays) == [i \in Axes |-> SumOver(rays, LAMBDA r : TimesVector(Projector(r.d), r.o)[i])]
=============================================================================
