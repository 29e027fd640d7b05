-------------------------- MODULE AprilTagDetector --------------------------
(***************************************************************************)
(* The detector of modules/apriltags/apriltag.c: loops of four line        *)
(* segments become quads, quads are sampled and decoded into detections,   *)
(* by tasks of the worker pool, and of overlapping detections of one tag   *)
(* the best is kept.                                                       *)
(*                                                                         *)
(* The homography of a quad is the map of the cells of the tag to its      *)
(* samples, and its gray models are one level of white and one of black.   *)
(* There is one family of tags; with several, each quad is decoded once    *)
(* for each (line 976), and only detections of one family are compared.    *)
(***************************************************************************)
EXTENDS Integers, Sequences, FiniteSets, SequencesExt, FiniteSetsExt

CONSTANTS
    D,                 \* tf->d: the tag has D x D bits
    H,                 \* tf->h: Hamming distance between any two codes, rotated or not
    Codes,             \* tf->codes, a sequence of words
    MinWhiteBlackDiff, \* min_white_black_diff
    TasksPerThread     \* APRILTAG_TASKS_PER_THREAD_TARGET

-----------------------------------------------------------------------------
(* Codes.  A word is the set of the bits that are 1; 0 is the least        *)
(* significant.                                                            *)

NBits == D * D
Bits  == 0 .. NBits - 1
CodeWord(n) == {b \in Bits : (n \div 2 ^ b) % 2 = 1}

(* rotate90: bits are shifted in from the right, column by column.         *)
Rotate90(w) ==
    {b \in Bits : LET shift == NBits - 1 - b
                  IN  (D - 1 - shift \div D) + D * (shift % D) \in w}

(* w turned by none to three quarters. *)
Rotations(w) ==
    LET w1 == Rotate90(w)  w2 == Rotate90(w1) IN <<w, w1, w2, Rotate90(w2)>>

HammingDistance(v, w) == Cardinality((v \ w) \cup (w \ v))

(* The order in which decode_tag compares: the guess first, then all ids.  *)
Candidates(guess) ==
    LET turns(i) == [n \in 1 .. 4 |-> <<i, n - 1>>]
    IN  FlattenSeq((IF guess \in DOMAIN Codes THEN <<turns(guess)>> ELSE <<>>)
                       \o [i \in DOMAIN Codes |-> turns(i)])

(* decode_tag: the first candidate close enough is taken, so a worse one   *)
(* that was the best so far never matters.  At most one detection.         *)
DecodeTag(rcode, guess) ==
    LET rcodes == Rotations(rcode)
        distance(c) == HammingDistance(rcodes[c[2] + 1], CodeWord(Codes[c[1]]))
        i == SelectInSeq(Candidates(guess), LAMBDA c : distance(c) < Min({H \div 2, NBits}))
        best == Candidates(guess)[i]
    IN  IF i = 0 THEN {}
        ELSE {[id          |-> best[1],
               rotation    |-> best[2],
               hamming     |-> distance(best),
               rotatedcode |-> Rotations(CodeWord(Codes[best[1]]))[((4 - best[2]) % 4) + 1]]}

-----------------------------------------------------------------------------
(* Decoding a quad. *)

Erased == -1    \* the sample of a cell that lies outside the image

(* The number of the bit of cell <<ix, iy>>: rows are shifted in in order. *)
BitOf(cell) == NBits - 1 - (cell[2] * D + cell[1])

(* det->p in terms of quad->p, after the homography was turned by          *)
(* -rotation quarters.                                                     *)
Corners(rotation) == [i \in 0 .. 3 |-> (i - rotation) % 4]

(* quad_decode_real, for samples of the cells of a quad and the levels of  *)
(* its white and black border.  Goodness is scaled by twice NBits.         *)
QuadDecode(samples, white, black, guess) ==
    LET cells == DOMAIN samples
        soft  == [c \in cells |-> IF samples[c] = Erased THEN 0 ELSE 2 * samples[c] - (white + black)]
        code  == {BitOf(c) : c \in {d \in cells : soft[d] > 0}}
        agrees(c, w) == IF BitOf(c) \in w THEN soft[c] ELSE -soft[c]
    IN  IF white < black + MinWhiteBlackDiff THEN {}
        ELSE {[id       |-> r.id,
               hamming  |-> r.hamming,
               goodness |-> MapThenSumSet(LAMBDA c : agrees(c, r.rotatedcode), cells),
               p        |-> Corners(r.rotation)] : r \in DecodeTag(code, guess)}

(* A detection beats another by its Hamming distance, then by goodness.    *)
Better(det0, det1) ==
    \/ det0.hamming < det1.hamming
    \/ det0.hamming = det1.hamming /\ det0.goodness > det1.goodness

-----------------------------------------------------------------------------
(* Quads.  A segment is [p0, p1] with white on the same side of all.       *)

MinSegmentLength   == 4
MaxSegmentDistance == 30
MinTagSize         == 6
MaxAspectRatio     == 6

Sub(a, b)   == <<a[1] - b[1], a[2] - b[2]>>
CrossOf(u, v) == u[1] * v[2] - u[2] * v[1]
Square(u)   == u[1] * u[1] + u[2] * u[2]
Along(s)    == Sub(s.p1, s.p0)

(* The cost of a corner of a right angle, -2.6 * distance / length         *)
(* + 0.55 * distance + 1, is not negative.                                 *)
CostAllows(distance2, length2) ==
    \E length \in 0 .. length2 :
        /\ length * length = length2
        /\ \/ 55 * length >= 260
           \/ distance2 * (260 - 55 * length) * (260 - 55 * length) <= 10000 * length2

(* neighbor_search_task, for segments along the axes, where the angle is   *)
(* right or far from what critical_rad allows.                             *)
Neighbors(segments, s) ==
    IF Square(Along(s)) < MinSegmentLength ^ 2 THEN {}
    ELSE {t \in segments :
            LET distance2 == Square(Sub(s.p1, t.p0))
            IN  /\ distance2 <= MaxSegmentDistance ^ 2
                /\ CrossOf(Along(s), Along(t)) > 0
                /\ CostAllows(distance2, Square(Along(s)))}

Parallel(s, t) == CrossOf(Along(s), Along(t)) = 0

(* line_intersection of the lines of segments along different axes. *)
Intersection(s, t) ==
    IF s.p0[2] = s.p1[2] THEN <<t.p0[1], s.p0[2]>> ELSE <<s.p0[1], t.p0[2]>>

(* Left-hand winding, and neither too small nor too long. *)
WellFormed(p) ==
    LET next(j) == IF j = 4 THEN 1 ELSE j + 1
        last(j) == IF j = 1 THEN 4 ELSE j - 1
        sides   == {Square(Sub(p[a], p[b])) : a \in {1, 2}, b \in {3, 4}}
                     \cup {Square(Sub(p[1], p[2])), Square(Sub(p[3], p[4]))}
    IN  /\ \A j \in 1 .. 4 : CrossOf(Sub(p[j], p[last(j)]), Sub(p[next(j)], p[j])) >= 0
        /\ Min(sides) >= MinTagSize ^ 2
        /\ Max(sides) <= Min(sides) * MaxAspectRatio ^ 2

(* The next segment of a quad: no point 0 is left of that of the first.    *)
MayFollow(segments, path, t) ==
    /\ t \in Neighbors(segments, Last(path))
    /\ t.p0[1] >= path[1].p0[1]
    /\ ~Parallel(Last(path), t)

(* quad_search from every segment: the loops found, each as often as there *)
(* is a segment it may begin with.                                         *)
Quads(segments) ==
    LET extend(paths) ==
            UNION {{Append(p, t) : t \in {u \in segments \ ToSet(p) : MayFollow(segments, p, u)}} :
                     p \in paths}
        corners(p) == [j \in 1 .. 4 |-> Intersection(p[j], p[(j % 4) + 1])]
    IN  {p \in extend(extend(extend({<<s>> : s \in segments}))) :
            MayFollow(segments, p, p[1]) /\ WellFormed(corners(p))}

-----------------------------------------------------------------------------
(* Tasks.  A loop over n elements is cut into tasks [i0, i1), each an      *)
(* entry of an array of `room' tasks.                                      *)
ChunkSize(n, nthreads) == 1 + n \div (TasksPerThread * nthreads)

Tasks(n, nthreads) ==
    LET size == ChunkSize(n, nthreads)
    IN  [k \in 1 .. (n + size - 1) \div size |->
            [i0 |-> (k - 1) * size, i1 |-> Min({n, k * size})]]
Room(n, nthreads) == n \div ChunkSize(n, nthreads) + 1

-----------------------------------------------------------------------------
(* zarray_remove_index with shuffle: the last element fills the gap.       *)
RemoveShuffling(s, i) ==
    IF i = Len(s) THEN SubSeq(s, 1, Len(s) - 1)
    ELSE SubSeq([s EXCEPT ![i] = Last(s)], 1, Len(s) - 1)
=============================================================================
