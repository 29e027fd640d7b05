--------------------------- MODULE AprilTagCheck ---------------------------
(***************************************************************************)
(* The steps of april_tag_detector_detect that work on tags, quads and     *)
(* detections, each from every input within the bounds.                    *)
(***************************************************************************)
EXTENDS AprilTagDetector

CONSTANTS
    Places,          \* bound: where detections lie; next to each other they overlap
    MaxDetections,   \* bound: detections to reconcile
    MaxSegments,     \* bound: elements to be divided into tasks
    Offsets          \* bound: how far the edges of a quad can be moved, a ring

VARIABLES
    stage,        \* what is done, and how far it is
    input,        \* what it was begun with
    detections,   \* the array of detections, the set of quads or the tasks
    i0, i1,       \* the indices of the loops that reconcile
    quad,         \* the position of the quad being refined
    improved,     \* whether this round of refinement has improved it
    move          \* the next move to be tried in this round

vars == <<stage, input, detections, i0, i1, quad, improved, move>>
loopVars == <<i0, i1, quad, improved, move>>

Init ==
    /\ stage = "start" /\ input = <<>> /\ detections = <<>>
    /\ i0 = 1 /\ i1 = 2 /\ quad = 0 /\ improved = FALSE /\ move = 1

-----------------------------------------------------------------------------
(* Decoding: a tag is seen through a quad that begins with corner `first'  *)
(* of it; one cell may be misread, erased, or neither.                     *)

Cells == (0 .. D - 1) \X (0 .. D - 1)
Far(v) == D - 1 - v
TurnedCell(c, n) ==
    CASE n = 0 -> c [] n = 1 -> <<Far(c[2]), c[1]>>
      [] n = 2 -> <<Far(c[1]), Far(c[2])>> [] n = 3 -> <<c[2], Far(c[1])>>
TrueBit(id, first, c) == IF BitOf(TurnedCell(c, first)) \in CodeWord(Codes[id]) THEN 1 ELSE 0

(* A clear cell is 4 levels from the threshold, the corner cell only 2. *)
Level(c, bit) == 10 + (IF bit = 1 THEN 1 ELSE -1) * (IF c = <<0, 0>> THEN 2 ELSE 4)
Seen(in) ==
    [c \in Cells |-> IF c \in in.erased THEN Erased
                     ELSE LET bit == TrueBit(in.id, in.first, c)
                          IN  Level(c, IF c \in in.wrong THEN 1 - bit ELSE bit)]

SomeCell == {{}} \cup {{c} : c \in Cells}

Decode ==
    /\ stage = "start"
    /\ \E id \in DOMAIN Codes, first \in 0 .. 3, guess \in 0 .. Len(Codes),
          wrong \in SomeCell, erased \in SomeCell, black \in {6, 12} :
         /\ input' = [id |-> id, first |-> first, wrong |-> wrong, erased |-> erased, black |-> black]
         /\ detections' = SetToSeq(QuadDecode(Seen(input'), 20 - black, black, guess))
    /\ stage' = "decoded"
    /\ UNCHANGED loopVars

(* The bits that are read wrong. *)
Misread(in) ==
    (in.wrong \ in.erased) \cup {c \in in.erased : TrueBit(in.id, in.first, c) = 1}

(* Through whichever corner the quad begins, and whatever was guessed, a   *)
(* tag with less than H/2 wrong bits is found, with the corners in the     *)
(* order of the tag; goodness is what the cells that are right are above   *)
(* the threshold less what the wrong ones are below it.  A tag without     *)
(* contrast is not found, and a tag is never taken for another one unless  *)
(* more bits are wrong.                                                    *)
TagsAreDecoded ==
    stage = "decoded" =>
        LET errors == Cardinality(Misread(input))
            margin(c) == IF c = <<0, 0>> THEN 4 ELSE 8
            seen == Cells \ input.erased
        IN  /\ errors < H \div 2 /\ input.black = 6 =>
                 /\ Len(detections) = 1
                 /\ detections[1].id = input.id
                 /\ detections[1].hamming = errors
                 /\ \A i \in 0 .. 3 : (detections[1].p[i] + input.first) % 4 = i
                 /\ detections[1].goodness =
                        MapThenSumSet(margin, seen \ input.wrong) - MapThenSumSet(margin, seen \cap input.wrong)
            /\ input.black = 12 => detections = <<>>
            /\ detections # <<>> /\ detections[1].id # input.id => errors > H \div 2

-----------------------------------------------------------------------------
(* Quads: rectangles whose edges end `gap' pixels from the corners. *)

Edges(r) ==
    LET x0 == r.x  y0 == r.y  x1 == r.x + r.w  y1 == r.y + r.h  g == r.gap
    IN  {[p0 |-> <<x0 + g, y0>>, p1 |-> <<x1 - g, y0>>], [p0 |-> <<x1, y0 + g>>, p1 |-> <<x1, y1 - g>>],
         [p0 |-> <<x1 - g, y1>>, p1 |-> <<x0 + g, y1>>], [p0 |-> <<x0, y1 - g>>, p1 |-> <<x0, y0 + g>>]}

Rectangles ==
    {[x |-> x, y |-> y, w |-> w, h |-> 8, gap |-> gap] :
        x \in {0, 11}, y \in {0, 9}, w \in {5, 8, 49}, gap \in {0, 1}}

Search ==
    /\ stage = "start"
    /\ \E r, s \in Rectangles :
         /\ r = s \/ <<r.x, r.y>> # <<s.x, s.y>>
         /\ input' = {r, s}
         /\ detections' = Quads(Edges(r) \cup Edges(s))
    /\ stage' = "searched"
    /\ UNCHANGED loopVars

TooSmall(r) == r.w < MinTagSize
TooLong(r)  == r.w * r.w + r.h * r.h > (r.h * MaxAspectRatio) ^ 2
FirstEdges(r) == {e \in Edges(r) : \A f \in Edges(r) : e.p0[1] <= f.p0[1]}

(* apriltag.c:388: "only detect each quad one time by imposing an          *)
(* arbitrary order: the first segment must have the right-most point 0."   *)
(* A rectangle that is neither too small nor too long is found, beginning  *)
(* with an edge whose point 0 is left-most, not right-most; it is detected *)
(* one time just if that is one edge.  If edges end at the very corners of *)
(* the rectangle there are two and, contrary to the comment, two quads.    *)
RectanglesAreFound ==
    stage = "searched" => \A r \in input :
        LET found == {q \in detections : ToSet(q) = Edges(r)}
        IN  /\ found = {} <=> TooSmall(r) \/ TooLong(r)
            /\ found # {} => {q[1] : q \in found} = FirstEdges(r)
            /\ found # {} => (Cardinality(found) = 1 <=> Cardinality(FirstEdges(r)) = 1)

-----------------------------------------------------------------------------
(* Tasks. *)

Divide ==
    /\ stage = "start"
    /\ \E n \in 0 .. MaxSegments, nthreads \in 1 .. 3 :
         /\ input' = [n |-> n, nthreads |-> nthreads]
         /\ detections' = Tasks(n, nthreads)
    /\ stage' = "divided"
    /\ UNCHANGED loopVars

(* Every element is in exactly one task, and the tasks fit into the array. *)
TasksCoverAll ==
    stage = "divided" =>
        /\ \A i \in 0 .. input.n - 1 :
              Cardinality({k \in DOMAIN detections : i \in detections[k].i0 .. detections[k].i1 - 1}) = 1
        /\ \A t \in ToSet(detections) : t.i0 < t.i1 /\ t.i1 <= input.n
        /\ Len(detections) <= Room(input.n, input.nthreads)

-----------------------------------------------------------------------------
(* Refinement of a quad: two thirds of the moves are tried from wherever   *)
(* the quad has got to, in rounds that go on while they improve it.        *)

Outcomes == {[hamming |-> 9, goodness |-> 0], [hamming |-> 1, goodness |-> 1],
             [hamming |-> 1, goodness |-> 2], [hamming |-> 0, goodness |-> 1]}
NotDecoded(o) == o.hamming = 9
Moves == <<1, -1, 2>>
Moved(m) == (quad + Moves[m]) % Offsets

StartRefining ==
    /\ stage = "start"
    /\ input' \in [0 .. Offsets - 1 -> Outcomes]
    /\ detections' = <<input'[0]>>
    /\ stage' = "refining"
    /\ UNCHANGED loopVars

(* One call of quad_decode_real; the better quad is kept. *)
TryMove ==
    /\ stage = "refining" /\ move <= Len(Moves)
    /\ move > 1 \/ detections[1].hamming > 0
    /\ LET outcome == input[Moved(move)]
       IN  IF ~NotDecoded(outcome) /\ Better(outcome, detections[1])
           THEN quad' = Moved(move) /\ detections' = <<outcome>> /\ improved' = TRUE
           ELSE UNCHANGED <<quad, detections, improved>>
    /\ move' = move + 1
    /\ UNCHANGED <<stage, input, i0, i1>>

(* The round ends, or none is begun since the tag is read perfectly. *)
EndRound ==
    /\ stage = "refining"
    /\ \/ move > Len(Moves)
       \/ move = 1 /\ detections[1].hamming = 0
    /\ stage' = IF move > 1 /\ improved THEN "refining" ELSE "refined"
    /\ improved' = FALSE /\ move' = 1
    /\ UNCHANGED <<input, detections, i0, i1, quad>>

(* What is kept is what the quad decodes to, no worse than at first; if it *)
(* is not perfect, no single move would improve it.                        *)
RefinedIsBest ==
    stage = "refined" =>
        /\ detections[1] = input[quad]
        /\ ~Better(input[0], detections[1])
        /\ detections[1].hamming > 0 =>
              \A m \in DOMAIN Moves : ~Better(input[Moved(m)], detections[1])

-----------------------------------------------------------------------------
(* Reconciling detections, in the order in which the tasks added them.     *)

Quality == {<<0, 0>>, <<0, 1>>, <<1, 1>>}
Detections ==
    {[id |-> id, place |-> p, hamming |-> q[1], goodness |-> q[2]] :
        id \in {1, 2}, p \in Places, q \in Quality}

(* With more than three detections all are of one tag. *)
StartReconciling ==
    /\ stage = "start"
    /\ \E n \in 0 .. MaxDetections :
         \E ds \in [1 .. n -> IF n <= 2 THEN Detections ELSE {d \in Detections : d.id = 1}] :
            input' = ds /\ detections' = ds
    /\ stage' = "reconciling"
    /\ UNCHANGED loopVars

Overlap(d, e) == d.place - e.place \in {-1, 0, 1}
Rivals(d, e) == d.id = e.id /\ Overlap(d, e)

(* Defect: the detection that fills the gap is not looked at. *)
DropSecondAndGoOn ==
    /\ Rivals(detections[i0], detections[i1]) /\ Better(detections[i0], detections[i1])
    /\ detections' = RemoveShuffling(detections, i1)
    /\ i1' = i1 + 1 /\ UNCHANGED i0

DropSecond ==
    /\ Rivals(detections[i0], detections[i1]) /\ Better(detections[i0], detections[i1])
    /\ detections' = RemoveShuffling(detections, i1)
    /\ UNCHANGED <<i0, i1>>

DropFirst ==
    /\ Rivals(detections[i0], detections[i1]) /\ ~Better(detections[i0], detections[i1])
    /\ detections' = RemoveShuffling(detections, i0)
    /\ i1' = i0 + 1 /\ UNCHANGED i0

Compare ==
    /\ stage = "reconciling" /\ i0 <= Len(detections) /\ i1 <= Len(detections)
    /\ \/ DropSecond
       \/ DropFirst
       \/ ~Rivals(detections[i0], detections[i1]) /\ i1' = i1 + 1 /\ UNCHANGED <<detections, i0>>
    /\ UNCHANGED <<stage, input, quad, improved, move>>

NextDetection ==
    /\ stage = "reconciling" /\ i0 <= Len(detections) /\ i1 > Len(detections)
    /\ i0' = i0 + 1 /\ i1' = i0 + 2
    /\ UNCHANGED <<stage, input, detections, quad, improved, move>>

SortDetections ==
    /\ stage = "reconciling" /\ i0 > Len(detections)
    /\ detections' = SortSeq(detections, LAMBDA d, e : d.id < e.id)
    /\ stage' = "reported"
    /\ UNCHANGED <<input, loopVars>>

(* No tag is reported twice at one place, although "overlaps" is not       *)
(* transitive and the array is shuffled under the loops; a detection that  *)
(* is left out overlaps one that is no worse; and ids are in order.        *)
EachTagIsReportedOnce ==
    stage = "reported" =>
        /\ \A i, j \in DOMAIN detections : i < j =>
              ~Rivals(detections[i], detections[j]) /\ detections[i].id <= detections[j].id
        /\ ToSet(detections) \subseteq ToSet(input)
        /\ \A d \in ToSet(input) \ ToSet(detections) :
              \E e \in ToSet(input) : d # e /\ Rivals(d, e) /\ ~Better(d, e)

-----------------------------------------------------------------------------
Next ==
    \/ Decode \/ Search \/ Divide
    \/ StartRefining \/ TryMove \/ EndRound
    \/ StartReconciling \/ Compare \/ NextDetection \/ SortDetections

Spec == Init /\ [][Next]_vars
=============================================================================
