---------------------------- MODULE Segmentation ----------------------------
(***************************************************************************)
(* Clustering of the pixels of an image by their gradients, segment2 of    *)
(* modules/apriltags/segment2.c: gradients, edges between neighbours in    *)
(* chunks of rows, a counting sort of the edges by score, the greedy       *)
(* merge of clusters from the highest score down, and the choice of the    *)
(* clusters that become line segments.                                     *)
(*                                                                         *)
(* A pixel is its index y * Width + x.  The statistics of a cluster are    *)
(* the sum of its gradients, and of its line fit the total weight, the     *)
(* first moments and the bounding box; second moments are summed likewise. *)
(***************************************************************************)
EXTENDS Integers, Sequences, FiniteSets, SequencesExt, FiniteSetsExt

CONSTANTS
    Width, Height,     \* of the image
    MinEdgeScore,      \* td->min_edge_score
    CosNum, CosDen,    \* td->costhresh0 is CosNum / CosDen
    MinSegmentSize     \* td->min_segment_size

UF == INSTANCE UnionFind

Pixels == 0 .. Width * Height - 1
X(p)   == p % Width
Y(p)   == p \div Width

-----------------------------------------------------------------------------
(* Gradients.  The buffer of an image is a function of Pixels; right of a  *)
(* row it holds `padding'.  The flag INT32_MAX that is to mark pixels of   *)
(* low magnitude is overwritten at once, so that no pixel is ever marked.  *)

(* make_edge_init_task *)
PixelStat(im, padding, p) ==
    LET right == IF X(p) = Width - 1 THEN padding ELSE im[p + 1]
        gx    == right - im[p]
        gy    == im[p + Width] - im[p]
        mag   == gx * gx + gy * gy
    IN  [gx |-> gx, gy |-> gy, n |-> mag, mX |-> mag * X(p), mY |-> mag * Y(p),
         x0 |-> X(p), x1 |-> X(p), y0 |-> Y(p), y1 |-> Y(p)]

(* The last row has no task, and remains as calloc made it. *)
NoStat == [gx |-> 0, gy |-> 0, n |-> 0, mX |-> 0, mY |-> 0, x0 |-> 0, x1 |-> 0, y0 |-> 0, y1 |-> 0]

InitStats(im, padding) ==
    [p \in Pixels |-> IF Y(p) = Height - 1 THEN NoStat ELSE PixelStat(im, padding, p)]

-----------------------------------------------------------------------------
(* Edges. *)

Dot(s, t) == s.gx * t.gx + s.gy * t.gy

(* Left-up, up, right-up and left, in the order of DO_EDGE. *)
Steps == <<-Width - 1, -Width, -Width + 1, -1>>

Interior(p) == X(p) \in 1 .. Width - 2 /\ Y(p) \in 1 .. Height - 2

(* make_edge_task for the rows from i0 to i1: at most four edges a pixel,  *)
(* written from the slot edge0 = i0 * Width * 4 on.                        *)
MakeEdges(stats, i0, i1) ==
    LET scored(p) ==
            [k \in 1 .. 4 |-> [a |-> p, b |-> p + Steps[k],
                               score |-> Dot(stats[p], stats[p + Steps[k]])]]
        rows == SelectSeq([i \in 1 .. (i1 - i0) * Width |-> i0 * Width + i - 1], Interior)
    IN  SelectSeq(FlattenSeq([i \in DOMAIN rows |-> scored(rows[i])]),
                  LAMBDA e : e.score > MinEdgeScore)

(* The chunks of rows, the last row left out. *)
Chunks(chunksize) ==
    [k \in 1 .. (Height - 1 + chunksize - 1) \div chunksize |->
        [i0 |-> (k - 1) * chunksize, i1 |-> Min({Height - 1, k * chunksize})]]

ChunkEdges(stats, chunksize) ==
    [k \in DOMAIN Chunks(chunksize) |->
        MakeEdges(stats, Chunks(chunksize)[k].i0, Chunks(chunksize)[k].i1)]

-----------------------------------------------------------------------------
(* Counting sort, in ascending order of score. *)

(* counts after the scan: how many edges have a smaller score. *)
Before(edges, score) == Cardinality({i \in DOMAIN edges : edges[i].score < score})

(* Defect: counts are not advanced, so that equal scores share a place. *)
PlaceOfFirst(edges, i) == Before(edges, edges[i].score) + 1

(* counts[w] is advanced past the edges of that score that were placed.    *)
PlaceOf(edges, i) ==
    Before(edges, edges[i].score)
        + Cardinality({j \in 1 .. i : edges[j].score = edges[i].score})

CountingSort(edges) ==
    LET new == [k \in DOMAIN edges |-> {i \in DOMAIN edges : PlaceOf(edges, i) = k}]
    IN  [k \in DOMAIN edges |->
            IF new[k] = {} THEN [a |-> 0, b |-> 0, score |-> 0] ELSE edges[Max(new[k])]]

-----------------------------------------------------------------------------
(* Merging.  The direction is compared by the square of the cosine, which  *)
(* does not tell a gradient from its opposite.                             *)

Mag(s) == s.gx * s.gx + s.gy * s.gy

Aligned(s, t) == Dot(s, t) * Dot(s, t) * CosDen * CosDen >= Mag(s) * Mag(t) * CosNum * CosNum

(* line_fit_combine, and the sum of the gradients. *)
Combine(s, t) ==
    [gx |-> s.gx + t.gx, gy |-> s.gy + t.gy, n |-> s.n + t.n, mX |-> s.mX + t.mX, mY |-> s.mY + t.mY,
     x0 |-> Min({s.x0, t.x0}), x1 |-> Max({s.x1, t.x1}),
     y0 |-> Min({s.y0, t.y0}), y1 |-> Max({s.y1, t.y1})]

(* One edge of the loop: the clusters of its ends are merged if they are   *)
(* different and aligned.                                                  *)
Mergeable(uf, stats, e) ==
    LET ida == UF!Representative(uf, e.a)
        idb == UF!Representative(uf, e.b)
    IN  ida # idb /\ Aligned(stats[ida], stats[idb])

Looked(uf, e) == UF!Compressed(UF!Compressed(uf, e.a), e.b)

MergedStats(uf, stats, e) ==
    LET ida  == UF!Representative(uf, e.a)
        idb  == UF!Representative(uf, e.b)
    IN  [stats EXCEPT ![UF!Winner(uf, ida, idb)] = Combine(stats[ida], stats[idb])]

(* Every pixel is looked up, so that the tasks that follow find all of     *)
(* them at their roots.                                                    *)
Resolved(uf) == FoldSet(LAMBDA p, v : UF!Compressed(v, p), uf, Pixels)

(* fit_lines_task for the rows from y0 to y1. *)
FitLines(uf, stats, y0, y1) ==
    {stats[p] : p \in {q \in Pixels : /\ Y(q) \in y0 .. y1 - 1 /\ X(q) < Width - 1
                                      /\ UF!Representative(uf, q) = q
                                      /\ UF!SetSize(uf, q) >= MinSegmentSize}}
=============================================================================
