------------------------- MODULE SegmentationCheck -------------------------
(***************************************************************************)
(* segment2 on images of one or two straight edges, one edge of the merge  *)
(* a step.                                                                 *)
(***************************************************************************)
EXTENDS Segmentation

CONSTANTS
    Levels,      \* bound: the gray values of an image, <<outside, inside, further inside>>
    Normals,     \* bound: the directions of its edges
    Places,      \* bound: where the edges are
    ChunkSizes,  \* bound: rows to a task
    CornerToo    \* whether pixel 0, the corner of the image, may have an edge

VARIABLES
    stage,     \* what is done
    stats0,    \* the statistics of the pixels, before any merge
    chunks,    \* the edges that each task has made
    edges,     \* the edges that are left to merge, in order of score
    uf, stats,
    joined,    \* history: the edges whose clusters were merged
    segments   \* the clusters that each task has chosen

vars == <<stage, stats0, chunks, edges, uf, stats, joined, segments>>

HalfPlane(n, c) == {p \in Pixels : n[1] * X(p) + n[2] * Y(p) <= c}
Images ==
    {[p \in Pixels |-> IF p \notin A THEN l[1] ELSE IF p \in B THEN l[2] ELSE l[3]] :
        l \in Levels, A \in {HalfPlane(n, c) : n \in Normals, c \in Places},
        B \in {HalfPlane(n, c) : n \in Normals, c \in Places}}

Init ==
    /\ stage = "start"
    /\ stats0 = <<>> /\ stats = <<>> /\ uf = <<>>
    /\ chunks = <<>> /\ edges = <<>> /\ segments = <<>> /\ joined = {}

MakeAndSort ==
    /\ stage = "start"
    /\ \E im \in Images, padding \in {0, 9}, size \in ChunkSizes :
         /\ stats0' = InitStats(im, padding)
         /\ chunks' = ChunkEdges(stats0', size)
    /\ edges' = CountingSort(FlattenSeq(chunks'))
    /\ CornerToo \/ \A e \in ToSet(FlattenSeq(chunks')) : 0 \notin {e.a, e.b}
    /\ stats' = stats0' /\ uf' = UF!Create(Width * Height - 1)
    /\ stage' = "merging"
    /\ UNCHANGED <<joined, segments>>

(* The loop goes from the last edge down. *)
MergeEdge ==
    /\ stage = "merging" /\ edges # <<>>
    /\ LET e == Last(edges)
       IN  IF Mergeable(uf, stats, e)
           THEN /\ uf' = UF!Connect(Looked(uf, e), e.a, e.b)
                /\ stats' = MergedStats(uf, stats, e)
                /\ joined' = joined \cup {<<e.a, e.b>>}
           ELSE uf' = Looked(uf, e) /\ UNCHANGED <<stats, joined>>
    /\ edges' = Front(edges)
    /\ UNCHANGED <<stage, stats0, chunks, segments>>

Fit ==
    /\ stage = "merging" /\ edges = <<>>
    /\ uf' = Resolved(uf)
    /\ \E size \in ChunkSizes :
          segments' = [k \in DOMAIN Chunks(size) |->
                          FitLines(uf', stats, Chunks(size)[k].i0, Chunks(size)[k].i1)]
    /\ stage' = "fitted"
    /\ UNCHANGED <<stats0, chunks, edges, stats, joined>>

Next == MakeAndSort \/ MergeEdge \/ Fit
Spec == Init /\ [][Next]_vars

-----------------------------------------------------------------------------
Root(p)    == UF!Representative(uf, p)
Cluster(r) == {p \in Pixels : Root(p) = r}
Roots      == {p \in Pixels : Root(p) = p}

(* What was merged stays in one cluster: a comment in unionfind.h says of  *)
(* node 0, whose id stands for "its own parent", that it works out.        *)
MergedStaysTogether == stage # "start" => \A e \in joined : Root(e[1]) = Root(e[2])

(* At every step of the merge the size and the statistics kept at the root *)
(* of a cluster are those of the pixels that were put together, so that    *)
(* the decisions to come are made about the clusters there are.            *)
StatsAreOfTheCluster ==
    stage # "start" => \A r \in Roots :
        LET C == Cluster(r)
        IN  /\ UF!SetSize(uf, r) = Cardinality(C)
            /\ stats[r].gx = MapThenSumSet(LAMBDA p : stats0[p].gx, C)
            /\ stats[r].gy = MapThenSumSet(LAMBDA p : stats0[p].gy, C)
            /\ stats[r].n  = MapThenSumSet(LAMBDA p : stats0[p].n, C)
            /\ stats[r].mX = MapThenSumSet(LAMBDA p : stats0[p].mX, C)
            /\ stats[r].mY = MapThenSumSet(LAMBDA p : stats0[p].mY, C)
            /\ Cardinality(C) > 1 =>
                  /\ stats[r].x0 = Min({X(p) : p \in C}) /\ stats[r].x1 = Max({X(p) : p \in C})
                  /\ stats[r].y0 = Min({Y(p) : p \in C}) /\ stats[r].y1 = Max({Y(p) : p \in C})

(* However the rows are cut into chunks, the edges are those of the whole  *)
(* image in order of score; no task writes past the slots of its rows.     *)
EdgesAreSorted ==
    stage = "merging" /\ joined = {} =>
        LET all == MakeEdges(stats0, 0, Height - 1)
        IN  /\ ToSet(edges) \subseteq ToSet(all)
            /\ \A i, j \in DOMAIN edges : i < j =>
                  \/ edges[i].score < edges[j].score
                  \/ edges[i].score = edges[j].score
                       /\ \E k, l \in DOMAIN all : k < l /\ all[k] = edges[i] /\ all[l] = edges[j]
            /\ stats = stats0 /\ uf = UF!Create(Width * Height - 1) /\ FlattenSeq(chunks) = all

(* When the tasks that fit lines run side by side, what they look up in    *)
(* the union-find no longer changes it.                                    *)
LookupsAreReads == stage = "fitted" => \A p \in Pixels : UF!Compressed(uf, p) = uf

(* Each cluster that is large enough is made a segment by exactly one      *)
(* task, whatever the chunks, if its root is not in the last column.       *)
ClustersAreFitted ==
    stage = "fitted" => \A r \in Roots :
        Cardinality(Cluster(r)) >= MinSegmentSize =>
            Cardinality({k \in DOMAIN segments : stats[r] \in segments[k]})
                = IF X(r) = Width - 1 THEN 0 ELSE 1

SegmentsAreClusters ==
    /\ MergedStaysTogether
    /\ StatsAreOfTheCluster
    /\ EdgesAreSorted
    /\ LookupsAreReads
    /\ ClustersAreFitted

-----------------------------------------------------------------------------
(* Bound: images whose corner pixel has edges too, for a run of their own. *)
MCLevels == {<<0, 9, 0>>, <<9, 0, 18>>}
MCNormals == {<<1, 0>>, <<0, 1>>, <<1, 1>>, <<2, 1>>, <<1, -1>>}
=============================================================================
