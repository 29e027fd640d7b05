---------------------------- MODULE MCAlgorithms ----------------------------
(***************************************************************************)
(* The algorithms of the system, checked side by side: a behaviour works   *)
(* on the inputs of one of them.  They share nothing but the places of     *)
(* their variables: v1 to v8 are those of the module that is checked.      *)
(***************************************************************************)
EXTENDS Integers, Sequences, TLC

CONSTANTS Side, MaxTokens

VARIABLES part, v1, v2, v3, v4, v5, v6, v7, v8
all == <<part, v1, v2, v3, v4, v5, v6, v7, v8>>

Marks == INSTANCE MarkerDetectionCheck WITH Colors <- 0 .. 2, Reach <- 2, Distances <- {1, 2},
    stage <- v1, camera <- v2, lights <- v3, markers <- v4, rays <- v5
\* Three words of nine bits, four bits apart from each other and from their turns.
Tags == INSTANCE AprilTagCheck WITH
    D <- 3, H <- 4, Codes <- <<3, 29, 111>>, MinWhiteBlackDiff <- 5, TasksPerThread <- 10,
    Places <- 0 .. 3, MaxDetections <- 4, MaxSegments <- 70, Offsets <- 5,
    stage <- v1, input <- v2, detections <- v3, i0 <- v4, i1 <- v5, quad <- v6, improved <- v7, move <- v8
Segs == INSTANCE SegmentationCheck WITH
    Width <- 5, Height <- 5, MinEdgeScore <- 30, CosNum <- 9, CosDen <- 10, MinSegmentSize <- 4,
    Levels <- {<<0, 9, 0>>, <<9, 0, 18>>},
    Normals <- {<<1, 0>>, <<0, 1>>, <<1, 1>>, <<2, 1>>, <<1, -1>>},
    Places <- 0 .. 4, ChunkSizes <- {1, 2, 5}, CornerToo <- FALSE,
    stage <- v1, stats0 <- v2, chunks <- v3, edges <- v4, uf <- v5, stats <- v6, joined <- v7, segments <- v8
Plane == INSTANCE GeometryCheck WITH
    Outlines <- {<<<<0, 0>>, <<2, 0>>, <<1, 1>>, <<2, 2>>, <<0, 2>>>>,
                 <<<<0, 0>>, <<3, 0>>, <<3, 1>>, <<1, 1>>, <<1, 2>>, <<3, 2>>, <<3, 3>>, <<0, 3>>>>},
    stage <- v1, input <- v2
Two(a, b, c, d) ==
    [rows |-> 2, cols |-> 2, el |-> (<<0, 0>> :> <<a, 1>>) @@ (<<0, 1>> :> <<b, 1>>)
                                    @@ (<<1, 0>> :> <<c, 1>>) @@ (<<1, 1>> :> <<d, 1>>)]
Mats == INSTANCE MatricesCheck WITH
    Eps <- <<1, 1000>>, Args <- <<Two(1, 1, 0, 1), Two(1, 0, 1, 1), Two(2, 1, 1, 1)>>,
    Rows3 <- {<<1, 0, 2>>, <<0, 1, 1>>, <<2, -1, 0>>, <<0, 2, -1>>, <<1, 1, 1>>, <<-1, 2, 1>>},
    Rows4 <- {<<1, 0, 2, 0>>, <<0, 1, 1, -1>>, <<2, -1, 0, 1>>, <<0, 2, 1, 0>>},
    MaxSigns <- 5, Cuts <- {<<0, 0, 0>>, <<0, 1, -2>>, <<1, 0, -2>>, <<1, 1, -2>>},
    Shades <- <<2, 3, -1, 5>>, kind <- v1, input <- v2
\* Integers of five bits for Int and of eight for LargestInt, and lines of 12.
Json == INSTANCE JsonCheck WITH MaxInt <- 7, MaxLargestInt <- 127, RightMargin <- 12, TokenWidth <- 1,
    MaxAnyTokens <- 4, MaxDigits <- 3, Chars <- {9, 31, 34, 47, 65, 92, 110, 117}, MaxChars <- 3, kind <- v1, doc <- v2
Document == INSTANCE JsonDocument WITH MaxInt <- 7, MaxLargestInt <- 127, RightMargin <- 12, TokenWidth <- 1,
    DocNames <- {1, 2}, MaxIndex <- 1, MaxDepth <- 2, Payloads <- {1},
    doc <- v1, resized <- v2
NoList(what) == [kind |-> what, list |-> <<>>]
ListOf(entries) == [kind |-> "list", list |-> entries]
File(cams, cls, breaks) == [cams |-> cams, cls |-> cls, breaks |-> breaks]
Config == INSTANCE Configuration WITH MaxInt <- 7, MaxLargestInt <- 127, RightMargin <- 12, TokenWidth <- 1,
    Files <- {File(NoList("missing"), ListOf(<<<<1, 1>>, <<2, 0>>>>), FALSE),
              File(ListOf(<<<<1, 1, 0>>, <<1, 2, 1>>>>), NoList("string"), FALSE),
              File(ListOf(<<<<1, 2, 2>>, <<2, 1, 1>>>>), ListOf(<<<<1, 2>>>>), FALSE),
              File(ListOf(<<<<0, 1, 1>>>>), ListOf(<<>>), TRUE),
              File(ListOf(<<<<2, -1, 1>>>>), ListOf(<<>>), FALSE), File(ListOf(<<<<2, 1, -1>>>>), ListOf(<<>>), FALSE),
              File(NoList("object"), ListOf(<<>>), FALSE)},
    file <- v1, config <- v2, camerasOf <- v3, clientsOf <- v4, status <- v5
Grid == INSTANCE Gridder WITH X1 <- 5, Y1 <- 4, CellSize <- 2,
    Positions <- {-2, -1, 0, 1, 4, 5, 6} \X {-1, 0, 3}, Radii <- 0 .. 2, MaxItems <- 2,
    cells <- v1, added <- v2

Unused6 == v6 = 0 /\ v7 = 0 /\ v8 = 0
Unused5 == v5 = 0 /\ Unused6
Unused3 == v3 = 0 /\ v4 = 0 /\ Unused5

MCInit ==
    \/ part = "markers" /\ Marks!Init /\ Unused6
    \/ part = "tags" /\ Tags!Init
    \/ part = "segments" /\ Segs!Init
    \/ part = "plane" /\ Plane!Init /\ Unused3
    \/ part = "matrices" /\ Mats!Init /\ Unused3
    \/ part = "json" /\ Json!Init /\ Unused3
    \/ part = "document" /\ Document!Init /\ Unused3
    \/ part = "config" /\ Config!Init /\ Unused6
    \/ part = "grid" /\ Grid!Init /\ Unused3

MCNext ==
    /\ UNCHANGED part
    /\ \/ part = "markers" /\ Marks!Next /\ UNCHANGED <<v6, v7, v8>>
       \/ part = "tags" /\ Tags!Next
       \/ part = "segments" /\ Segs!Next
       \/ part = "plane" /\ Plane!Next /\ UNCHANGED <<v3, v4, v5, v6, v7, v8>>
       \/ part = "matrices" /\ Mats!Next /\ UNCHANGED <<v3, v4, v5, v6, v7, v8>>
       \/ part = "json" /\ Json!Next /\ UNCHANGED <<v3, v4, v5, v6, v7, v8>>
       \/ part = "document" /\ Document!Next /\ UNCHANGED <<v3, v4, v5, v6, v7, v8>>
       \/ part = "config" /\ Config!Next /\ UNCHANGED <<v6, v7, v8>>
       \/ part = "grid" /\ Grid!Next /\ UNCHANGED <<v3, v4, v5, v6, v7, v8>>

MCSpec == MCInit /\ [][MCNext]_all

-----------------------------------------------------------------------------
(* Rays of identified markers go through their LEDs (fxbcam.cpp).          *)
RaysFollowLeds == part = "markers" => Marks!RaysFollowLeds

(* Tags are decoded despite of a misread bit, every rectangle of segments  *)
(* becomes a quad, tasks cover all the work, a refined quad is as good as  *)
(* its neighbours, and each tag is reported once (apriltag.c).             *)
TagsAreFound ==
    part = "tags" =>
        /\ Tags!TagsAreDecoded /\ Tags!RectanglesAreFound /\ Tags!TasksCoverAll
        /\ Tags!RefinedIsBest /\ Tags!EachTagIsReportedOnce

(* Pixels that were merged stay in one cluster with the statistics of all  *)
(* of them, and each large cluster becomes a segment (segment2.c).         *)
SegmentsAreClusters == part = "segments" => Segs!SegmentsAreClusters

(* Polygons that contain a point, cross a line or overlap do so by every   *)
(* definition of it (g2d.c), and the grid finds all that is near a point   *)
(* (gridder.h).  Matrices are decomposed, inverted and solved exactly      *)
(* where rows are but exchanged, and expressions over them have the value  *)
(* of their grammar and leave nothing behind (matd.c).                     *)
GeometryIsExact ==
    /\ part = "plane" =>
        /\ Plane!ContainsIsInside /\ Plane!OverlapIsSharing /\ Plane!HullIsConvex
        /\ Plane!CrossingsAlternate
    /\ part = "matrices" => Mats!MatricesAreExact
    /\ part = "grid" => Grid!NearIsFound

(* JSON is read just when it is JSON, and what is written is read as what  *)
(* it was: values, numbers and strings.  A document that is edited has the *)
(* sizes that were asked for, its paths lead where they say, its iterators *)
(* meet each element once, and it is written as what it is (jsoncpp.cpp).  *)
(* A configuration that was read tells all cameras and clients of its file *)
(* (Configuration.cpp).                                                    *)
JsonIsKept ==
    /\ part = "json" => Json!JsonIsKept
    /\ part = "document" =>
        /\ Document!SizeIsAsked /\ Document!PathsLead /\ Document!WalksMeetAll
        /\ Document!EditedIsKept
    /\ part = "config" => Config!ConfigurationIsExact
=============================================================================
