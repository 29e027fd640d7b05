--------------------------- MODULE MCDataManager ---------------------------
(***************************************************************************)
(* DataManager for TLC, about what the search makes of the rays: either    *)
(* two cameras send two rays each, one of them perhaps of one frame, or    *)
(* three send one each, where a match may have to wait for the third.      *)
(***************************************************************************)
EXTENDS DataManager

CONSTANTS
    Third,    \* the client that is there in the second case only
    LastFrame \* bound: the time of the last frame, unless two cameras send one ray a frame

ASSUME ThirdAssumption == Third \in Clients

(* The rays of client c that are in, or on their way. *)
SentBy(c) == {r \in added \cup ({ray[c]} \ {NoRay}) : r.client = c}

(* Bound: how many rays which cameras send, and that one camera at most    *)
(* sends two rays of one frame.  With a third camera, or two rays of one   *)
(* frame, the last frames are those of time LastFrame.                     *)
SendsTwins(c) == \E r, s \in SentBy(c) : r # s /\ SameRay(r, s)
FewFrames ==
    /\ SentBy(Third) = {} \/ \A c \in Clients : Cardinality(SentBy(c)) <= 1
    /\ \A c, d \in Clients : SendsTwins(c) /\ SendsTwins(d) => c = d
    /\ \/ SentBy(Third) = {} /\ \A c \in Clients : ~SendsTwins(c)
       \/ \A c \in Clients : \A r \in SentBy(c) : r.time <= LastFrame

FewFramesSpec == Init /\ [][Next /\ FewFrames']_vars
=============================================================================
