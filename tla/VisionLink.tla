----------------------------- MODULE VisionLink -----------------------------
(***************************************************************************)
(* A vision client (main() of src/client.cpp) and the thread that serves   *)
(* it (ClusterServer::run_client_thread), with the connection between      *)
(* them.  The client opens the connection, introduces itself and sends the *)
(* rays of every frame in which it has found markers; the thread hands the *)
(* rays to the DataManager.                                                *)
(***************************************************************************)
EXTENDS ClusterComms, Network

CONSTANTS
    MaxFrame,   \* bound: frames the camera takes
    MaxDropped, \* bound: frames dropped at a time
    MaxRays     \* bound: rays of a frame

LinkAssumption == MaxFrame \in Nat /\ MaxDropped \in Nat /\ MaxRays \in Nat

VARIABLES
    cpc,          \* where the client is
    frameId,      \* frame_id of the client
    frame,        \* number of frames the camera has delivered or dropped
    serving,      \* what the main thread has made of the connection
    spc,          \* where the serving thread is
    initialized,  \* VisionClient::initialized
    origin,       \* whether vis.cam_pos has been computed
    introduced,   \* history: a MSG_CLIENT_INIT has been handled
    rayIdx,       \* loop index of run_client_thread
    handled       \* history: the rays given to DataManager::addRay

clientVars == <<cpc, frameId, frame>>
serverVars == <<serving, spc, initialized, origin, introduced, rayIdx, handled>>
vars == <<commsVars, clientVars, serverVars>>

(* The messages.  A message of vision data grows with the number of rays;  *)
(* its time stamp is the frame itself.                                     *)
InitMessage == [type |-> "MSG_CLIENT_INIT", size |-> 1]
DataMessages ==
    {[type |-> "MSG_VISION_DATA", size |-> n, id |-> i, time |-> f] :
        n \in 1 .. MaxRays, i \in 0 .. MaxFrame, f \in 1 .. MaxFrame}
LinkMessages == {InitMessage} \cup DataMessages

(* The addresses of the server, as getaddrinfo() may list them. *)
AddressLists == {<<>>} \cup {<<o>> : o \in AddressOutcomes} \cup (AddressOutcomes \X AddressOutcomes)

TypeOK ==
    /\ link \in {"up", "closed", "down"} /\ writing \in BOOLEAN
    /\ Len(wire) <= Capacity
    /\ wpart \in {"none", "header", "body"} /\ rpart \in {"none", "header", "body"}
    /\ out \in Messages /\ nsent \in 0 .. HeaderSize + MaxRays
    /\ nread \in 0 .. HeaderSize + MaxRays
    /\ wresult \in {-1, 0, 1} /\ rresult \in {-1, 0, 1}
    /\ cpc \in {"open", "init", "introducing", "capture", "sending", "exited", "undefined"}
    /\ frameId \in 0 .. MaxFrame /\ frame \in 0 .. MaxFrame
    /\ serving \in {"unknown", "pending", "served", "unserved", "rejected"}
    /\ spc \in {"off", "check", "reading", "rays", "leaving", "ended"}
    /\ initialized \in BOOLEAN /\ origin \in BOOLEAN /\ introduced \in BOOLEAN
    /\ rayIdx \in 1 .. MaxRays + 1

Init ==
    /\ CommsInit
    /\ cpc = "open" /\ frameId = 0 /\ frame = 0
    /\ serving = "unknown" /\ spc = "off"
    /\ initialized = FALSE /\ origin = FALSE /\ introduced = FALSE
    /\ rayIdx = 1 /\ handled = <<>>

-----------------------------------------------------------------------------
(* The client. *)

(* The client stops if socket_open says so.  If it says `true' without     *)
(* having opened a socket, the client goes on with an uninitialized        *)
(* descriptor and address.                                                 *)
Open(lookup, outcomes) ==
    /\ cpc = "open" /\ LegalOutcomes(FALSE, outcomes)
    /\ LET opened == SocketOpen(lookup, outcomes)
       IN  IF ~opened.result
           THEN cpc' = "exited" /\ UNCHANGED serving
           ELSE IF opened.sock = Uninitialized
           THEN cpc' = "undefined" /\ UNCHANGED serving
           ELSE cpc' = "init" /\ serving' = "pending"
    /\ UNCHANGED <<commsVars, frameId, frame, spc, initialized, origin, introduced, rayIdx,
                   handled>>

Introduce ==
    /\ cpc = "init"
    /\ WriteStart(InitMessage)
    /\ cpc' = "introducing"
    /\ UNCHANGED <<frameId, frame, serverVars>>

Introduced ==
    /\ cpc = "introducing" /\ wpart = "none" /\ wresult = 1
    /\ cpc' = "capture"
    /\ UNCHANGED <<commsVars, frameId, frame, serverVars>>

(* A frame is read, which may have cost others, and n markers are found in *)
(* it.  Without any, nothing is sent, and the frame is not counted.        *)
Capture(d, n) ==
    /\ cpc = "capture" /\ frame + 1 + d <= MaxFrame
    /\ frame' = frame + 1 + d
    /\ frameId' = frameId + d
    /\ IF n = 0
       THEN UNCHANGED <<cpc, commsVars>>
       ELSE /\ cpc' = "sending"
            /\ WriteStart([type |-> "MSG_VISION_DATA", size |-> n,
                           id |-> frameId', time |-> frame'])
    /\ UNCHANGED serverVars

(* Defect: the frame id stays. *)
SentSameId ==
    /\ cpc = "sending" /\ wpart = "none" /\ wresult = 1
    /\ cpc' = "capture"
    /\ UNCHANGED <<commsVars, frameId, frame, serverVars>>

Sent ==
    /\ cpc = "sending" /\ wpart = "none" /\ wresult = 1
    /\ cpc' = "capture" /\ frameId' = frameId + 1
    /\ UNCHANGED <<commsVars, frame, serverVars>>

(* The client returns from main() when a write has failed, and its end of  *)
(* the connection goes with it.  It may also be killed at any time.        *)
Exits ==
    /\ cpc' = "exited" /\ writing' = FALSE
    /\ UNCHANGED <<link, wire, writeVars, readVars, frameId, frame, serverVars>>
(* Defect: only a result of 0 ends the client. *)
GivesUpOnEnd ==
    /\ cpc \in {"introducing", "sending"} /\ wpart = "none" /\ wresult = 0
    /\ Exits
GivesUp ==
    /\ cpc \in {"introducing", "sending"} /\ wpart = "none" /\ wresult # 1
    /\ Exits
Killed ==
    /\ cpc \notin {"open", "exited", "undefined"}
    /\ Exits

(* write() is at work; ReadStep is its counterpart. *)
WriteStep ==
    /\ cpc \in {"introducing", "sending"}
    /\ WriteFails \/ \E n \in 1 .. Capacity : Send(n)
    /\ UNCHANGED <<clientVars, serverVars>>

ClientStep ==
    \/ \E lookup \in {"ok", "failed"}, outcomes \in AddressLists : Open(lookup, outcomes)
    \/ Introduce \/ Introduced \/ Sent \/ GivesUp \/ WriteStep

CameraStep == \E d \in 0 .. MaxDropped, n \in 0 .. MaxRays : Capture(d, n)

-----------------------------------------------------------------------------
(* The network. *)

NetworkFails ==
    /\ serving # "unknown" /\ link = "up"
    /\ link' = "down" /\ wire' = <<>>
    /\ UNCHANGED <<writing, writeVars, readVars, clientVars, serverVars>>

(* The reset that answers data for a closed socket. *)
ResetArrives ==
    /\ link = "closed"
    /\ link' = "down"
    /\ UNCHANGED <<wire, writing, writeVars, readVars, clientVars, serverVars>>

-----------------------------------------------------------------------------
(* The server. *)

(* The main thread accepts a connection: it starts a thread, fails to, and *)
(* leaves the connection open, or closes it because it does not know the   *)
(* address.                                                                *)
Accept ==
    /\ serving = "pending"
    /\ \/ serving' = "served" /\ spc' = "check" /\ UNCHANGED <<link, wire>>
       \/ serving' = "unserved" /\ UNCHANGED <<spc, link, wire>>
       \/ /\ serving' = "rejected"
          /\ link' = (IF link = "up" THEN "closed" ELSE link)
          /\ wire' = <<>>
          /\ UNCHANGED spc
    /\ UNCHANGED <<writing, writeVars, readVars, clientVars, initialized, origin, introduced,
                   rayIdx, handled>>

(* `active' is looked at, and only this thread clears it. *)
NextMessage ==
    /\ spc = "check"
    /\ ReadStart
    /\ spc' = "reading"
    /\ UNCHANGED <<clientVars, serving, initialized, origin, introduced, rayIdx, handled>>

ReadStep ==
    /\ spc = "reading"
    /\ ReadFails \/ \E n \in 1 .. Capacity : RecvHeader(n) \/ RecvBody(n)
    /\ UNCHANGED <<clientVars, serverVars>>

(* The message that was read, if it is one. *)
Parsed == {m \in Messages : in = Content(m)}

(* The camera may be unknown or its calibration unreadable, which is       *)
(* reported and otherwise ignored.                                         *)
HandleInit ==
    /\ spc = "reading" /\ rpart = "none" /\ rresult = 1 /\ in.type = "MSG_CLIENT_INIT"
    /\ \/ initialized' = TRUE /\ origin' = TRUE
       \/ UNCHANGED <<initialized, origin>>
    /\ introduced' = TRUE
    /\ spc' = "check"
    /\ UNCHANGED <<commsVars, clientVars, serving, rayIdx, handled>>

HandleData ==
    /\ spc = "reading" /\ rpart = "none" /\ rresult = 1 /\ in.type = "MSG_VISION_DATA"
    /\ spc' = "rays" /\ rayIdx' = 1
    /\ UNCHANGED <<commsVars, clientVars, serving, initialized, origin, introduced, handled>>

(* Each ray gets the origin of this client's camera, known or not. *)
HandleRay ==
    /\ spc = "rays"
    /\ IF rayIdx <= in.size
       THEN /\ \E m \in Parsed : handled' =
                   Append(handled, [id |-> m.id, time |-> m.time, n |-> rayIdx, origin |-> origin])
            /\ rayIdx' = rayIdx + 1
            /\ UNCHANGED spc
       ELSE spc' = "check" /\ UNCHANGED <<rayIdx, handled>>
    /\ UNCHANGED <<commsVars, clientVars, serving, initialized, origin, introduced>>

(* read() has failed: `active' is cleared and the loop left. *)
Leave ==
    /\ spc = "reading" /\ rpart = "none" /\ rresult # 1
    /\ spc' = "leaving"
    /\ UNCHANGED <<commsVars, clientVars, serving, initialized, origin, introduced, rayIdx,
                   handled>>

CloseSocket ==
    /\ spc = "leaving"
    /\ link' = (IF link = "up" THEN "closed" ELSE link)
    /\ wire' = <<>>
    /\ spc' = "ended"
    /\ UNCHANGED <<writing, writeVars, readVars, clientVars, serving, initialized, origin,
                   introduced, rayIdx, handled>>

ThreadStep ==
    \/ NextMessage \/ ReadStep \/ HandleInit \/ HandleData \/ HandleRay \/ Leave
    \/ CloseSocket

-----------------------------------------------------------------------------
Next ==
    \/ ClientStep \/ CameraStep \/ Killed
    \/ NetworkFails \/ ResetArrives
    \/ Accept \/ ThreadStep

(* The programs run, the main thread comes back to its poll, and a reset   *)
(* arrives.  The camera may stop, and the client need not be killed.       *)
Spec ==
    /\ Init /\ [][Next]_vars
    /\ WF_vars(ClientStep) /\ WF_vars(ThreadStep) /\ WF_vars(Accept) /\ WF_vars(ResetArrives)

-----------------------------------------------------------------------------
(* The bytes implement a channel of messages: complete messages arrive     *)
(* complete, once and in order, however they were cut up.                  *)
MessageChannel == Channel!SafeSpec

(* Rays reach the DataManager after their client has introduced itself,    *)
(* frame by frame and complete, in the order of capture; two frames differ *)
(* in their id, by no more than the frames that lie between them.  Once a  *)
(* ray has an origin, all later ones do, and when the thread reads again,  *)
(* it has handed on all the rays of the messages it has read.              *)
RaysInOrder ==
    /\ handled # <<>> => introduced
    /\ \A i \in 1 .. Len(handled) - 1 :
          LET a == handled[i]  b == handled[i + 1] IN
          /\ \/ b.id = a.id /\ b.time = a.time /\ b.n = a.n + 1
             \/ b.n = 1 /\ b.id > a.id /\ b.time - a.time >= b.id - a.id
          /\ a.origin => b.origin
    /\ \A i \in DOMAIN handled : handled[i].id < handled[i].time
    /\ spc \in {"check", "leaving", "ended"} =>
          Len(handled) = FoldLeft(LAMBDA sum, m :
              IF m.type = "MSG_VISION_DATA" THEN sum + m.size ELSE sum, 0, received)

(* The thread of a client that has gone ends, which removes the client. *)
ThreadFollowsClient == serving = "served" /\ ~writing ~> spc = "ended"

(* A client is stuck in write() only if nobody reads what it sends. *)
WriteReturns == cpc \in {"introducing", "sending"} ~>
    cpc \notin {"introducing", "sending"} \/ (serving = "unserved" /\ Len(wire) = Capacity)
=============================================================================
