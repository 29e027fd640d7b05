--------------------------- MODULE ClusterServer ---------------------------
(***************************************************************************)
(* ClusterServer of src/ClusterServer.cpp: the threads of the server and   *)
(* what they share.                                                        *)
(*                                                                         *)
(*   main thread    run(): accepts vision clients, for each of which it    *)
(*                  starts a thread, and data clients, which it sends the  *)
(*                  calibration of the connected cameras                   *)
(*   client thread  run_client_thread(): one per vision client             *)
(*   server thread  run_server_thread(): publishes results                 *)
(*   data thread    run_data_thread(): sends results to the data clients   *)
(*                                                                         *)
(* Shared are vision_clients, behind vision_clients_mutex, data_clients,   *)
(* behind data_clients_mutex, and the queue of results, a BlockingQueue,   *)
(* of which the FIFO channel it implements is used here.  The rays, which  *)
(* client threads hand to the server thread, are the subject of            *)
(* DataManager; here a run of syncData just may have a result.             *)
(***************************************************************************)
EXTENDS Integers, Sequences, FiniteSets, SequencesExt

CONSTANTS
    VisionPeers,   \* programs that connect to the vision port
    Configured,    \* those whose address Configuration::getClient knows
    DataPeers,     \* programs that connect to the data port
    MaxFrames      \* bound: results published

ASSUME ServerAssumption ==
    /\ Configured \subseteq VisionPeers
    /\ MaxFrames \in Nat

None == "none"

VARIABLES
    (* the network *)
    vpeer,           \* state of each vision peer's connection
    dpeer,           \* state of each data peer's connection
    (* the main thread *)
    mpc,             \* where it is
    mpeer,           \* the peer it is dealing with
    idx,             \* loop index of init_data_client
    numCams,         \* num_cams of init_data_client
    records,         \* calibration records written so far
    nextVisionId,    \* next_vision_id
    (* the client threads *)
    tpc,             \* where each one is
    id,              \* VisionClient::id
    initialized,     \* VisionClient::initialized
    visionClients,   \* the vector vision_clients
    (* the data thread *)
    dpc,             \* where it is
    didx,            \* its iterator over data_clients
    dataClients,     \* the vector data_clients: [peer, initialized]
    dataMutex,       \* who holds data_clients_mutex: "main", "data" or None
    (* the queue of results *)
    published,       \* frames pushed by the server thread
    taken,           \* frames popped by the data thread
    (* history *)
    greeting,        \* what each data peer's first message announces and holds
    received,        \* the frames each data peer was sent in full
    raced,           \* erase(end()) was executed on vision_clients
    crashed          \* ... and the program died of it

netVars    == <<vpeer, dpeer>>
mainVars   == <<mpc, mpeer, idx, numCams, records, nextVisionId>>
clientVars == <<tpc, id, initialized, visionClients>>
dataVars   == <<dpc, didx, dataClients, dataMutex>>
queueVars  == <<published, taken>>
histVars   == <<greeting, received, raced, crashed>>
vars == <<netVars, mainVars, clientVars, dataVars, queueVars, histVars>>

Frames == 1 .. MaxFrames
Results == INSTANCE FifoChannel WITH
    sent <- published, taken <- taken, Values <- Frames, MaxPushes <- MaxFrames

DataClients == [peer : DataPeers, initialized : BOOLEAN]

TypeOK ==
    /\ vpeer \in [VisionPeers -> {"off", "backlog", "hungup", "open", "closed"}]
    /\ dpeer \in [DataPeers -> {"off", "backlog", "hungup", "open", "stalled", "closed",
                              "reset"}]
    /\ mpc \in {"poll", "register", "lock", "count", "write", "send"}
    /\ mpeer \in VisionPeers \cup DataPeers \cup {None}
    /\ idx \in Nat \ {0} /\ numCams \in Nat /\ records \in Nat /\ nextVisionId \in Nat
    /\ tpc \in [VisionPeers -> {"none", "reading", "leaving", "done"}]
    /\ id \in [VisionPeers -> Nat]
    /\ initialized \in [VisionPeers -> BOOLEAN]
    /\ visionClients \in Seq(VisionPeers)
    /\ dpc \in {"pop", "lock", "send"}
    /\ didx \in Nat \ {0}
    /\ dataClients \in Seq(DataClients)
    /\ dataMutex \in {"main", "data", None}
    /\ published \in Seq(Frames) /\ taken \in Seq(Frames)
    /\ greeting \in [DataPeers -> [announced : Nat, held : Nat]]
    /\ received \in [DataPeers -> Seq(Frames)]
    /\ raced \in BOOLEAN /\ crashed \in BOOLEAN

Init ==
    /\ vpeer = [p \in VisionPeers |-> "off"]
    /\ dpeer = [q \in DataPeers |-> "off"]
    /\ mpc = "poll" /\ mpeer = None
    /\ idx = 1 /\ numCams = 0 /\ records = 0 /\ nextVisionId = 0
    /\ tpc = [p \in VisionPeers |-> "none"]
    /\ id = [p \in VisionPeers |-> 0]
    /\ initialized = [p \in VisionPeers |-> FALSE]
    /\ visionClients = <<>>
    /\ dpc = "pop" /\ didx = 1
    /\ dataClients = <<>> /\ dataMutex = None
    /\ Results!Init
    /\ greeting = [q \in DataPeers |-> [announced |-> 0, held |-> 0]]
    /\ received = [q \in DataPeers |-> <<>>]
    /\ raced = FALSE /\ crashed = FALSE

-----------------------------------------------------------------------------
(* The programs at the other end of the sockets.  A peer that closes its   *)
(* end before the server has accepted it has "hungup".                     *)

VisionConnects(p) == vpeer[p] = "off" /\ vpeer' = [vpeer EXCEPT ![p] = "backlog"]

VisionCloses(p) ==
    \/ vpeer[p] = "backlog" /\ vpeer' = [vpeer EXCEPT ![p] = "hungup"]
    \/ vpeer[p] = "open" /\ vpeer' = [vpeer EXCEPT ![p] = "closed"]

DataConnects(q) == dpeer[q] = "off" /\ dpeer' = [dpeer EXCEPT ![q] = "backlog"]

DataCloses(q) ==
    \/ dpeer[q] = "backlog" /\ dpeer' = [dpeer EXCEPT ![q] = "hungup"]
    \/ dpeer[q] \in {"open", "stalled"} /\ dpeer' = [dpeer EXCEPT ![q] = "closed"]
    \/ dpeer[q] = "closed" /\ dpeer' = [dpeer EXCEPT ![q] = "reset"]

(* A data peer that stops reading lets the buffer of its socket fill up. *)
DataStalls(q)  == dpeer[q] = "open" /\ dpeer' = [dpeer EXCEPT ![q] = "stalled"]
DataResumes(q) == dpeer[q] = "stalled" /\ dpeer' = [dpeer EXCEPT ![q] = "open"]

PeerStep ==
    /\ \/ /\ \E p \in VisionPeers : VisionConnects(p) \/ VisionCloses(p)
          /\ UNCHANGED dpeer
       \/ /\ \E q \in DataPeers :
               DataConnects(q) \/ DataCloses(q) \/ DataStalls(q) \/ DataResumes(q)
          /\ UNCHANGED vpeer
    /\ UNCHANGED <<mainVars, clientVars, dataVars, queueVars, histVars>>

(* The state of a connection once accept() has returned it. *)
Accepted(state) == IF state = "hungup" THEN "closed" ELSE "open"

(* send() blocks while the peer is stalled.  After the peer has closed, it *)
(* still succeeds until the peer's reset has arrived.                      *)
SendSucceeds(q) == dpeer[q] \in {"open", "closed"}
SendFails(q)    == dpeer[q] = "reset"

-----------------------------------------------------------------------------
(* The main thread. *)

PendingVision == {p \in VisionPeers : vpeer[p] \in {"backlog", "hungup"}}
PendingData   == {q \in DataPeers : dpeer[q] \in {"backlog", "hungup"}}

(* An unknown address is turned away. *)
RejectVision(p) ==
    /\ mpc = "poll" /\ p \in PendingVision \ Configured
    /\ vpeer' = [vpeer EXCEPT ![p] = "closed"]
    /\ UNCHANGED <<dpeer, mainVars, clientVars, dataVars, queueVars, histVars>>

(* A known one gets a VisionClient and, if pthread_create succeeds, a      *)
(* thread, which runs from here on.  Otherwise the connection stays open   *)
(* and nobody serves it.                                                   *)
AcceptVision(p) ==
    /\ mpc = "poll" /\ p \in PendingVision \cap Configured
    /\ vpeer' = [vpeer EXCEPT ![p] = Accepted(@)]
    /\ \/ /\ tpc' = [tpc EXCEPT ![p] = "reading"]
          /\ id' = [id EXCEPT ![p] = nextVisionId]
          /\ mpc' = "register" /\ mpeer' = p
       \/ UNCHANGED <<tpc, id, mpc, mpeer>>
    /\ UNCHANGED <<dpeer, idx, numCams, records, nextVisionId, initialized,
                   visionClients, dataVars, queueVars, histVars>>

(* Defect: the counter is left alone, so the next client gets the same id. *)
RegisterSameId ==
    /\ mpc = "register"
    /\ visionClients' = Append(visionClients, mpeer)
    /\ mpc' = "poll" /\ mpeer' = None
    /\ UNCHANGED <<netVars, idx, numCams, records, nextVisionId, tpc, id, initialized,
                   dataVars, queueVars, histVars>>

(* Under vision_clients_mutex, which no other thread holds across a step   *)
(* of this model, the client is entered, be its thread still alive or not. *)
Register ==
    /\ mpc = "register"
    /\ visionClients' = Append(visionClients, mpeer)
    /\ nextVisionId' = nextVisionId + 1
    /\ mpc' = "poll" /\ mpeer' = None
    /\ UNCHANGED <<netVars, idx, numCams, records, tpc, id, initialized,
                   dataVars, queueVars, histVars>>

(* Data clients come after vision clients (`else if'). *)
AcceptData(q) ==
    /\ mpc = "poll" /\ PendingVision = {} /\ q \in PendingData
    /\ dpeer' = [dpeer EXCEPT ![q] = Accepted(@)]
    /\ mpc' = "lock" /\ mpeer' = q
    /\ UNCHANGED <<vpeer, idx, numCams, records, nextVisionId, clientVars, dataVars,
                   queueVars, histVars>>

(* data_clients_mutex is taken, and then, by init_data_client,             *)
(* vision_clients_mutex, which is kept until both passes are over.         *)
LockClients ==
    /\ mpc = "lock" /\ dataMutex = None
    /\ dataMutex' = "main"
    /\ mpc' = "count"
    /\ idx' = 1 /\ numCams' = 0 /\ records' = 0
    /\ UNCHANGED <<netVars, mpeer, nextVisionId, clientVars, dpc, didx, dataClients,
                   queueVars, histVars>>

VisionMutexFree == mpc \notin {"count", "write"}

(* The two passes of init_data_client look at `initialized' of one client  *)
(* at a time, each time under the mutex of that client only.               *)
Flag(i) == IF initialized[visionClients[i]] THEN 1 ELSE 0

(* Defect: the loop goes on without advancing if a client is not ready. *)
CountCamerasStuck ==
    /\ mpc = "count"
    /\ IF idx <= Len(visionClients)
       THEN numCams' = numCams + Flag(idx) /\ idx' = idx + Flag(idx) /\ UNCHANGED mpc
       ELSE mpc' = "write" /\ idx' = 1 /\ UNCHANGED numCams
    /\ UNCHANGED <<netVars, mpeer, records, nextVisionId, clientVars, dataVars,
                   queueVars, histVars>>

CountCameras ==
    /\ mpc = "count"
    /\ IF idx <= Len(visionClients)
       THEN numCams' = numCams + Flag(idx) /\ idx' = idx + 1 /\ UNCHANGED mpc
       ELSE mpc' = "write" /\ idx' = 1 /\ UNCHANGED numCams
    /\ UNCHANGED <<netVars, mpeer, records, nextVisionId, clientVars, dataVars,
                   queueVars, histVars>>

(* Defect: the last client is not visited. *)
WriteRecordsButLast ==
    /\ mpc = "write"
    /\ IF idx < Len(visionClients)
       THEN records' = records + Flag(idx) /\ idx' = idx + 1 /\ UNCHANGED mpc
       ELSE mpc' = "send" /\ UNCHANGED <<idx, records>>
    /\ UNCHANGED <<netVars, mpeer, numCams, nextVisionId, clientVars, dataVars,
                   queueVars, histVars>>

WriteRecords ==
    /\ mpc = "write"
    /\ IF idx <= Len(visionClients)
       THEN records' = records + Flag(idx) /\ idx' = idx + 1 /\ UNCHANGED mpc
       ELSE mpc' = "send" /\ UNCHANGED <<idx, records>>
    /\ UNCHANGED <<netVars, mpeer, numCams, nextVisionId, clientVars, dataVars,
                   queueVars, histVars>>

(* The greeting is sent and the client entered, initialized or not; then   *)
(* data_clients_mutex is released.                                         *)
SendGreeting ==
    /\ mpc = "send"
    /\ \/ /\ SendSucceeds(mpeer)
          /\ dataClients' = Append(dataClients, [peer |-> mpeer, initialized |-> TRUE])
          /\ greeting' = [greeting EXCEPT ![mpeer] = [announced |-> numCams, held |-> records]]
       \/ /\ SendFails(mpeer)
          /\ dataClients' = Append(dataClients, [peer |-> mpeer, initialized |-> FALSE])
          /\ UNCHANGED greeting
    /\ dataMutex' = None
    /\ mpc' = "poll" /\ mpeer' = None
    /\ UNCHANGED <<netVars, idx, numCams, records, nextVisionId, clientVars, dpc, didx,
                   queueVars, received, raced, crashed>>

MainStep ==
    \/ \E p \in VisionPeers : RejectVision(p) \/ AcceptVision(p)
    \/ \E q \in DataPeers : AcceptData(q)
    \/ Register \/ LockClients \/ CountCameras \/ WriteRecords \/ SendGreeting

-----------------------------------------------------------------------------
(* The thread of a vision client. *)

(* MSG_CLIENT_INIT with a configured camera whose calibration can be read. *)
(* Any other message leaves this part of the state alone: vision data go   *)
(* to DataManager::addRay, and a failed initialization is only reported.   *)
ClientInit(p) ==
    /\ tpc[p] = "reading" /\ ~initialized[p]
    /\ initialized' = [initialized EXCEPT ![p] = TRUE]
    /\ UNCHANGED <<netVars, mainVars, tpc, id, visionClients, dataVars, queueVars, histVars>>

(* read() fails: `active' is cleared, the socket closed, and removeClient  *)
(* called.                                                                 *)
ReadFails(p) ==
    /\ tpc[p] = "reading" /\ vpeer[p] = "closed"
    /\ tpc' = [tpc EXCEPT ![p] = "leaving"]
    /\ UNCHANGED <<netVars, mainVars, id, initialized, visionClients, dataVars, queueVars,
                   histVars>>

(* erase(find(...)).  If the main thread has not entered the client yet,   *)
(* find returns end() and erasing it is undefined: the vector loses its    *)
(* last element, or the program crashes.                                   *)
Deregister(p) ==
    /\ tpc[p] = "leaving" /\ VisionMutexFree
    /\ tpc' = [tpc EXCEPT ![p] = "done"]
    /\ IF p \in ToSet(visionClients)
       THEN visionClients' = RemoveFirst(visionClients, p) /\ UNCHANGED <<raced, crashed>>
       ELSE /\ raced' = TRUE
            /\ \/ /\ visionClients # <<>> /\ visionClients' = Front(visionClients)
                  /\ UNCHANGED crashed
               \/ crashed' = TRUE /\ UNCHANGED visionClients
    /\ UNCHANGED <<netVars, mainVars, id, initialized, dataVars, queueVars, greeting, received>>

ClientStep(p) == ClientInit(p) \/ ReadFails(p) \/ Deregister(p)

-----------------------------------------------------------------------------
(* The server thread: a run of syncData that had results. *)
Publish ==
    /\ Results!Send(Len(published) + 1)
    /\ UNCHANGED <<netVars, mainVars, clientVars, dataVars, histVars>>

-----------------------------------------------------------------------------
(* The data thread. *)

PopFrame ==
    /\ dpc = "pop"
    /\ Results!Take
    /\ dpc' = "lock"
    /\ UNCHANGED <<netVars, mainVars, clientVars, didx, dataClients, dataMutex, histVars>>

LockDataClients ==
    /\ dpc = "lock" /\ dataMutex = None
    /\ dataMutex' = "data"
    /\ dpc' = "send" /\ didx' = 1
    /\ UNCHANGED <<netVars, mainVars, clientVars, dataClients, queueVars, histVars>>

AtClient == dpc = "send" /\ didx <= Len(dataClients)

SendFrame ==
    /\ AtClient /\ dataClients[didx].initialized
    /\ SendSucceeds(dataClients[didx].peer)
    /\ received' = [received EXCEPT ![dataClients[didx].peer] = Append(@, Last(taken))]
    /\ didx' = didx + 1
    /\ UNCHANGED <<netVars, mainVars, clientVars, dpc, dataClients, dataMutex, queueVars,
                   greeting, raced, crashed>>

(* Defect: the iterator is advanced after the erase as well. *)
EraseDataClientAndSkip ==
    /\ AtClient /\ dataClients[didx].initialized
    /\ SendFails(dataClients[didx].peer)
    /\ dataClients' = RemoveAt(dataClients, didx)
    /\ didx' = didx + 1
    /\ UNCHANGED <<netVars, mainVars, clientVars, dpc, dataMutex, queueVars, histVars>>

(* Defect: the loop goes on with the client that has disconnected. *)
KeepDataClient ==
    /\ AtClient /\ dataClients[didx].initialized
    /\ SendFails(dataClients[didx].peer)
    /\ UNCHANGED vars

EraseDataClient ==
    /\ AtClient /\ dataClients[didx].initialized
    /\ SendFails(dataClients[didx].peer)
    /\ dataClients' = RemoveAt(dataClients, didx)
    /\ UNCHANGED <<netVars, mainVars, clientVars, dpc, didx, dataMutex, queueVars, histVars>>

(* `continue' without advancing the iterator. *)
SkipUninitialized ==
    /\ AtClient /\ ~dataClients[didx].initialized
    /\ UNCHANGED vars

(* Defect: the mutex is not released. *)
EndRoundLocked ==
    /\ dpc = "send" /\ didx > Len(dataClients)
    /\ dpc' = "pop"
    /\ UNCHANGED <<netVars, mainVars, clientVars, didx, dataClients, dataMutex, queueVars,
                   histVars>>

EndRound ==
    /\ dpc = "send" /\ didx > Len(dataClients)
    /\ dataMutex' = None
    /\ dpc' = "pop"
    /\ UNCHANGED <<netVars, mainVars, clientVars, didx, dataClients, queueVars, histVars>>

DataStep ==
    \/ PopFrame \/ LockDataClients \/ SendFrame \/ EraseDataClient \/ SkipUninitialized
    \/ EndRound

-----------------------------------------------------------------------------
(* Nothing left to do: every thread waits for the network or the queue. *)
Quiescent ==
    /\ mpc = "poll" /\ PendingVision = {} /\ PendingData = {}
    /\ dpc = "pop" /\ taken = published
    /\ \A p \in VisionPeers : tpc[p] # "leaving"

Next ==
    \/ ~crashed /\ PeerStep
    \/ ~crashed /\ MainStep
    \/ ~crashed /\ \E p \in VisionPeers : ClientStep(p)
    \/ ~crashed /\ Publish
    \/ ~crashed /\ DataStep
    \/ (crashed \/ Quiescent) /\ UNCHANGED vars

SafeSpec == Init /\ [][Next]_vars

(* The threads of the server keep running and get the mutexes they wait    *)
(* for.  Peers need not do anything, and syncData need not have results.   *)
Fairness ==
    /\ WF_vars(~crashed /\ MainStep) /\ SF_vars(~crashed /\ LockClients)
    /\ WF_vars(~crashed /\ DataStep) /\ SF_vars(~crashed /\ LockDataClients)
    /\ \A p \in VisionPeers : WF_vars(~crashed /\ (ReadFails(p) \/ Deregister(p)))

Spec == SafeSpec /\ Fairness

-----------------------------------------------------------------------------
(* The clients in the list are in the order of their ids, which are all    *)
(* different; DataManager tells its sources apart by them.  And until a    *)
(* client has been erased before it was entered (RemovedIsGone says that   *)
(* it may), the list holds, between two clients, those whose thread runs.  *)
RegistryExact ==
    /\ \A i, j \in DOMAIN visionClients :
          i < j => id[visionClients[i]] < id[visionClients[j]]
    /\ mpc # "register" /\ ~raced =>
          ToSet(visionClients) = {p \in VisionPeers : tpc[p] \in {"reading", "leaving"}}

(* A vision client that has been removed is not connected any more: it is  *)
(* not in the list from which the greeting is made.                        *)
RemovedIsGone ==
    mpc # "register" => \A p \in ToSet(visionClients) : tpc[p] # "done"

(* A data client never reads a calibration record that was not written:    *)
(* the second pass finds every camera the first one counted.               *)
AnnouncedIsHeld == \A q \in DataPeers : greeting[q].announced <= greeting[q].held

(* A data client is sent consecutive frames, none twice and none left out, *)
(* whatever the others do, and after a round everybody who is still in the *)
(* list has the latest frame.                                              *)
FramesAreConsecutive ==
    /\ \A q \in DataPeers : \A i \in 1 .. Len(received[q]) - 1 :
          received[q][i + 1] = received[q][i] + 1
    /\ dpc = "pop" => \A i \in DOMAIN dataClients :
          LET frames == received[dataClients[i].peer]
          IN  frames # <<>> => Last(frames) = Last(taken)

(* data_clients changes only in the hands of the holder of its mutex, and  *)
(* the two threads that use it hold it where they should.                  *)
DataMutexHeld ==
    /\ dataMutex = "main" <=> mpc \in {"count", "write", "send"}
    /\ dataMutex = "data" <=> dpc = "send"

(* The data thread is held up by a peer or by its own loop. *)
Stalled  == \E q \in DataPeers : dpeer[q] = "stalled"
Spinning == AtClient /\ ~dataClients[didx].initialized

(* A round over the data clients ends. *)
RoundEnds == dpc = "send" ~> crashed \/ dpc = "pop" \/ Stalled \/ Spinning

(* "Sends data to connected data clients": a round does not stop at a      *)
(* client that has not been initialized.                                   *)
RoundPassesUninitialized == Spinning ~> ~Spinning

(* The main thread comes back to its poll for the next client. *)
AcceptReturns == mpc # "poll" ~> crashed \/ mpc = "poll" \/ Stalled \/ Spinning
=============================================================================
