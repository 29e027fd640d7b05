---------------------------- MODULE MCComponents ----------------------------
(***************************************************************************)
(* Six components that share nothing, checked side by side: a behaviour    *)
(* runs the queue of results, the worker pool of the detector, the link of *)
(* a vision client, one of the two hash tables or the growing array, and   *)
(* leaves the variables of the others as they are.                         *)
(***************************************************************************)
EXTENDS BlockingQueue

CONSTANTS Workers, Stages, TasksPerStage, MinAlloc, Settled, MaxSpurious,
          HeaderSize, Capacity, MaxMessages, MaxFrame, MaxDropped, MaxRays,
          Keys, Hash, InitialBuckets, BucketSize, MaxLoad, MaxBuckets, RehashRatio,
          Elements, MaxSize

VARIABLES
    part,  \* the component that runs
    \* WorkerPool
    nthreads, slots, size, alloc, moved, taskspos, endCount, mutex, mpc, stage, added, wpc, task,
    seen, executed, spurious, crashed,
    \* VisionLink
    link, wire, writing, wpart, out, nsent, wresult, rpart, header, in, nread, rresult, written,
    received, cpc, frameId, frame, serving, spc, initialized, origin, introduced, rayIdx, handled,
    \* HashMap
    data, n_elements, next_rehash, op, overfull, found,
    \* ZHash
    buckets, count, had, zit,
    \* ZArray
    cells, filled

poolVars == <<nthreads, slots, size, alloc, moved, taskspos, endCount, mutex, mpc, stage, added,
              wpc, task, seen, executed, spurious, crashed>>
linkVars == <<link, wire, writing, wpart, out, nsent, wresult, rpart, header, in, nread, rresult,
              written, received, cpc, frameId, frame, serving, spc, initialized, origin,
              introduced, rayIdx, handled>>
tableVars == <<data, n_elements, next_rehash, op, overfull, found>>
zhashVars == <<buckets, count, had, zit>>
listVars == <<cells, filled>>
all == <<part, vars, poolVars, linkVars, tableVars, zhashVars, listVars>>

LinkMessages ==
    {[type |-> "MSG_CLIENT_INIT", size |-> 1]} \cup
    {[type |-> "MSG_VISION_DATA", size |-> n, id |-> i, time |-> f] :
        n \in 1 .. MaxRays, i \in 0 .. MaxFrame, f \in 1 .. MaxFrame}

\* A hash function under which keys share buckets until the table is doubled.
SmallHash == [k \in {0, 1, 2, 4} |-> k]

Pool == INSTANCE WorkerPool
Vision == INSTANCE VisionLink WITH Messages <- LinkMessages
Table == INSTANCE HashMap
Zhash == INSTANCE ZHash WITH size <- count, found <- had
List == INSTANCE ZArray WITH data <- cells, size <- filled

ASSUME ComponentsAssumption ==
    /\ Pool!PoolAssumption /\ Vision!CommsAssumption /\ Vision!LinkAssumption
    /\ Table!TableAssumption /\ Zhash!TableAssumption /\ List!ListAssumption

MCInit ==
    /\ part \in {"queue", "pool", "link", "table", "zhash", "list"}
    /\ Init /\ Pool!Init /\ Vision!Init /\ Table!Init /\ Zhash!Init /\ List!Init
    /\ part # "pool" => nthreads = 1

QueueStep == part = "queue" /\ Next
PoolStep  == part = "pool" /\ Pool!Next
LinkStep  == part = "link" /\ Vision!Next
TableStep == part = "table" /\ Table!Next
ZhashStep == part = "zhash" /\ Zhash!Next
ListStep  == part = "list" /\ List!Next

MCNext ==
    \/ QueueStep /\ UNCHANGED <<part, poolVars, linkVars, tableVars, zhashVars, listVars>>
    \/ PoolStep /\ UNCHANGED <<part, vars, linkVars, tableVars, zhashVars, listVars>>
    \/ LinkStep /\ UNCHANGED <<part, vars, poolVars, tableVars, zhashVars, listVars>>
    \/ TableStep /\ UNCHANGED <<part, vars, poolVars, linkVars, zhashVars, listVars>>
    \/ ZhashStep /\ UNCHANGED <<part, vars, poolVars, linkVars, tableVars, listVars>>
    \/ ListStep /\ UNCHANGED <<part, vars, poolVars, linkVars, tableVars, zhashVars>>
    \* A client that has exited and whose thread has ended does nothing more.
    \/ part = "link" /\ cpc \in {"exited", "undefined"} /\ UNCHANGED all

\* The fairness of each component, as its own specification states it.
MCSpec ==
    /\ MCInit /\ [][MCNext]_all
    /\ \A c \in Consumers : WF_vars(part = "queue" /\ Resume(c)) /\ WF_vars(part = "queue" /\ Pop(c))
    /\ WF_poolVars(part = "pool" /\ ~crashed /\ ~Pool!Overtaken /\ Pool!MainStep)
    /\ \A w \in Workers : WF_poolVars(part = "pool" /\ ~crashed /\ ~Pool!Overtaken /\ Pool!WorkerStep(w))
    /\ WF_linkVars(part = "link" /\ Vision!ClientStep)
    /\ WF_linkVars(part = "link" /\ Vision!ThreadStep)
    /\ WF_linkVars(part = "link" /\ Vision!Accept)
    /\ WF_linkVars(part = "link" /\ Vision!ResetArrives)

-----------------------------------------------------------------------------
(* The properties of the pool (workerpool.c): workerpool_run waits for all *)
(* tasks (and its variables keep their types), each is executed once and   *)
(* stage by stage, and the pool ends: as long as no worker leaves its wait *)
(* though nobody has told it to.                                           *)
RunWaits == part = "pool" => Pool!TypeOK /\ Pool!RunWaits
TasksInStages == Pool!TasksInStages
PoolEnds == part = "pool" => Pool!PoolEnds

(* The properties of the link (client.cpp, ClusterComms.cpp, run_client_   *)
(* thread): reader and writer stay in step (and the variables keep their   *)
(* types), rays arrive in order, whole messages arrive once and in order,  *)
(* the thread of a client that has gone ends, and write() returns.         *)
InStep == part = "link" => Vision!TypeOK /\ Vision!InStep
RaysInOrder == Vision!RaysInOrder
MessageChannel == Vision!MessageChannel
ThreadFollowsClient == Vision!ThreadFollowsClient
WriteReturns == Vision!WriteReturns

(* The hash tables and the array hold what was put into them, within their *)
(* bounds, and a rehash never overfills a bucket; an iterator returns each *)
(* entry once (HashMap.hpp, zhash.c, zarray.c).                            *)
ContainersAreExact ==
    /\ Table!RehashSucceeds /\ Table!BucketsHold
    /\ Zhash!SizeIsExact /\ Zhash!EachKeyOnce
    /\ List!ElementsAreHeld

(* Every step of a hash table is one of a map, every step of the array one *)
(* of a sequence, wherever elements are moved meanwhile; but for a copy of *)
(* a HashMap, which is empty.                                              *)
ContainersRefine == [][Table!IsAMap /\ Zhash!IsAMap /\ List!IsASequence]_all
=============================================================================
