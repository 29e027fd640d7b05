-------------------------- MODULE ComponentsProofs --------------------------
(***************************************************************************)
(* The theorems about the queue of results, for any consumers, values and  *)
(* number of pushes: typing, the order of the elements, and, for the       *)
(* single consumer the server has, that no wakeup is lost.  And those      *)
(* about the worker pool and the vision link, for the system in which they *)
(* are checked side by side.                                               *)
(***************************************************************************)
EXTENDS MCComponents, SequenceTheorems, TLAPS

(* Taking the front element of a typed, non-empty queue leaves the queue,  *)
(* the histories and the program counters typed.                           *)
LEMMA TakeFrontTyping ==
  ASSUME NEW c \in Consumers, TypeOK, q # <<>>, TakeFront(c)
  PROVE  /\ q' \in Seq(Values)
         /\ pushed' \in Seq(Values)
         /\ popped' \in Seq(Values)
         /\ pc' \in [Consumers -> {"idle", "blocked", "woken"}]
BY HeadTailProperties DEF TypeOK, TakeFront

(* The variables of the queue keep their types: q and the two histories    *)
(* hold pushed values only, never an element read from an empty queue.     *)
THEOREM Typing == SafeSpec => []TypeOK
<1>1. Init => TypeOK
  BY EmptySeq DEF Init, TypeOK
<1>2. TypeOK /\ [Next]_vars => TypeOK'
  <2> SUFFICES ASSUME TypeOK, [Next]_vars PROVE TypeOK'
    OBVIOUS
  <2> USE DEF TypeOK
  <2>1. ASSUME NEW v \in Values, Push(v) PROVE TypeOK'
    <3>1. pc' \in [Consumers -> {"idle", "blocked", "woken"}]
      BY <2>1 DEF Push, Signal, Blocked
    <3> QED
      BY <2>1, <3>1 DEF Push
  <2>2. ASSUME NEW c \in Consumers, Pop(c) PROVE TypeOK'
    <3>1. CASE q # <<>> /\ TakeFront(c) /\ UNCHANGED updated
      BY <3>1, TakeFrontTyping
    <3>2. CASE q = <<>> /\ Sleep(c)
      BY <3>2 DEF Sleep
    <3> QED
      BY <2>2, <3>1, <3>2 DEF Pop
  <2>3. ASSUME NEW c \in Consumers, Resume(c) PROVE TypeOK'
    <3>1. CASE Sleep(c)
      BY <3>1 DEF Sleep
    <3>2. CASE q # <<>> /\ TakeFront(c) /\ updated' = FALSE
      <4>1. updated' \in BOOLEAN
        BY <3>2
      <4> QED
        BY <3>2, <4>1, TakeFrontTyping
    <3> QED
      BY <2>3, <3>1, <3>2 DEF Resume
  <2>4. ASSUME NEW c \in Consumers, SpuriousWakeup(c) PROVE TypeOK'
    BY <2>4 DEF SpuriousWakeup
  <2>5. CASE UNCHANGED vars
    BY <2>5 DEF vars
  <2> QED
    BY <2>1, <2>2, <2>3, <2>4, <2>5 DEF Next
<1> QED
  BY <1>1, <1>2, PTL DEF SafeSpec

-----------------------------------------------------------------------------
(* Taking the front element keeps the queue equal to what was pushed and   *)
(* not popped, and the element taken is the next one in push order.        *)
LEMMA TakesTheNext ==
  ASSUME NEW c \in Consumers, TypeOK, QueueIsTheRest, q # <<>>, TakeFront(c)
  PROVE  /\ QueueIsTheRest'
         /\ Len(popped) < Len(pushed)
         /\ popped' = Append(popped, pushed[Len(popped) + 1])
<1> USE DEF TypeOK, QueueIsTheRest, TakeFront
<1>1. Len(q) \in Nat /\ Len(q) > 0
  OBVIOUS
<1>2. Head(q) = pushed[Len(popped) + 1]
  BY <1>1
<1>3. Len(q') = Len(q) - 1 /\ Len(popped') = Len(popped) + 1 /\ pushed' = pushed
  BY <1>1
<1>4. \A i \in 1 .. Len(q') : q'[i] = q[i + 1]
  BY <1>1, <1>3
<1>5. \A i \in 1 .. Len(q') : q'[i] = pushed'[Len(popped') + i]
  <2> TAKE i \in 1 .. Len(q')
  <2>1. i + 1 \in 1 .. Len(q)
    BY <1>1, <1>3
  <2>2. q[i + 1] = pushed[Len(popped) + (i + 1)]
    BY <2>1
  <2>3. Len(popped) + (i + 1) = Len(popped') + i
    BY <1>3
  <2> QED
    BY <1>3, <1>4, <2>2, <2>3
<1>6. popped' = Append(popped, pushed[Len(popped) + 1])
  BY <1>2
<1>7. Len(pushed') = Len(popped') + Len(q')
  <2>1. Len(popped) \in Nat
    OBVIOUS
  <2>2. Len(pushed) = Len(popped) + Len(q)
    OBVIOUS
  <2> HIDE DEF TypeOK, QueueIsTheRest, TakeFront
  <2> QED
    BY <1>1, <1>3, <2>1, <2>2
<1>8. QueueIsTheRest'
  <2> HIDE DEF TypeOK, TakeFront
  <2> QED
    BY <1>5, <1>7
<1> QED
  BY <1>1, <1>6, <1>8

(* At every moment the queue holds exactly the pushed elements that were   *)
(* not popped yet, in push order.                                          *)
THEOREM QueueContents == SafeSpec => []QueueIsTheRest
<1>1. Init => QueueIsTheRest
  BY DEF Init, QueueIsTheRest
<1>2. TypeOK /\ QueueIsTheRest /\ [Next]_vars => QueueIsTheRest'
  <2> SUFFICES ASSUME TypeOK, QueueIsTheRest, [Next]_vars PROVE QueueIsTheRest'
    OBVIOUS
  <2>1. ASSUME NEW v \in Values, Push(v) PROVE QueueIsTheRest'
    BY <2>1 DEF Push, TypeOK, QueueIsTheRest
  <2>2. ASSUME NEW c \in Consumers, Pop(c) PROVE QueueIsTheRest'
    BY <2>2, TakesTheNext DEF Pop, Sleep, QueueIsTheRest
  <2>3. ASSUME NEW c \in Consumers, Resume(c) PROVE QueueIsTheRest'
    <3>1. CASE Sleep(c)
      BY <3>1 DEF Sleep, QueueIsTheRest
    <3>2. CASE q # <<>> /\ TakeFront(c)
      BY <3>2, TakesTheNext
    <3> QED
      BY <2>3, <3>1, <3>2 DEF Resume
  <2>4. ASSUME NEW c \in Consumers, SpuriousWakeup(c) PROVE QueueIsTheRest'
    BY <2>4 DEF SpuriousWakeup, QueueIsTheRest
  <2>5. CASE UNCHANGED vars
    BY <2>5 DEF vars, QueueIsTheRest
  <2> QED
    BY <2>1, <2>2, <2>3, <2>4, <2>5 DEF Next
<1> QED
  BY <1>1, <1>2, Typing, PTL DEF SafeSpec

(* The queue implements the FIFO channel the server relies on, for any     *)
(* number of consumers: each push() is a Send, each pop() that returns is  *)
(* a Take, and every other step of a consumer is invisible.                *)
THEOREM Refinement == SafeSpec => Fifo!SafeSpec
<1>1. Init => Fifo!Init
  BY DEF Init, Fifo!Init
<1>2. TypeOK /\ QueueIsTheRest /\ [Next]_vars => [Fifo!Next]_Fifo!fifoVars
  <2> SUFFICES ASSUME TypeOK, QueueIsTheRest, [Next]_vars
               PROVE  [Fifo!Next]_Fifo!fifoVars
    OBVIOUS
  <2> USE DEF Fifo!Next, Fifo!Send, Fifo!Take, Fifo!fifoVars
  <2>1. ASSUME NEW v \in Values, Push(v) PROVE Fifo!Send(v)
    BY <2>1 DEF Push
  <2>2. ASSUME NEW c \in Consumers, TakeFront(c), q # <<>> PROVE Fifo!Take
    BY <2>2, TakesTheNext DEF TakeFront
  <2>3. ASSUME NEW c \in Consumers, Pop(c) PROVE Fifo!Take \/ UNCHANGED Fifo!fifoVars
    BY <2>2, <2>3 DEF Pop, Sleep
  <2>4. ASSUME NEW c \in Consumers, Resume(c) PROVE Fifo!Take \/ UNCHANGED Fifo!fifoVars
    BY <2>2, <2>4 DEF Resume, Sleep
  <2>5. ASSUME NEW c \in Consumers, SpuriousWakeup(c) PROVE UNCHANGED Fifo!fifoVars
    BY <2>5 DEF SpuriousWakeup
  <2>6. CASE UNCHANGED vars
    BY <2>6 DEF vars
  <2> QED
    BY <2>1, <2>3, <2>4, <2>5, <2>6 DEF Next
<1> QED
  BY <1>1, <1>2, Typing, QueueContents, PTL DEF SafeSpec, Fifo!SafeSpec

-----------------------------------------------------------------------------
(* With a single consumer, as in the server, the flag and the signal are   *)
(* enough: the consumer never sleeps on a queue that holds an element.     *)
THEOREM SingleConsumer ==
  ASSUME NEW d, Consumers = {d}
  PROVE  SafeSpec => []SleepsOnlyWhenEmpty
<1>1. Init => SleepsOnlyWhenEmpty
  BY DEF Init, SleepsOnlyWhenEmpty
<1>2. TypeOK /\ SleepsOnlyWhenEmpty /\ [Next]_vars => SleepsOnlyWhenEmpty'
  <2> SUFFICES ASSUME TypeOK, SleepsOnlyWhenEmpty, [Next]_vars
               PROVE  SleepsOnlyWhenEmpty'
    OBVIOUS
  <2> USE DEF TypeOK, SleepsOnlyWhenEmpty
  <2>1. ASSUME NEW v \in Values, Push(v) PROVE SleepsOnlyWhenEmpty'
    <3>1. pc'[d] # "blocked"
      BY <2>1 DEF Push, Signal, Blocked
    <3> QED
      BY <2>1, <3>1 DEF Push
  <2>2. ASSUME NEW c \in Consumers, Sleep(c), q = <<>> PROVE SleepsOnlyWhenEmpty'
    BY <2>2 DEF Sleep
  <2>3. ASSUME NEW c \in Consumers, TakeFront(c) PROVE SleepsOnlyWhenEmpty'
    BY <2>3 DEF TakeFront
  <2>4. ASSUME NEW c \in Consumers, Pop(c) PROVE SleepsOnlyWhenEmpty'
    BY <2>2, <2>3, <2>4 DEF Pop
  <2>5. ASSUME NEW c \in Consumers, Resume(c) PROVE SleepsOnlyWhenEmpty'
    BY <2>2, <2>3, <2>5 DEF Resume
  <2>6. ASSUME NEW c \in Consumers, SpuriousWakeup(c) PROVE SleepsOnlyWhenEmpty'
    BY <2>6 DEF SpuriousWakeup
  <2>7. CASE UNCHANGED vars
    BY <2>7 DEF vars
  <2> QED
    BY <2>1, <2>4, <2>5, <2>6, <2>7 DEF Next
<1> QED
  BY <1>1, <1>2, Typing, PTL DEF SafeSpec

-----------------------------------------------------------------------------
PoolProofs == INSTANCE WorkerPoolProofs
LinkProofs == INSTANCE VisionLinkProofs WITH Messages <- LinkMessages

-----------------------------------------------------------------------------
(* The pool that runs here is the one the proofs are about: the two        *)
(* instances have the same definitions.                                    *)
LEMMA PoolStartsAlike == Pool!Init <=> PoolProofs!Init
  BY DEF Pool!Init, PoolProofs!Init, Pool!Main, PoolProofs!Main, Pool!Free, PoolProofs!Free,
     Pool!Tasks, PoolProofs!Tasks, Pool!NoTask, PoolProofs!NoTask, Pool!Exit, PoolProofs!Exit,
     Pool!MaxSlots, PoolProofs!MaxSlots, Pool!Cardinality, PoolProofs!Cardinality

(* Two instances of the pool with equal constants have equal steps.        *)
LEMMA PoolStepsAlike == Pool!Next <=> PoolProofs!Next
  BY DEF Pool!Main, PoolProofs!Main, Pool!Free, PoolProofs!Free, Pool!Tasks, PoolProofs!Tasks,
     Pool!NoTask, PoolProofs!NoTask, Pool!Exit, PoolProofs!Exit, Pool!MaxSlots,
     PoolProofs!MaxSlots, Pool!Cardinality, PoolProofs!Cardinality, Pool!Next, PoolProofs!Next,
     Pool!MainStep, PoolProofs!MainStep, Pool!WorkerStep, PoolProofs!WorkerStep, Pool!AddTask,
     PoolProofs!AddTask, Pool!RunSingle, PoolProofs!RunSingle, Pool!ResetCount,
     PoolProofs!ResetCount, Pool!StartWorkers, PoolProofs!StartWorkers, Pool!TestCount,
     PoolProofs!TestCount, Pool!Resume, PoolProofs!Resume, Pool!ResetPosition,
     PoolProofs!ResetPosition, Pool!ClearTasks, PoolProofs!ClearTasks, Pool!AddExit,
     PoolProofs!AddExit, Pool!StopWorkers, PoolProofs!StopWorkers, Pool!Join, PoolProofs!Join,
     Pool!EndWaitReturns, PoolProofs!EndWaitReturns, Pool!WaitReturns, PoolProofs!WaitReturns,
     Pool!Reliable, PoolProofs!Reliable, Pool!Overtaken, PoolProofs!Overtaken,
     Pool!Lock, PoolProofs!Lock, Pool!Check, PoolProofs!Check, Pool!LoadCount,
     PoolProofs!LoadCount, Pool!StoreCount, PoolProofs!StoreCount, Pool!Fetch,
     PoolProofs!Fetch, Pool!Look, PoolProofs!Look, Pool!Execute, PoolProofs!Execute,
     Pool!AddToList, PoolProofs!AddToList, Pool!AllWait, PoolProofs!AllWait, Pool!WakeWorkers,
     PoolProofs!WakeWorkers, Pool!vars, PoolProofs!vars, Pool!listVars, PoolProofs!listVars,
     Pool!mainVars, PoolProofs!mainVars, Pool!workerVars, PoolProofs!workerVars

(* And the properties of their states are equal.                           *)
LEMMA PoolStatesAlike ==
  /\ Pool!TypeOK <=> PoolProofs!TypeOK
  /\ Pool!RunWaits <=> PoolProofs!RunWaits
  /\ Pool!TasksInStages <=> PoolProofs!TasksInStages
  BY DEF Pool!Main, PoolProofs!Main, Pool!Free, PoolProofs!Free, Pool!Tasks, PoolProofs!Tasks,
     Pool!NoTask, PoolProofs!NoTask, Pool!Exit, PoolProofs!Exit, Pool!MaxSlots,
     PoolProofs!MaxSlots, Pool!Cardinality, PoolProofs!Cardinality, Pool!TypeOK,
     PoolProofs!TypeOK, Pool!Reliable, PoolProofs!Reliable, Pool!RunWaits, PoolProofs!RunWaits, Pool!TasksInStages,
     PoolProofs!TasksInStages

(* And so is the link. *)
LEMMA LinkStartsAlike == Vision!Init <=> LinkProofs!Init
  BY DEF Vision!Init, LinkProofs!Init, Vision!CommsInit, LinkProofs!CommsInit, Vision!InitMessage,
     LinkProofs!InitMessage, Vision!DataMessages, LinkProofs!DataMessages, Vision!LinkMessages,
     LinkProofs!LinkMessages, Vision!AddressLists, LinkProofs!AddressLists,
     Vision!AddressOutcomes, LinkProofs!AddressOutcomes

(* The steps of the two instances of the link are equal.                   *)
LEMMA LinkStepsAlike == Vision!Next <=> LinkProofs!Next
  BY DEF Vision!Next, LinkProofs!Next, Vision!writeVars, LinkProofs!writeVars, Vision!commsVars,
     LinkProofs!commsVars, Vision!HeaderByte, LinkProofs!HeaderByte, Vision!Content,
     LinkProofs!Content, Vision!Decoded, LinkProofs!Decoded, Vision!CommsInit,
     LinkProofs!CommsInit, Vision!WriteStart, LinkProofs!WriteStart, Vision!Unsent,
     LinkProofs!Unsent, Vision!WriteAdvances, LinkProofs!WriteAdvances, Vision!Send,
     LinkProofs!Send, Vision!WriteFails, LinkProofs!WriteFails, Vision!ReadStart,
     LinkProofs!ReadStart, Vision!ReadDone, LinkProofs!ReadDone, Vision!HeaderComplete,
     LinkProofs!HeaderComplete, Vision!RecvHeader, LinkProofs!RecvHeader, Vision!RecvBody,
     LinkProofs!RecvBody, Vision!ReadFails, LinkProofs!ReadFails, Vision!clientVars,
     LinkProofs!clientVars, Vision!serverVars, LinkProofs!serverVars, Vision!vars,
     LinkProofs!vars, Vision!InitMessage, LinkProofs!InitMessage, Vision!DataMessages,
     LinkProofs!DataMessages, Vision!LinkMessages, LinkProofs!LinkMessages,
     Vision!AddressLists, LinkProofs!AddressLists, Vision!Open, LinkProofs!Open,
     Vision!Introduce, LinkProofs!Introduce, Vision!Introduced, LinkProofs!Introduced,
     Vision!Capture, LinkProofs!Capture, Vision!Sent, LinkProofs!Sent, Vision!Exits,
     LinkProofs!Exits, Vision!GivesUp, LinkProofs!GivesUp, Vision!Killed, LinkProofs!Killed,
     Vision!WriteStep, LinkProofs!WriteStep, Vision!ClientStep, LinkProofs!ClientStep,
     Vision!CameraStep, LinkProofs!CameraStep, Vision!NetworkFails, LinkProofs!NetworkFails,
     Vision!ResetArrives, LinkProofs!ResetArrives, Vision!Accept, LinkProofs!Accept,
     Vision!NextMessage, LinkProofs!NextMessage, Vision!ReadStep, LinkProofs!ReadStep,
     Vision!Parsed, LinkProofs!Parsed, Vision!HandleInit, LinkProofs!HandleInit,
     Vision!HandleData, LinkProofs!HandleData, Vision!HandleRay, LinkProofs!HandleRay,
     Vision!Leave, LinkProofs!Leave, Vision!CloseSocket, LinkProofs!CloseSocket,
     Vision!ThreadStep, LinkProofs!ThreadStep, Vision!AddressOutcomes,
     LinkProofs!AddressOutcomes, Vision!LegalOutcomes, LinkProofs!LegalOutcomes,
     Vision!Uninitialized, LinkProofs!Uninitialized, Vision!SocketOpen, LinkProofs!SocketOpen,
     Vision!BodyOf, LinkProofs!BodyOf, Vision!HeaderOf, LinkProofs!HeaderOf, Vision!readVars,
     LinkProofs!readVars, Vision!connVars, LinkProofs!connVars, Vision!SelectInSeq,
     LinkProofs!SelectInSeq, Vision!ToSet, LinkProofs!ToSet, Vision!BodyByte,
     LinkProofs!BodyByte, Vision!Min, LinkProofs!Min

(* And the properties of their states.                                     *)
LEMMA LinkStatesAlike ==
  /\ Vision!TypeOK <=> LinkProofs!TypeOK
  /\ Vision!InStep <=> LinkProofs!InStep
  BY DEF Vision!TypeOK, LinkProofs!TypeOK, Vision!InStep, LinkProofs!InStep, Vision!FlattenSeq,
     LinkProofs!FlattenSeq, Vision!HeaderByte, LinkProofs!HeaderByte, Vision!HeaderOf,
     LinkProofs!HeaderOf, Vision!BodyOf, LinkProofs!BodyOf, Vision!BodyByte,
     LinkProofs!BodyByte, Vision!Content, LinkProofs!Content, Vision!InitMessage,
     LinkProofs!InitMessage, Vision!DataMessages, LinkProofs!DataMessages, Vision!LinkMessages,
     LinkProofs!LinkMessages, Vision!AddressLists, LinkProofs!AddressLists,
     Vision!AddressOutcomes, LinkProofs!AddressOutcomes

(* And the channels that they implement.                                   *)
LEMMA ChannelsAlike ==
  /\ Vision!Channel!Init <=> LinkProofs!Channel!Init
  /\ [Vision!Channel!Next]_(Vision!Channel!fifoVars)
       <=> [LinkProofs!Channel!Next]_(LinkProofs!Channel!fifoVars)
  BY DEF Vision!Channel!Init, LinkProofs!Channel!Init, Vision!Channel!Next,
     LinkProofs!Channel!Next, Vision!Channel!Send, LinkProofs!Channel!Send,
     Vision!Channel!Take, LinkProofs!Channel!Take, Vision!Channel!fifoVars,
     LinkProofs!Channel!fifoVars,
     Vision!Content, LinkProofs!Content, Vision!BodyOf, LinkProofs!BodyOf, Vision!BodyByte,
     LinkProofs!BodyByte

(* And the order of the rays.                                              *)
LEMMA RaysAlike == Vision!RaysInOrder <=> LinkProofs!RaysInOrder
  BY DEF Vision!RaysInOrder, LinkProofs!RaysInOrder, Vision!FoldLeft, LinkProofs!FoldLeft,
     Vision!MapThenFoldSet, LinkProofs!MapThenFoldSet, Vision!Max, LinkProofs!Max

-----------------------------------------------------------------------------
(* A step of the system is a step of the pool, or leaves it alone; and so  *)
(* for the link.                                                           *)
LEMMA PoolMoves == [MCNext]_all => [PoolProofs!Next]_(PoolProofs!vars)
<1>1. PoolProofs!vars' = PoolProofs!vars <=> poolVars' = poolVars
  BY DEF poolVars, PoolProofs!vars, PoolProofs!listVars, PoolProofs!mainVars, PoolProofs!workerVars
<1> QED
  BY <1>1, PoolStepsAlike DEF all, MCNext, PoolStep, QueueStep, LinkStep, TableStep, ZhashStep,
     ListStep

(* A step of the system is a step of the link, or leaves it alone.         *)
LEMMA LinkMoves == [MCNext]_all => [LinkProofs!Next]_(LinkProofs!vars)
<1>1. LinkProofs!vars' = LinkProofs!vars <=> linkVars' = linkVars
  BY DEF linkVars, LinkProofs!vars, LinkProofs!commsVars, LinkProofs!clientVars, LinkProofs!serverVars,
     LinkProofs!connVars, LinkProofs!writeVars, LinkProofs!readVars
<1> QED
  BY <1>1, LinkStepsAlike DEF all, MCNext, PoolStep, QueueStep, LinkStep, TableStep, ZhashStep,
     ListStep

(* The assumptions of the pool and of the link, for a pool whose workers   *)
(* have settled and that has something to do, and a bound of the channel   *)
(* that allows for all frames.                                             *)
LEMMA PoolIsSettled ==
  ASSUME Settled, Stages > 0, TasksPerStage > 0
  PROVE  PoolProofs!PoolConstants
  BY ComponentsAssumption
     DEF PoolProofs!PoolConstants, Pool!PoolAssumption, PoolProofs!PoolAssumption, Pool!Cardinality,
         PoolProofs!Cardinality, Pool!IsFiniteSet, PoolProofs!IsFiniteSet

(* The constants of the run are those the link's theorems are about.       *)
LEMMA LinkIsBounded ==
  ASSUME MaxMessages \in Nat, MaxFrame < MaxMessages
  PROVE  LinkProofs!LinkConstants
<1>1. LinkMessages = LinkProofs!LinkMessages
  BY DEF LinkMessages, LinkProofs!LinkMessages, LinkProofs!InitMessage, LinkProofs!DataMessages
<1> QED
  BY <1>1, ComponentsAssumption
     DEF LinkProofs!LinkConstants, Vision!CommsAssumption, LinkProofs!CommsAssumption, Vision!LinkAssumption,
         LinkProofs!LinkAssumption

(* The invariants of the pool and of the link hold in the system.          *)
LEMMA PoolHolds ==
  ASSUME Settled, Stages > 0, TasksPerStage > 0
  PROVE  MCSpec => [](PoolProofs!RoomInv /\ (PoolProofs!Reliable => PoolProofs!PoolInv))
<1> DEFINE Inv == PoolProofs!RoomInv /\ (PoolProofs!Reliable => PoolProofs!PoolInv)
<1>1. PoolProofs!PoolConstants
  BY PoolIsSettled
<1>2. MCInit => Inv
  BY <1>1, PoolStartsAlike, PoolProofs!PoolInit, PoolProofs!RoomInit DEF MCInit
<1>3. Inv /\ [MCNext]_all => Inv'
  BY <1>1, PoolMoves, PoolProofs!PoolStep, PoolProofs!RoomStep, PoolProofs!ReturnsAreCounted
     DEF PoolProofs!RoomInv, PoolProofs!TypeOK
<1> QED
  BY <1>2, <1>3, PTL DEF MCSpec

(* The link's invariants hold of the system.                               *)
LEMMA LinkHolds ==
  ASSUME MaxMessages \in Nat, MaxFrame < MaxMessages
  PROVE  MCSpec => [](LinkProofs!LinkInv /\ LinkProofs!RaysInv)
<1>1. LinkProofs!LinkConstants
  BY LinkIsBounded
<1>2. MCInit => LinkProofs!LinkInv /\ LinkProofs!RaysInv
  BY <1>1, LinkStartsAlike, LinkProofs!InitLink, LinkProofs!InitRays DEF MCInit
<1>3. /\ LinkProofs!LinkInv /\ LinkProofs!RaysInv
      /\ [MCNext]_all
      => (LinkProofs!LinkInv /\ LinkProofs!RaysInv)'
  BY <1>1, LinkMoves, LinkProofs!LinkStep, LinkProofs!RaysStep
<1> QED
  BY <1>2, <1>3, PTL DEF MCSpec

-----------------------------------------------------------------------------
(* The variables of the pool keep their types, and workerpool_run waits    *)
(* for every task of its stage, unless a worker has left its wait though   *)
(* nobody had told it to.                                                  *)
THEOREM PoolWaits ==
  ASSUME Settled, Stages > 0, TasksPerStage > 0
  PROVE  MCSpec => []RunWaits
<1>1. PoolProofs!PoolConstants
  BY PoolIsSettled
<1>2. PoolProofs!RoomInv => PoolProofs!TypeOK
  BY DEF PoolProofs!RoomInv
<1>3. (PoolProofs!Reliable => PoolProofs!PoolInv) => PoolProofs!RunWaits
  BY <1>1, PoolProofs!WaitsForTasks
<1>4. PoolProofs!RoomInv /\ (PoolProofs!Reliable => PoolProofs!PoolInv) => RunWaits
  BY <1>2, <1>3, PoolStatesAlike DEF RunWaits
<1> QED
  BY <1>4, PoolHolds, PTL

(* Every task is executed once, after the stages in front of it; with the  *)
(* same exception.                                                         *)
THEOREM PoolStages ==
  ASSUME Settled, Stages > 0, TasksPerStage > 0
  PROVE  MCSpec => []TasksInStages
<1>1. PoolProofs!PoolConstants
  BY PoolIsSettled
<1>2. (PoolProofs!Reliable => PoolProofs!PoolInv) => TasksInStages
  BY <1>1, PoolProofs!StagesInTurn, PoolStatesAlike DEF TasksInStages
<1> QED
  BY <1>2, PoolHolds, PTL

(* Reader and writer of a connection stay in step.                         *)
THEOREM LinkInStep ==
  ASSUME MaxMessages \in Nat, MaxFrame < MaxMessages
  PROVE  MCSpec => []InStep
<1>1. LinkProofs!LinkInv => LinkProofs!TypeOK
  BY DEF LinkProofs!LinkInv, LinkProofs!Types
<1>2. LinkProofs!LinkInv => InStep
  BY <1>1, LinkProofs!StepIsKept, LinkStatesAlike DEF InStep
<1> QED
  BY <1>2, LinkHolds, PTL

(* The rays of a client reach the DataManager in the order of capture,     *)
(* message by message, after its introduction, and none is left out.       *)
THEOREM LinkKeepsOrder ==
  ASSUME MaxMessages \in Nat, MaxFrame < MaxMessages
  PROVE  MCSpec => []RaysInOrder
<1>1. LinkProofs!LinkInv /\ LinkProofs!RaysInv => RaysInOrder
  BY LinkProofs!RaysAreInOrder, RaysAlike DEF RaysInOrder
<1> QED
  BY <1>1, LinkHolds, PTL

(* And the bytes between them implement a channel of messages.             *)
THEOREM LinkIsChannel ==
  ASSUME MaxMessages \in Nat, MaxFrame < MaxMessages
  PROVE  MCSpec => MessageChannel
<1>1. LinkProofs!LinkConstants
  BY LinkIsBounded
<1>2. MCInit => Vision!Channel!Init
  BY LinkStartsAlike, ChannelsAlike
     DEF MCInit, LinkProofs!Init, LinkProofs!CommsInit, LinkProofs!Channel!Init
<1>3. LinkProofs!LinkInv /\ LinkProofs!LinkInv' /\ [MCNext]_all
        => [Vision!Channel!Next]_(Vision!Channel!fifoVars)
  BY <1>1, LinkMoves, LinkProofs!StepOfChannel, ChannelsAlike
<1> QED
  BY <1>2, <1>3, LinkHolds, PTL DEF MCSpec, MessageChannel, Vision!MessageChannel, Vision!Channel!SafeSpec
=============================================================================
