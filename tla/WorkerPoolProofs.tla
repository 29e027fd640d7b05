-------------------------- MODULE WorkerPoolProofs --------------------------
(***************************************************************************)
(* Proofs about WorkerPool for any workers, stages and tasks: typing, that *)
(* workerpool_run waits for its tasks, and that every task is executed     *)
(* once and in its stage.  They hold for a pool whose workers wait before  *)
(* the first task is added: without that, the list is moved under a worker *)
(* that points into it.  And all but the first of them hold as long as no  *)
(* worker leaves its wait unasked, since it would be counted twice.        *)
(***************************************************************************)
EXTENDS WorkerPool, Integers, FiniteSetTheorems, TLAPS

(* The constants of a pool whose workers have settled, and which is given  *)
(* something to do in every stage.                                         *)
PoolConstants == PoolAssumption /\ Settled /\ Stages > 0 /\ TasksPerStage > 0

Size == Cardinality(Workers)

(* The phases of the detector: before it has added anything; while the     *)
(* workers run the tasks of a stage; while they leave.  In all the others  *)
(* every worker waits.                                                     *)
Starting == mpc = "add" /\ stage = 1 /\ added = 0
Running  == mpc \in {"test", "waiting", "woken"}
Leaving  == mpc \in {"join", "done"}

Waiting == {w \in Workers : wpc[w] = "waiting"}
Left    == {w \in Workers : wpc[w] \in {"fetched", "exited"}}
Holding == {w \in Workers : wpc[w] \in {"fetched", "task"}}

(* The task a worker has taken: it points to it, or works on it.           *)
Claim(w) == IF wpc[w] = "fetched" THEN <<stage, task[w].index + 1>> ELSE task[w].doing

(* The inductive invariant, part by part.  Where the detector is, *)
MainInv ==
    /\ mpc \notin {"add", "stop", "join", "done"} => stage <= Stages
    /\ mpc \in {"stop", "join", "done"} => stage = Stages + 1
    /\ nthreads = 1 => mpc \in {"add", "done"}

(* what the list holds, and where its position stands, *)
ListInv ==
    /\ \A i \in 0 .. size - 1 : slots[i] = IF stage <= Stages THEN <<stage, i + 1>> ELSE Exit
    /\ mpc = "add" =>
          /\ size = added
          /\ added <= IF stage <= Stages THEN TasksPerStage ELSE IF nthreads = 1 THEN 0 ELSE Size
    /\ mpc \notin {"add", "stop", "join", "done"} => size = TasksPerStage
    /\ nthreads = Size /\ mpc \in {"stop", "join", "done"} => size = Size
    /\ taskspos <= size
    /\ mpc \in {"add", "lock", "clear", "stop"} \/ nthreads = 1 => taskspos = 0
    /\ mpc = "returned" => taskspos = size

(* where the workers may be in each phase, *)
WorkersInv ==
    \A w \in Workers :
        IF nthreads = 1 THEN wpc[w] = "exited"
        ELSE IF Starting THEN wpc[w] \in {"lock", "check", "count", "counted", "waiting"}
        ELSE IF Running THEN wpc[w] # "exited"
        ELSE IF mpc = "join" THEN wpc[w] \in {"woken", "check", "fetch", "fetched", "exited"}
        ELSE IF mpc = "done" THEN wpc[w] = "exited"
        ELSE wpc[w] = "waiting"

(* who holds the mutex, *)
MutexInv ==
    /\ mutex = Main <=> mpc = "test"
    /\ \A w \in Workers : mutex = w <=> wpc[w] \in {"check", "count", "counted", "fetch"}

(* how many have been counted, *)
CountInv ==
    /\ mpc = "lock" => endCount = 0
    /\ (Starting \/ Running) /\ nthreads = Size =>
        /\ endCount = Cardinality(Waiting)
        /\ \A w \in Workers :
              /\ wpc[w] \in {"waiting", "count", "counted"} => taskspos = size
              /\ wpc[w] = "counted" => seen[w] = endCount

(* how many have left, *)
LeaveInv == Leaving /\ nthreads = Size => taskspos = Cardinality(Left)

(* which tasks are taken, each by one worker, *)
ClaimInv ==
    /\ \A w \in Workers :
          /\ wpc[w] = "fetch" => taskspos < size
          /\ wpc[w] = "fetched" => task[w].moved = moved /\ task[w].index \in 0 .. taskspos - 1
          /\ wpc[w] = "task" => task[w].doing \in {stage} \X (1 .. taskspos)
    /\ stage <= Stages => \A v, w \in Holding : Claim(v) = Claim(w) => v = w

(* and which tasks have been executed, each of them once. *)
Complete(t) ==
    \/ t[1] < stage
    \/ /\ t[1] = stage
       /\ mpc = "clear" \/ (t[2] <= taskspos /\ \A w \in Holding : Claim(w) # t)

DoneInv == \A t \in Tasks : executed[t] = IF Complete(t) THEN 1 ELSE 0

PoolInv ==
    /\ TypeOK /\ task = [w \in Workers |-> task[w]] /\ ~crashed
    /\ MainInv /\ ListInv /\ WorkersInv /\ MutexInv /\ CountInv /\ LeaveInv /\ ClaimInv /\ DoneInv

-----------------------------------------------------------------------------
(* What the constants are.                                                 *)
LEMMA PoolFacts ==
  ASSUME PoolConstants
  PROVE  /\ IsFiniteSet(Workers) /\ Size \in Nat /\ Size > 1
         /\ Main \notin Workers /\ Free \notin Workers /\ Main # Free
         /\ Stages \in Nat \ {0} /\ TasksPerStage \in Nat \ {0} /\ MinAlloc \in Nat \ {0}
         /\ MaxSlots = TasksPerStage + Size /\ MaxSlots \in Nat
         /\ Settled = TRUE
<1>1. Size \in Nat
  BY FS_CardinalityType DEF PoolConstants, PoolAssumption, Size
<1> QED
  BY <1>1 DEF PoolConstants, PoolAssumption, Size, Main, Free, MaxSlots

(* The waiting workers and those that have left are finitely many, and one *)
(* more when a worker joins them.                                          *)
LEMMA Counted ==
  ASSUME PoolConstants, NEW S \in SUBSET Workers
  PROVE  /\ Cardinality(S) \in 0 .. Size
         /\ Cardinality(S) = Size => S = Workers
         /\ \A w \in Workers \ S : /\ Cardinality(S \cup {w}) = Cardinality(S) + 1
                                 /\ Cardinality(S) < Size
<1>1. IsFiniteSet(Workers) /\ Size \in Nat
  BY PoolFacts
<1>2. /\ IsFiniteSet(S) /\ Cardinality(S) <= Size
      /\ Cardinality(S) = Size => S = Workers
  BY <1>1, FS_Subset DEF Size
<1>3. Cardinality(S) \in Nat
  BY <1>2, FS_CardinalityType
<1>4. \A w \in Workers \ S : Cardinality(S \cup {w}) = Cardinality(S) + 1
  BY <1>2, FS_AddElement
<1> QED
  BY <1>1, <1>2, <1>3, <1>4

(* The numbers of a state, and how they bound each other.                  *)
LEMMA Numbers ==
  ASSUME PoolConstants, PoolInv
  PROVE  /\ nthreads = 1 \/ nthreads = Size
         /\ size \in Nat /\ size <= MaxSlots /\ alloc \in Nat /\ moved \in Nat
         /\ taskspos \in Nat /\ taskspos <= size /\ endCount \in Nat
         /\ stage \in Nat /\ stage <= Stages + 1 /\ stage > 0 /\ added \in Nat
         /\ Starting => size = 0 /\ taskspos = 0
<1>1. TypeOK /\ ListInv
  BY DEF PoolInv
<1>2. /\ size \in 0 .. MaxSlots /\ taskspos \in 0 .. MaxSlots /\ stage \in 1 .. Stages + 1
      /\ added \in 0 .. MaxSlots /\ endCount \in Nat
      /\ MaxSlots \in Nat /\ Stages \in Nat
  BY <1>1, PoolFacts DEF TypeOK
<1>3. taskspos <= size /\ (mpc = "add" => size = added /\ taskspos = 0)
  BY <1>1 DEF ListInv
<1>4. nthreads = 1 \/ nthreads = Size
  BY <1>1 DEF TypeOK, Size
<1>5. alloc \in Nat /\ moved \in Nat
  BY <1>1 DEF TypeOK
<1> QED
  BY <1>2, <1>3, <1>4, <1>5 DEF Starting

(* In which phases a worker is where.                                      *)
LEMMA Places ==
  ASSUME PoolConstants, PoolInv, NEW w \in Workers
  PROVE  /\ wpc[w] # "exited" => nthreads = Size
         /\ wpc[w] \in {"count", "counted"} => Starting \/ Running
         /\ wpc[w] \in {"fetch", "fetched"} => Running \/ mpc = "join"
         /\ wpc[w] = "task" => Running
         /\ Running => stage <= Stages
         /\ mpc \in {"stop", "join", "done"} => stage = Stages + 1
<1>1. nthreads = 1 \/ nthreads = Size
  BY Numbers
<1>2. WorkersInv /\ MainInv
  BY DEF PoolInv
<1>3. wpc[w] # "exited" => nthreads = Size
  BY <1>1, <1>2 DEF WorkersInv
<1>4. nthreads = Size => nthreads # 1
  BY PoolFacts
<1>5. /\ wpc[w] \in {"count", "counted"} => Starting \/ Running
      /\ wpc[w] \in {"fetch", "fetched"} => Running \/ mpc = "join"
      /\ wpc[w] = "task" => Running
  BY <1>2, <1>3, <1>4 DEF WorkersInv
<1>6. /\ Running => stage <= Stages
      /\ mpc \in {"stop", "join", "done"} => stage = Stages + 1
  BY <1>2 DEF MainInv, Running
<1> QED
  BY <1>3, <1>5, <1>6

(* The invariant holds at the start.                                       *)
LEMMA PoolInit ==
  ASSUME PoolConstants, Init
  PROVE  PoolInv
<1> USE PoolFacts
<1>1. TypeOK
  <2>1. /\ nthreads \in {1, Size} /\ size = 0 /\ alloc = 0 /\ moved = 0 /\ taskspos = 0
        /\ endCount = 0 /\ mutex = Free /\ mpc = "add" /\ stage = 1 /\ added = 0
        /\ crashed = FALSE /\ spurious = [workers |-> 0, main |-> 0]
    BY DEF Init, Size
  <2>2. slots \in [0 .. MaxSlots - 1 -> Tasks \cup {NoTask, Exit}]
    BY DEF Init
  <2>3. /\ wpc \in [Workers -> {"lock", "exited"}] /\ seen \in [Workers -> {0}]
        /\ executed \in [Tasks -> {0}]
    BY DEF Init
  <2>4. /\ wpc \in [Workers -> {"lock", "check", "count", "counted", "waiting", "woken", "fetch",
                                 "fetched", "task", "exited"}]
        /\ seen \in [Workers -> Nat] /\ executed \in [Tasks -> Nat]
    BY <2>3 DEF Size
  <2>5. /\ stage \in 1 .. Stages + 1 /\ added \in 0 .. MaxSlots /\ size \in 0 .. MaxSlots
        /\ taskspos \in 0 .. MaxSlots /\ endCount \in Nat
        /\ alloc \in Nat /\ moved \in Nat
    BY <2>1 DEF Size
  <2> QED
    BY <2>1, <2>2, <2>4, <2>5 DEF TypeOK, Size
<1>2. task = [w \in Workers |-> task[w]] /\ ~crashed
  BY DEF Init
<1>3. Waiting = {} /\ Cardinality({}) = 0 /\ Holding = {}
  BY FS_EmptySet DEF Init, Waiting, Holding
<1>4. MainInv /\ ListInv /\ WorkersInv /\ MutexInv
  BY DEF Init, MainInv, ListInv, WorkersInv, MutexInv, Starting, Running, Main, Free
<1>5. CountInv /\ LeaveInv /\ ClaimInv
  BY <1>3 DEF Init, CountInv, LeaveInv, ClaimInv, Starting, Running, Leaving
<1>6. DoneInv
  BY <1>3 DEF Init, DoneInv, Complete, Tasks
<1> QED
  BY <1>1, <1>2, <1>4, <1>5, <1>6 DEF PoolInv

-----------------------------------------------------------------------------
(* The steps of a worker. *)
LEMMA LockKeeps ==
  ASSUME PoolConstants, PoolInv, NEW w \in Workers, Lock(w)
  PROVE  PoolInv'
<1> USE PoolFacts DEF PoolInv
<1>1. /\ wpc[w] \in {"lock", "woken"} /\ mutex = Free /\ mutex' = w
      /\ wpc'[w] = "check" /\ \A v \in Workers : v # w => wpc'[v] = wpc[v]
      /\ UNCHANGED <<nthreads, slots, size, alloc, moved, taskspos, endCount, mpc, stage, added,
                     task, seen, executed, spurious, crashed>>
  BY DEF Lock, TypeOK, listVars, mainVars
<1>2. Waiting' = Waiting /\ Holding' = Holding /\ Left' = Left /\ Claim(w)' = Claim(w)
  BY <1>1 DEF Waiting, Holding, Left, Claim
<1>3. \A v \in Workers : Claim(v)' = Claim(v)
  BY <1>1 DEF Claim
<1>4. TypeOK'
  BY <1>1 DEF Lock, TypeOK
<1>5. (task = [v \in Workers |-> task[v]])' /\ ~crashed'
  BY <1>1
<1>6. MainInv' /\ ListInv'
  BY <1>1 DEF MainInv, ListInv
<1>7. WorkersInv' /\ MutexInv'
  BY <1>1 DEF WorkersInv, MutexInv, Starting, Running, Main, Free
<1>8. CountInv' /\ LeaveInv'
  BY <1>1, <1>2 DEF CountInv, LeaveInv, Starting, Running, Leaving
<1>9. ClaimInv'
  BY <1>1, <1>2, <1>3 DEF ClaimInv, Holding
<1>10. DoneInv'
  BY <1>1, <1>2, <1>3 DEF DoneInv, Complete, Holding
<1> QED
  BY <1>4, <1>5, <1>6, <1>7, <1>8, <1>9, <1>10

(* A worker looks whether a task is left.                                 *)
LEMMA CheckKeeps ==
  ASSUME PoolConstants, PoolInv, NEW w \in Workers, Check(w)
  PROVE  PoolInv'
<1> USE PoolFacts DEF PoolInv
<1>1. /\ wpc[w] = "check" /\ wpc'[w] = IF taskspos = size THEN "count" ELSE "fetch"
      /\ \A v \in Workers : v # w => wpc'[v] = wpc[v]
      /\ UNCHANGED <<nthreads, slots, size, alloc, moved, taskspos, endCount, mpc, stage, added,
                     task, seen, executed, spurious, crashed, mutex>>
  BY DEF Check, TypeOK, listVars, mainVars
<1>2. Waiting' = Waiting /\ Holding' = Holding /\ Left' = Left
  BY <1>1 DEF Waiting, Holding, Left
<1>3. \A v \in Workers : Claim(v)' = Claim(v)
  BY <1>1 DEF Claim
<1>4. TypeOK'
  BY <1>1 DEF Check, TypeOK
<1>5. (task = [v \in Workers |-> task[v]])' /\ ~crashed'
  BY <1>1
<1>6. MainInv' /\ ListInv'
  BY <1>1 DEF MainInv, ListInv
<1>7. nthreads = Size /\ mpc = "join" => taskspos < size
  <2>1. w \in Workers \ Left
    BY <1>1 DEF Left
  <2>2. Left \in SUBSET Workers
    BY DEF Left
  <2> QED
    BY <2>1, <2>2, Counted DEF LeaveInv, ListInv, Leaving
<1>8. WorkersInv' /\ MutexInv'
  <2>1. nthreads = Size /\ nthreads # 1
    BY <1>1, Places
  <2>2. Starting => taskspos = size
    BY Numbers
  <2>3. WorkersInv'
    <3>1. /\ Starting => wpc'[w] = "count"
          /\ mpc = "join" => wpc'[w] = "fetch"
          /\ wpc'[w] \in {"count", "fetch"}
      <4>1. mpc = "join" => taskspos # size
        BY <1>7, <2>1, Numbers
      <4> QED
        BY <1>1, <2>2, <4>1
    <3>2. Starting' = Starting /\ Running' = Running
      BY <1>1 DEF Starting, Running
    <3>3. Starting \/ Running \/ mpc = "join"
      BY <1>1, <2>1 DEF WorkersInv
    <3>4. mpc = "join" => ~Starting /\ ~Running
      BY DEF Starting, Running
    <3>5. ASSUME NEW v \in Workers
          PROVE  /\ Starting => wpc'[v] \in {"lock", "check", "count", "counted", "waiting"}
                 /\ ~Starting /\ Running => wpc'[v] # "exited"
                 /\ mpc = "join" => wpc'[v] \in {"woken", "check", "fetch", "fetched", "exited"}
      BY <1>1, <2>1, <3>1, <3>4 DEF WorkersInv
    <3> QED
      BY <1>1, <2>1, <3>2, <3>3, <3>5 DEF WorkersInv
  <2>4. MutexInv'
    BY <1>1 DEF MutexInv
  <2> QED
    BY <2>3, <2>4
<1>9. CountInv' /\ LeaveInv'
  BY <1>1, <1>2 DEF CountInv, LeaveInv, Starting, Running, Leaving
<1>10. ClaimInv'
  <2>1. taskspos <= size /\ taskspos \in Nat /\ size \in Nat
    BY DEF ListInv, TypeOK
  <2>2. wpc'[w] = "fetch" => taskspos < size
    BY <1>1, <2>1
  <2> QED
    BY <1>1, <1>2, <1>3, <2>2 DEF ClaimInv, Holding
<1>11. DoneInv'
  BY <1>1, <1>2, <1>3 DEF DoneInv, Complete, Holding
<1> QED
  BY <1>4, <1>5, <1>6, <1>8, <1>9, <1>10, <1>11

(* A worker reads the count of those that have ended.                      *)
LEMMA LoadCountKeeps ==
  ASSUME PoolConstants, PoolInv, NEW w \in Workers, LoadCount(w)
  PROVE  PoolInv'
<1> USE PoolFacts DEF PoolInv
<1>1. /\ wpc[w] = "count" /\ wpc'[w] = "counted" /\ seen'[w] = endCount
      /\ \A v \in Workers : v # w => wpc'[v] = wpc[v] /\ seen'[v] = seen[v]
      /\ UNCHANGED <<nthreads, slots, size, alloc, moved, taskspos, endCount, mpc, stage, added,
                     task, executed, spurious, crashed, mutex>>
  BY DEF LoadCount, TypeOK, listVars, mainVars
<1>2. Waiting' = Waiting /\ Holding' = Holding /\ Left' = Left
  BY <1>1 DEF Waiting, Holding, Left
<1>3. \A v \in Workers : Claim(v)' = Claim(v)
  BY <1>1 DEF Claim
<1>4. TypeOK'
  BY <1>1 DEF LoadCount, TypeOK
<1>5. (task = [v \in Workers |-> task[v]])' /\ ~crashed'
  BY <1>1
<1>6. MainInv' /\ ListInv'
  BY <1>1 DEF MainInv, ListInv
<1>7. WorkersInv' /\ MutexInv'
  BY <1>1 DEF WorkersInv, MutexInv, Starting, Running, Main, Free
<1>8. CountInv' /\ LeaveInv'
  BY <1>1, <1>2 DEF CountInv, LeaveInv, Starting, Running, Leaving
<1>9. ClaimInv'
  BY <1>1, <1>2, <1>3 DEF ClaimInv, Holding
<1>10. DoneInv'
  BY <1>1, <1>2, <1>3 DEF DoneInv, Complete, Holding
<1> QED
  BY <1>4, <1>5, <1>6, <1>7, <1>8, <1>9, <1>10

(* A worker stores the count increased.                                    *)
LEMMA StoreCountKeeps ==
  ASSUME PoolConstants, PoolInv, NEW w \in Workers, StoreCount(w)
  PROVE  PoolInv'
<1> USE PoolFacts DEF PoolInv
<1>1. /\ wpc[w] = "counted" /\ wpc'[w] = "waiting" /\ endCount' = seen[w] + 1 /\ mutex' = Free
      /\ mpc' = (IF mpc = "waiting" THEN "woken" ELSE mpc)
      /\ \A v \in Workers : v # w => wpc'[v] = wpc[v]
      /\ UNCHANGED <<nthreads, slots, size, alloc, moved, taskspos, stage, added, task, seen,
                     executed, spurious, crashed>>
  BY DEF StoreCount, TypeOK, listVars
<1>2. mutex = w /\ mpc # "test" /\ nthreads = Size /\ (Starting \/ Running)
  BY <1>1 DEF MutexInv, WorkersInv, TypeOK, Size
<1>3. Holding' = Holding /\ Waiting' = Waiting \cup {w} /\ w \in Workers \ Waiting
  BY <1>1 DEF Waiting, Holding
<1>4. \A v \in Workers : Claim(v)' = Claim(v)
  BY <1>1 DEF Claim
<1>5. /\ seen[w] = Cardinality(Waiting) /\ endCount' = Cardinality(Waiting')
      /\ taskspos = size /\ endCount' \in 0 .. Size
  <2>1. seen[w] = Cardinality(Waiting) /\ taskspos = size
    BY <1>1, <1>2 DEF CountInv
  <2>2. /\ Cardinality(Waiting \cup {w}) = Cardinality(Waiting) + 1
        /\ Cardinality(Waiting) \in 0 .. Size /\ Cardinality(Waiting) < Size
    <3>1. Waiting \in SUBSET Workers
      BY DEF Waiting
    <3> QED
      BY <1>3, <3>1, Counted
  <2> QED
    BY <1>1, <1>3, <2>1, <2>2
<1>6. TypeOK'
  <2>1. wpc' \in [Workers -> {"lock", "check", "count", "counted", "waiting", "woken", "fetch",
                              "fetched", "task", "exited"}]
    BY DEF StoreCount, TypeOK
  <2>2. endCount' \in Nat
    BY <1>5 DEF Size
  <2> QED
    BY <1>1, <2>1, <2>2 DEF TypeOK
<1>7. (task = [v \in Workers |-> task[v]])' /\ ~crashed'
  BY <1>1
<1>8. /\ Starting' = Starting /\ Running' = Running /\ ~Leaving /\ ~Leaving'
      /\ mpc' = "clear" <=> mpc = "clear"
  BY <1>1, <1>2 DEF Starting, Running, Leaving
<1>9. MainInv' /\ ListInv'
  BY <1>1, <1>2 DEF MainInv, ListInv, Running, Starting
<1>10. WorkersInv'
  BY <1>1, <1>2, <1>8 DEF WorkersInv
<1>11. MutexInv'
  BY <1>1, <1>2 DEF MutexInv
<1>12. CountInv' /\ LeaveInv'
  <2>1. \A v \in Workers : wpc'[v] # "counted"
    BY <1>1, <1>2 DEF MutexInv
  <2> QED
    BY <1>1, <1>2, <1>5, <1>8, <2>1 DEF CountInv, LeaveInv, Starting, Running
<1>13. ClaimInv'
  BY <1>1, <1>3, <1>4 DEF ClaimInv, Holding
<1>14. DoneInv'
  BY <1>1, <1>3, <1>4, <1>8 DEF DoneInv, Complete, Holding
<1> QED
  BY <1>6, <1>7, <1>9, <1>10, <1>11, <1>12, <1>13, <1>14

(* A worker takes the next position.                                       *)
LEMMA FetchKeeps ==
  ASSUME PoolConstants, PoolInv, NEW w \in Workers, Fetch(w)
  PROVE  PoolInv'
<1> USE PoolFacts DEF PoolInv
<1>0. taskspos < size
  BY DEF ClaimInv, Fetch
<1>1. /\ wpc[w] = "fetch" /\ wpc'[w] = "fetched" /\ taskspos' = taskspos + 1 /\ mutex' = Free
      /\ task'[w] = [moved |-> moved, index |-> taskspos]
      /\ \A v \in Workers : v # w => wpc'[v] = wpc[v] /\ task'[v] = task[v]
      /\ UNCHANGED <<nthreads, slots, size, alloc, moved, mpc, stage, added, seen, endCount,
                     executed, spurious, crashed>>
  BY <1>0 DEF Fetch, TypeOK, listVars, mainVars
<1>2. /\ mutex = w /\ mpc # "test" /\ nthreads = Size /\ (Running \/ mpc = "join")
      /\ taskspos < size /\ taskspos \in Nat /\ size \in Nat /\ size <= MaxSlots
  <2>1. mutex = w /\ mpc # "test"
    BY <1>1 DEF MutexInv
  <2>2. taskspos < size
    BY <1>1 DEF ClaimInv
  <2> QED
    BY <1>1, <2>1, <2>2, Numbers, Places
<1>3. /\ Holding' = Holding \cup {w} /\ w \notin Holding /\ Waiting' = Waiting
      /\ Left' = Left \cup {w} /\ w \in Workers \ Left
  BY <1>1 DEF Waiting, Holding, Left
<1>4. Claim(w)' = <<stage, taskspos + 1>> /\ \A v \in Workers : v # w => Claim(v)' = Claim(v)
  BY <1>1 DEF Claim
<1>5. TypeOK'
  <2>1. wpc' \in [Workers -> {"lock", "check", "count", "counted", "waiting", "woken", "fetch",
                              "fetched", "task", "exited"}]
    BY <1>0 DEF Fetch, TypeOK
  <2>2. taskspos' \in 0 .. MaxSlots
    BY <1>1, <1>2
  <2> QED
    BY <1>1, <2>1, <2>2 DEF TypeOK
<1>6. (task = [v \in Workers |-> task[v]])' /\ ~crashed'
  BY <1>0, <1>1 DEF Fetch
<1>7. MainInv' /\ ListInv'
  BY <1>1, <1>2 DEF MainInv, ListInv, Running
<1>8. WorkersInv' /\ MutexInv'
  BY <1>1, <1>2 DEF WorkersInv, MutexInv, Starting, Running, Main, Free
<1>9. CountInv'
  <2>1. \A v \in Workers : wpc[v] \notin {"count", "counted"}
    BY <1>1, <1>2 DEF MutexInv
  <2>2. Running => \A v \in Workers : wpc[v] # "waiting"
    BY <1>2 DEF CountInv
  <2> QED
    BY <1>1, <1>2, <1>3, <2>1, <2>2 DEF CountInv, Starting, Running
<1>10. LeaveInv'
  <2>1. Left \in SUBSET Workers
    BY DEF Left
  <2>2. Cardinality(Left \cup {w}) = Cardinality(Left) + 1
    BY <1>3, <2>1, Counted
  <2> QED
    BY <1>1, <1>2, <1>3, <2>2 DEF LeaveInv, Leaving
<1>11. ClaimInv'
  <2>1. ASSUME NEW v \in Workers
        PROVE  /\ wpc'[v] = "fetch" => taskspos' < size'
               /\ wpc'[v] = "fetched" => task'[v].moved = moved' /\ task'[v].index \in 0 .. taskspos' - 1
               /\ wpc'[v] = "task" => task'[v].doing \in {stage'} \X (1 .. taskspos')
    <3>1. CASE v = w
      BY <1>1, <1>2, <3>1
    <3>2. CASE v # w
      <4>1. wpc[v] # "fetch"
        BY <1>1, <1>2, <3>2 DEF MutexInv
      <4>2. /\ wpc[v] = "fetched" => task[v].moved = moved /\ task[v].index \in 0 .. taskspos - 1
            /\ wpc[v] = "task" => task[v].doing \in {stage} \X (1 .. taskspos)
        BY DEF ClaimInv
      <4>3. \A t : t \in {stage} \X (1 .. taskspos) => t \in {stage} \X (1 .. taskspos + 1)
        BY <1>2
      <4> QED
        BY <1>1, <1>2, <3>2, <4>1, <4>2, <4>3
    <3> QED
      BY <3>1, <3>2
  <2>2. stage <= Stages => \A v \in Holding : Claim(v) # <<stage, taskspos + 1>>
    BY <1>2 DEF ClaimInv, Holding, Claim
  <2>3. ASSUME stage <= Stages, NEW v \in Holding', NEW u \in Holding', Claim(v)' = Claim(u)'
        PROVE  v = u
    BY <1>3, <1>4, <2>2, <2>3 DEF ClaimInv, Holding
  <2> QED
    BY <1>1, <2>1, <2>3 DEF ClaimInv
<1>12. DoneInv'
  BY <1>1, <1>2, <1>3, <1>4 DEF DoneInv, Complete, Holding, Tasks, Running
<1> QED
  BY <1>5, <1>6, <1>7, <1>8, <1>9, <1>10, <1>11, <1>12

(* A worker looks up the task at its position.                             *)
LEMMA LookKeeps ==
  ASSUME PoolConstants, PoolInv, NEW w \in Workers, Look(w)
  PROVE  PoolInv'
<1> USE PoolFacts DEF PoolInv
<1> DEFINE i == task[w].index
<1>1. /\ wpc[w] = "fetched" /\ task[w].moved = moved /\ i \in 0 .. taskspos - 1
      /\ i \in Nat /\ i < size /\ nthreads = Size /\ taskspos \in Nat /\ size \in Nat
      /\ (Running \/ mpc = "join")
  <2>1. wpc[w] = "fetched"
    BY DEF Look
  <2>2. task[w].moved = moved /\ i \in 0 .. taskspos - 1
    BY <2>1 DEF ClaimInv
  <2> QED
    BY <2>1, <2>2, Numbers, Places
<1>2. slots[i] = IF stage <= Stages THEN <<stage, i + 1>> ELSE Exit
  BY <1>1 DEF ListInv
<1>3. slots[i] # NoTask /\ (slots[i] = Exit <=> stage > Stages)
  <2>1. stage \in Nat /\ stage > 0
    BY Numbers
  <2> QED
    BY <1>2, <2>1 DEF NoTask, Exit
<1>4. /\ wpc'[w] = (IF stage > Stages THEN "exited" ELSE "task")
      /\ task'[w].doing = slots[i]
      /\ \A v \in Workers : v # w => wpc'[v] = wpc[v] /\ task'[v] = task[v]
      /\ UNCHANGED <<nthreads, slots, size, alloc, moved, mpc, stage, added, seen, endCount,
                     executed, spurious, crashed, taskspos, mutex>>
  <2>1. /\ wpc' = [wpc EXCEPT ![w] = IF slots[i] = Exit THEN "exited" ELSE "task"]
        /\ task' = [task EXCEPT ![w] = [moved |-> 0, index |-> 0, doing |-> slots[i]]]
        /\ UNCHANGED crashed
    BY <1>1, <1>3 DEF Look
  <2>2. wpc = [v \in Workers |-> wpc[v]] /\ task = [v \in Workers |-> task[v]]
    BY DEF TypeOK
  <2>3. UNCHANGED <<nthreads, slots, size, alloc, moved, mpc, stage, added, seen, endCount,
                    executed, spurious, taskspos, mutex>>
    BY DEF Look, listVars, mainVars
  <2>4. stage \in Nat /\ Stages \in Nat
    BY Numbers
  <2> HIDE DEF i
  <2> QED
    BY <1>3, <2>1, <2>2, <2>3, <2>4
<1>5. Waiting' = Waiting /\ Left' = (IF stage > Stages THEN Left ELSE Left \ {w})
      /\ Holding' = (IF stage > Stages THEN Holding \ {w} ELSE Holding)
  BY <1>1, <1>4 DEF Waiting, Holding, Left
<1>6. /\ stage <= Stages => Claim(w)' = Claim(w)
      /\ \A v \in Workers : v # w => Claim(v)' = Claim(v)
  BY <1>1, <1>2, <1>4 DEF Claim, Exit
<1>7. TypeOK'
  <2>1. wpc' \in [Workers -> {"lock", "check", "count", "counted", "waiting", "woken", "fetch",
                              "fetched", "task", "exited"}]
    BY <1>1, <1>3 DEF Look, TypeOK
  <2> QED
    BY <1>4, <2>1 DEF TypeOK
<1>8. (task = [v \in Workers |-> task[v]])' /\ ~crashed'
  BY <1>1, <1>3, <1>4 DEF Look
<1>9. MainInv' /\ ListInv'
  BY <1>4 DEF MainInv, ListInv
<1>10. stage \in Nat /\ (Running => stage <= Stages) /\ (mpc = "join" => stage > Stages)
  BY Numbers, Places
<1>11. Starting' = Starting /\ Running' = Running /\ (mpc = "join" => ~Starting /\ ~Running)
  BY <1>4 DEF Starting, Running
<1>12. WorkersInv' /\ MutexInv'
  <2>1. /\ Running => wpc'[w] = "task"
        /\ mpc = "join" => wpc'[w] = "exited"
        /\ wpc'[w] \in {"exited", "task"} /\ nthreads # 1 /\ ~Starting
    <3>1. ~Starting
      BY <1>1, <1>11 DEF Starting, Running
    <3> QED
      BY <1>1, <1>4, <1>10, <3>1
  <2>2. MutexInv'
    BY <1>1, <1>4 DEF MutexInv
  <2>3. ASSUME NEW v \in Workers
        PROVE  /\ Running => wpc'[v] # "exited"
               /\ mpc = "join" => wpc'[v] \in {"woken", "check", "fetch", "fetched", "exited"}
    BY <1>4, <1>11, <2>1 DEF WorkersInv
  <2> QED
    BY <1>1, <1>4, <1>11, <2>1, <2>2, <2>3 DEF WorkersInv
<1>13. CountInv' /\ LeaveInv'
  BY <1>1, <1>4, <1>5, <1>10, <1>11 DEF CountInv, LeaveInv, Starting, Running, Leaving
<1>14. ClaimInv'
  <2>1. stage <= Stages => slots[i] \in {stage} \X (1 .. taskspos)
    BY <1>1, <1>2
  <2>2. ASSUME NEW v \in Workers
        PROVE  /\ wpc'[v] = "fetch" => taskspos < size
               /\ wpc'[v] = "fetched" => task'[v].moved = moved /\ task'[v].index \in 0 .. taskspos - 1
               /\ wpc'[v] = "task" => task'[v].doing \in {stage} \X (1 .. taskspos)
    <3>1. CASE v = w
      BY <1>4, <1>10, <2>1, <3>1
    <3>2. CASE v # w
      BY <1>4, <3>2 DEF ClaimInv
    <3> QED
      BY <3>1, <3>2
  <2>3. stage <= Stages => \A v \in Holding : Claim(v)' = Claim(v)
    BY <1>6 DEF Holding
  <2>4. stage <= Stages => Holding' = Holding
    BY <1>5, <1>10
  <2> QED
    BY <1>4, <2>2, <2>3, <2>4 DEF ClaimInv
<1>15. DoneInv'
  <2>1. CASE stage <= Stages
    <3>1. Holding' = Holding /\ \A v \in Holding : Claim(v)' = Claim(v)
      BY <1>5, <1>6, <1>10, <2>1 DEF Holding
    <3> QED
      BY <1>4, <3>1 DEF DoneInv, Complete
  <2>2. CASE stage > Stages
    <3>1. \A t \in Tasks : t[1] < stage
      BY <1>10, <2>2 DEF Tasks
    <3> QED
      BY <1>4, <3>1 DEF DoneInv, Complete
  <2> QED
    BY <1>10, <2>1, <2>2
<1> QED
  BY <1>7, <1>8, <1>9, <1>12, <1>13, <1>14, <1>15

(* A worker executes its task.                                             *)
LEMMA ExecuteKeeps ==
  ASSUME PoolConstants, PoolInv, NEW w \in Workers, Execute(w)
  PROVE  PoolInv'
<1> USE PoolFacts DEF PoolInv
<1>0. PICK d : d = task[w].doing
  OBVIOUS
<1>1. /\ wpc[w] = "task" /\ wpc'[w] = "lock"
      /\ executed' = [executed EXCEPT ![d] = @ + 1]
      /\ \A v \in Workers : v # w => wpc'[v] = wpc[v] /\ task'[v] = task[v]
      /\ UNCHANGED <<nthreads, slots, size, alloc, moved, mpc, stage, added, seen, endCount,
                     spurious, crashed, taskspos, mutex>>
  BY <1>0 DEF Execute, TypeOK, listVars, mainVars
<1>2. /\ nthreads = Size /\ Running /\ stage <= Stages
      /\ d \in {stage} \X (1 .. taskspos) /\ Claim(w) = d /\ w \in Holding
  <2>1. d \in {stage} \X (1 .. taskspos)
    BY <1>0, <1>1 DEF ClaimInv
  <2>2. Claim(w) = d /\ w \in Holding
    BY <1>0, <1>1 DEF Claim, Holding
  <2> QED
    BY <1>1, <2>1, <2>2, Places
<1>3. d \in Tasks
  <2>1. size = TasksPerStage
    BY <1>2 DEF ListInv, Running
  <2>2. stage \in 1 .. Stages /\ taskspos <= TasksPerStage /\ taskspos \in Nat
    BY <1>2, <2>1, Numbers
  <2> QED
    BY <1>2, <2>2 DEF Tasks
<1>4. Waiting' = Waiting /\ Holding' = Holding \ {w} /\ Left' = Left
  BY <1>1 DEF Waiting, Holding, Left
<1>5. \A v \in Workers : v # w => Claim(v)' = Claim(v)
  BY <1>1 DEF Claim
<1>6. executed[d] = 0
  <2>1. d[1] = stage /\ mpc # "clear" /\ stage \in Nat
    BY <1>2, Numbers DEF Running
  <2>2. ~Complete(d)
    BY <1>2, <2>1 DEF Complete
  <2> QED
    BY <1>3, <2>2 DEF DoneInv
<1>7. TypeOK'
  <2>1. wpc' \in [Workers -> {"lock", "check", "count", "counted", "waiting", "woken", "fetch",
                              "fetched", "task", "exited"}]
    BY DEF Execute, TypeOK
  <2>2. executed' \in [Tasks -> Nat]
    <3>1. executed \in [Tasks -> Nat] /\ executed[d] + 1 \in Nat
      BY <1>6 DEF TypeOK
    <3> QED
      BY <1>1, <3>1
  <2> QED
    BY <1>1, <2>1, <2>2 DEF TypeOK
<1>8. (task = [v \in Workers |-> task[v]])' /\ ~crashed'
  BY <1>1 DEF Execute
<1>9. MainInv' /\ ListInv'
  BY <1>1 DEF MainInv, ListInv
<1>10. WorkersInv' /\ MutexInv'
  BY <1>1, <1>2 DEF WorkersInv, MutexInv, Starting, Running, Main, Free
<1>11. CountInv' /\ LeaveInv'
  BY <1>1, <1>2, <1>4 DEF CountInv, LeaveInv, Starting, Running, Leaving
<1>12. ClaimInv'
  BY <1>1, <1>4, <1>5 DEF ClaimInv, Holding
<1>13. DoneInv'
  <2>1. \A v \in Holding' : v \in Holding /\ Claim(v)' = Claim(v) /\ Claim(v) # d
    BY <1>2, <1>4, <1>5 DEF ClaimInv, Holding
  <2>2. Complete(d)'
    <3>1. d[1] = stage /\ d[2] <= taskspos
      BY <1>2
    <3>2. (\A v \in Holding : Claim(v) # d)'
      BY <2>1
    <3> QED
      BY <1>1, <3>1, <3>2 DEF Complete
  <2>3. \A t \in Tasks : t # d => (Complete(t)' <=> Complete(t))
    BY <1>1, <1>2, <1>4, <2>1 DEF Complete
  <2>4. executed'[d] = 1 /\ \A t \in Tasks : t # d => executed'[t] = executed[t]
    <3>1. executed \in [Tasks -> Nat]
      BY DEF TypeOK
    <3> QED
      BY <1>1, <1>3, <1>6, <3>1
  <2> QED
    BY <1>3, <2>2, <2>3, <2>4 DEF DoneInv
<1> QED
  BY <1>7, <1>8, <1>9, <1>10, <1>11, <1>12, <1>13

-----------------------------------------------------------------------------
(* The steps of the detector.  In most of them every worker waits, or none *)
(* is left.                                                                *)
LEMMA Quiet ==
  ASSUME PoolConstants, PoolInv, ~Starting, ~Running, mpc # "join"
  PROVE  /\ \A w \in Workers :
               wpc[w] = IF nthreads = 1 \/ mpc = "done" THEN "exited" ELSE "waiting"
         /\ Holding = {}
<1>1. WorkersInv /\ (nthreads = 1 \/ nthreads = Size)
  BY Numbers DEF PoolInv
<1>2. \A w \in Workers :
         wpc[w] = IF nthreads = 1 \/ mpc = "done" THEN "exited" ELSE "waiting"
  BY <1>1 DEF WorkersInv
<1> QED
  BY <1>2 DEF Holding

(* The caller adds a task.                                                 *)
LEMMA AddTaskKeeps ==
  ASSUME PoolConstants, PoolInv, AddTask
  PROVE  PoolInv'
<1> USE PoolFacts DEF PoolInv
<1>1. /\ mpc = "add" /\ stage <= Stages /\ added < TasksPerStage
      /\ stage = 1 => AllWait
      /\ slots' = [slots EXCEPT ![size] = <<stage, added + 1>>] /\ size' = size + 1
      /\ added' = added + 1 /\ alloc' \in {alloc, 2 * alloc, MinAlloc} /\ moved' \in {moved, moved + 1}
      /\ UNCHANGED <<nthreads, mpc, stage, wpc, task, seen, taskspos, endCount, mutex, executed,
                     spurious, crashed>>
  BY DEF AddTask, AddToList, workerVars
<1>2. /\ size = added /\ taskspos = 0 /\ size \in Nat /\ size < MaxSlots
      /\ <<stage, added + 1>> \in Tasks /\ stage \in Nat /\ added \in Nat
      /\ ~Starting' /\ ~Running /\ ~Running' /\ ~Leaving' /\ mpc # "join"
  <2>1. size = added /\ taskspos = 0
    BY <1>1 DEF ListInv
  <2>2. stage \in 1 .. Stages /\ added + 1 \in 1 .. TasksPerStage /\ size < MaxSlots
    BY <1>1, <2>1, Numbers
  <2> QED
    BY <1>1, <2>1, <2>2, Numbers DEF Starting, Running, Leaving, Tasks
<1>3. \A w \in Workers : wpc[w] = IF nthreads = 1 THEN "exited" ELSE "waiting"
  <2>1. CASE Starting
    <3>1. \A w \in Workers : wpc[w] \in {"waiting", "exited"}
      BY <1>1, <2>1 DEF Starting, AllWait
    <3> QED
      BY <1>2, <2>1, <3>1 DEF WorkersInv
  <2>2. CASE ~Starting
    BY <1>1, <1>2, <2>2, Quiet
  <2> QED
    BY <2>1, <2>2
<1>4. Holding = {} /\ Holding' = {}
  BY <1>1, <1>3 DEF Holding
<1>5. TypeOK'
  <2>1. slots' \in [0 .. MaxSlots - 1 -> Tasks \cup {NoTask, Exit}]
    <3>1. slots \in [0 .. MaxSlots - 1 -> Tasks \cup {NoTask, Exit}]
      BY DEF TypeOK
    <3> QED
      BY <1>1, <1>2, <3>1
  <2>2. size' \in 0 .. MaxSlots /\ added' \in 0 .. MaxSlots
    BY <1>1, <1>2
  <2>3. alloc' \in Nat /\ moved' \in Nat
    BY <1>1, Numbers
  <2> QED
    BY <1>1, <2>1, <2>2, <2>3 DEF TypeOK
<1>6. (task = [v \in Workers |-> task[v]])' /\ ~crashed'
  BY <1>1
<1>7. MainInv'
  BY <1>1 DEF MainInv
<1>8. ListInv'
  <2>1. \A i \in 0 .. size - 1 : slots[i] = <<stage, i + 1>>
    BY <1>1 DEF ListInv
  <2>2. ASSUME NEW i \in 0 .. size' - 1 PROVE slots'[i] = <<stage, i + 1>>
    <3>1. slots = [j \in 0 .. MaxSlots - 1 |-> slots[j]] /\ i \in 0 .. MaxSlots - 1
      <4>1. slots = [j \in 0 .. MaxSlots - 1 |-> slots[j]]
        BY DEF TypeOK
      <4>2. i \in 0 .. MaxSlots - 1
        BY <1>1, <1>2
      <4> QED
        BY <4>1, <4>2
    <3>2. CASE i = size
      BY <1>1, <1>2, <3>1, <3>2
    <3>3. CASE i # size
      <4>1. i \in 0 .. size - 1
        BY <1>1, <1>2, <3>3
      <4>2. slots'[i] = slots[i]
        BY <1>1, <3>1, <3>3
      <4> QED
        BY <2>1, <4>1, <4>2
    <3> QED
      BY <3>2, <3>3
  <2> QED
    BY <1>1, <1>2, <2>2 DEF ListInv
<1>9. WorkersInv'
  BY <1>1, <1>2, <1>3 DEF WorkersInv
<1>10. MutexInv'
  BY <1>1 DEF MutexInv
<1>11. CountInv' /\ LeaveInv'
  BY <1>1, <1>2 DEF CountInv, LeaveInv
<1>12. ClaimInv'
  BY <1>1, <1>3, <1>4 DEF ClaimInv
<1>13. DoneInv'
  BY <1>1, <1>4 DEF DoneInv, Complete
<1> QED
  BY <1>5, <1>6, <1>7, <1>8, <1>9, <1>10, <1>11, <1>12, <1>13

(* The caller runs all tasks itself.                                       *)
LEMMA RunSingleKeeps ==
  ASSUME PoolConstants, PoolInv, RunSingle
  PROVE  PoolInv'
<1> USE PoolFacts DEF PoolInv
<1>1. /\ mpc = "add" /\ stage <= Stages /\ added = TasksPerStage /\ nthreads = 1
      /\ executed' = [t \in Tasks |->
            executed[t] + Cardinality({i \in 0 .. size - 1 : slots[i] = t})]
      /\ size' = 0 /\ stage' = stage + 1 /\ added' = 0
      /\ UNCHANGED <<nthreads, mpc, slots, alloc, moved, wpc, task, seen, taskspos, endCount,
                     mutex, spurious, crashed>>
  BY DEF RunSingle, workerVars
<1>2. /\ size = TasksPerStage /\ taskspos = 0 /\ stage \in Nat
      /\ \A i \in 0 .. size - 1 : slots[i] = <<stage, i + 1>>
  BY <1>1, Numbers DEF ListInv
<1>3. \A w \in Workers : wpc[w] = "exited"
  BY <1>1 DEF WorkersInv
<1>4. Holding = {} /\ Holding' = {} /\ nthreads # Size
  BY <1>1, <1>3 DEF Holding
<1>5. ASSUME NEW t \in Tasks
      PROVE  executed'[t] = IF t[1] <= stage THEN 1 ELSE 0
  <2> DEFINE c == {i \in 0 .. size - 1 : slots[i] = t}
  <2>1. executed[t] = IF t[1] < stage THEN 1 ELSE 0
    <3>1. t[2] > 0
      BY DEF Tasks
    <3>2. Complete(t) <=> t[1] < stage
      BY <1>1, <1>2, <3>1 DEF Complete, Tasks
    <3> QED
      BY <3>2 DEF DoneInv
  <2>2. executed'[t] = executed[t] + Cardinality(c)
    BY <1>1
  <2>3. t[1] \in Nat /\ t[2] \in 1 .. TasksPerStage /\ t = <<t[1], t[2]>>
    BY DEF Tasks
  <2>4. CASE t[1] = stage
    <3>1. c = {t[2] - 1}
      BY <1>2, <2>3, <2>4
    <3>2. Cardinality(c) = 1
      BY <3>1, FS_Singleton
    <3> QED
      BY <1>2, <2>1, <2>2, <2>4, <3>2
  <2>5. CASE t[1] # stage
    <3>1. c = {}
      BY <1>2, <2>3, <2>5
    <3>2. Cardinality(c) = 0
      BY <3>1, FS_EmptySet
    <3> QED
      BY <1>2, <2>1, <2>2, <2>3, <2>5, <3>2
  <2> QED
    BY <2>4, <2>5
<1>6. TypeOK'
  <2>1. executed' \in [Tasks -> Nat]
    BY <1>1, <1>5
  <2>2. stage' \in 1 .. Stages + 1 /\ size' \in 0 .. MaxSlots /\ added' \in 0 .. MaxSlots
    BY <1>1, <1>2
  <2> QED
    BY <1>1, <2>1, <2>2 DEF TypeOK
<1>7. (task = [v \in Workers |-> task[v]])' /\ ~crashed'
  BY <1>1
<1>8. MainInv' /\ ListInv'
  BY <1>1, <1>2 DEF MainInv, ListInv
<1>9. WorkersInv' /\ MutexInv'
  BY <1>1, <1>3 DEF WorkersInv, MutexInv
<1>10. CountInv' /\ LeaveInv'
  BY <1>1, <1>4 DEF CountInv, LeaveInv
<1>11. ClaimInv'
  BY <1>1, <1>3, <1>4 DEF ClaimInv
<1>12. DoneInv'
  <2>1. ASSUME NEW t \in Tasks PROVE Complete(t)' <=> t[1] <= stage
    <3>1. t[2] > 0 /\ t[1] \in Nat /\ t[2] \in Nat
      BY DEF Tasks
    <3> QED
      BY <1>1, <1>2, <3>1 DEF Complete
  <2> QED
    BY <1>5, <2>1 DEF DoneInv
<1> QED
  BY <1>6, <1>7, <1>8, <1>9, <1>10, <1>11, <1>12

(* The caller resets the count.                                            *)
LEMMA ResetCountKeeps ==
  ASSUME PoolConstants, PoolInv, ResetCount
  PROVE  PoolInv'
<1> USE PoolFacts DEF PoolInv
<1>1. /\ mpc = "add" /\ stage <= Stages /\ added = TasksPerStage /\ nthreads > 1
      /\ endCount' = 0 /\ mpc' = "lock"
      /\ UNCHANGED <<slots, size, alloc, moved, nthreads, stage, added, wpc, task, seen, taskspos,
                     mutex, executed, spurious, crashed>>
  BY DEF ResetCount, workerVars, listVars
<1>2. /\ ~Starting /\ ~Starting' /\ ~Running /\ ~Running' /\ ~Leaving' /\ mpc # "join"
      /\ nthreads = Size
  BY <1>1, Numbers DEF Starting, Running, Leaving
<1>3. Holding = {} /\ Holding' = {} /\ \A w \in Workers : wpc[w] = "waiting"
  BY <1>1, <1>2, Quiet DEF Holding
<1>4. TypeOK'
  <2>1. endCount' \in Nat
    BY <1>1 DEF Size
  <2> QED
    BY <1>1, <2>1 DEF TypeOK
<1>5. (task = [v \in Workers |-> task[v]])' /\ ~crashed'
  BY <1>1
<1>6. MainInv' /\ ListInv'
  BY <1>1, <1>2 DEF MainInv, ListInv
<1>7. WorkersInv' /\ MutexInv'
  BY <1>1, <1>2, <1>3 DEF WorkersInv, MutexInv
<1>8. CountInv' /\ LeaveInv'
  BY <1>1, <1>2 DEF CountInv, LeaveInv
<1>9. ClaimInv'
  BY <1>1, <1>3 DEF ClaimInv
<1>10. DoneInv'
  BY <1>1, <1>3 DEF DoneInv, Complete
<1> QED
  BY <1>4, <1>5, <1>6, <1>7, <1>8, <1>9, <1>10

(* The caller signals the workers.                                         *)
LEMMA StartWorkersKeeps ==
  ASSUME PoolConstants, PoolInv, StartWorkers
  PROVE  PoolInv'
<1> USE PoolFacts DEF PoolInv
<1>1. /\ mpc = "lock" /\ mutex = Free /\ mutex' = Main /\ mpc' = "test"
      /\ wpc' = [w \in Workers |-> IF wpc[w] = "waiting" THEN "woken" ELSE wpc[w]]
      /\ UNCHANGED <<slots, size, alloc, moved, nthreads, stage, added, task, seen, taskspos,
                     endCount, executed, spurious, crashed>>
  BY DEF StartWorkers, WakeWorkers, listVars
<1>2. /\ ~Starting /\ ~Starting' /\ ~Running /\ Running' /\ ~Leaving' /\ mpc # "join"
      /\ nthreads = Size
  BY <1>1, Numbers DEF Starting, Running, Leaving, MainInv
<1>3. /\ Holding = {} /\ Holding' = {} /\ Waiting' = {}
      /\ \A w \in Workers : wpc[w] = "waiting" /\ wpc'[w] = "woken"
  <2>1. \A w \in Workers : wpc[w] = "waiting"
    BY <1>1, <1>2, Quiet
  <2> QED
    BY <1>1, <2>1 DEF Holding, Waiting
<1>4. TypeOK'
  <2>1. wpc' \in [Workers -> {"woken"}]
    BY <1>1, <1>3
  <2> QED
    BY <1>1, <2>1 DEF TypeOK
<1>5. (task = [v \in Workers |-> task[v]])' /\ ~crashed'
  BY <1>1
<1>6. MainInv' /\ ListInv'
  BY <1>1 DEF MainInv, ListInv
<1>7. WorkersInv' /\ MutexInv'
  BY <1>1, <1>2, <1>3 DEF WorkersInv, MutexInv
<1>8. CountInv' /\ LeaveInv'
  <2>1. endCount = 0
    BY <1>1 DEF CountInv
  <2> QED
    BY <1>1, <1>2, <1>3, <2>1, FS_EmptySet DEF CountInv, LeaveInv
<1>9. ClaimInv'
  BY <1>1, <1>3 DEF ClaimInv
<1>10. DoneInv'
  BY <1>1, <1>3 DEF DoneInv, Complete
<1> QED
  BY <1>4, <1>5, <1>6, <1>7, <1>8, <1>9, <1>10

(* The caller tests whether all workers have ended.                        *)
LEMMA TestCountKeeps ==
  ASSUME PoolConstants, PoolInv, TestCount
  PROVE  PoolInv'
<1> USE PoolFacts DEF PoolInv
<1>1. /\ mpc = "test" /\ mutex = Main /\ mutex' = Free
      /\ mpc' = (IF endCount < nthreads THEN "waiting" ELSE "returned")
      /\ UNCHANGED <<slots, size, alloc, moved, nthreads, stage, added, wpc, task, seen, taskspos,
                     endCount, executed, spurious, crashed>>
  BY DEF TestCount, MutexInv, workerVars, listVars
<1>2. /\ ~Starting /\ ~Starting' /\ Running /\ ~Leaving' /\ nthreads = Size
      /\ Running' = (mpc' = "waiting") /\ mpc' \in {"waiting", "returned"}
  BY <1>1, Numbers DEF Starting, Running, Leaving, MainInv
<1>3. Holding' = Holding /\ Waiting' = Waiting /\ \A v \in Workers : Claim(v)' = Claim(v)
  BY <1>1 DEF Holding, Waiting, Claim
<1>4. mpc' = "returned" => taskspos = size /\ \A w \in Workers : wpc[w] = "waiting"
  <2> SUFFICES ASSUME mpc' = "returned"
               PROVE  taskspos = size /\ \A w \in Workers : wpc[w] = "waiting"
    OBVIOUS
  <2>1. endCount = Cardinality(Waiting) /\ endCount >= Size
    BY <1>1, <1>2, Numbers DEF CountInv
  <2>2. Waiting \in SUBSET Workers
    BY DEF Waiting
  <2>3. Waiting = Workers
    BY <2>1, <2>2, Counted
  <2>4. \A w \in Workers : wpc[w] = "waiting"
    BY <2>3 DEF Waiting
  <2>5. Workers # {}
    BY FS_EmptySet DEF Size
  <2> QED
    BY <1>2, <2>4, <2>5 DEF CountInv
<1>5. TypeOK'
  BY <1>1 DEF TypeOK
<1>6. (task = [v \in Workers |-> task[v]])' /\ ~crashed'
  BY <1>1
<1>7. MainInv' /\ ListInv'
  BY <1>1, <1>2, <1>4 DEF MainInv, ListInv
<1>8. WorkersInv'
  BY <1>1, <1>2, <1>4 DEF WorkersInv
<1>9. MutexInv'
  BY <1>1, <1>2 DEF MutexInv
<1>10. CountInv' /\ LeaveInv'
  BY <1>1, <1>2, <1>3 DEF CountInv, LeaveInv
<1>11. ClaimInv'
  BY <1>1, <1>3 DEF ClaimInv, Holding
<1>12. DoneInv'
  BY <1>1, <1>2, <1>3 DEF DoneInv, Complete, Holding
<1> QED
  BY <1>5, <1>6, <1>7, <1>8, <1>9, <1>10, <1>11, <1>12

(* The caller goes on after its wait.                                      *)
LEMMA ResumeKeeps ==
  ASSUME PoolConstants, PoolInv, Resume
  PROVE  PoolInv'
<1> USE PoolFacts DEF PoolInv
<1>1. /\ mpc = "woken" /\ mutex = Free /\ mutex' = Main /\ mpc' = "test"
      /\ UNCHANGED <<slots, size, alloc, moved, nthreads, stage, added, wpc, task, seen, taskspos,
                     endCount, executed, spurious, crashed>>
  BY DEF Resume, workerVars, listVars
<1>2. ~Starting /\ ~Starting' /\ Running /\ Running' /\ ~Leaving'
  BY <1>1 DEF Starting, Running, Leaving
<1>3. Holding' = Holding /\ Waiting' = Waiting /\ \A v \in Workers : Claim(v)' = Claim(v)
  BY <1>1 DEF Holding, Waiting, Claim
<1>4. TypeOK'
  BY <1>1 DEF TypeOK
<1>5. (task = [v \in Workers |-> task[v]])' /\ ~crashed'
  BY <1>1
<1>6. MainInv' /\ ListInv'
  BY <1>1, <1>2 DEF MainInv, ListInv
<1>7. WorkersInv' /\ MutexInv'
  BY <1>1, <1>2 DEF WorkersInv, MutexInv
<1>8. CountInv' /\ LeaveInv'
  BY <1>1, <1>2, <1>3 DEF CountInv, LeaveInv
<1>9. ClaimInv'
  BY <1>1, <1>3 DEF ClaimInv, Holding
<1>10. DoneInv'
  BY <1>1, <1>3 DEF DoneInv, Complete, Holding
<1> QED
  BY <1>4, <1>5, <1>6, <1>7, <1>8, <1>9, <1>10

(* The caller resets the position.                                         *)
LEMMA ResetPositionKeeps ==
  ASSUME PoolConstants, PoolInv, ResetPosition
  PROVE  PoolInv'
<1> USE PoolFacts DEF PoolInv
<1>1. /\ mpc = "returned" /\ taskspos' = 0 /\ mpc' = "clear"
      /\ UNCHANGED <<slots, size, alloc, moved, nthreads, stage, added, wpc, task, seen, endCount,
                     mutex, executed, spurious, crashed>>
  BY DEF ResetPosition, workerVars, listVars
<1>2. /\ ~Starting /\ ~Starting' /\ ~Running /\ ~Running' /\ ~Leaving' /\ mpc # "join"
      /\ nthreads = Size /\ taskspos = TasksPerStage
  BY <1>1, Numbers DEF Starting, Running, Leaving, MainInv, ListInv
<1>3. Holding = {} /\ Holding' = {} /\ \A w \in Workers : wpc[w] = "waiting"
  <2>1. \A w \in Workers : wpc[w] = "waiting"
    BY <1>1, <1>2, Quiet
  <2> QED
    BY <1>1, <2>1 DEF Holding
<1>4. TypeOK'
  <2>1. taskspos' \in 0 .. MaxSlots
    BY <1>1
  <2> QED
    BY <1>1, <2>1 DEF TypeOK
<1>5. (task = [v \in Workers |-> task[v]])' /\ ~crashed'
  BY <1>1
<1>6. MainInv' /\ ListInv'
  BY <1>1, <1>2, Numbers DEF MainInv, ListInv
<1>7. WorkersInv' /\ MutexInv'
  BY <1>1, <1>2, <1>3 DEF WorkersInv, MutexInv
<1>8. CountInv' /\ LeaveInv'
  BY <1>1, <1>2 DEF CountInv, LeaveInv
<1>9. ClaimInv'
  BY <1>1, <1>3 DEF ClaimInv
<1>10. DoneInv'
  <2>1. ASSUME NEW t \in Tasks PROVE Complete(t)' <=> Complete(t)
    <3>1. t[2] <= TasksPerStage
      BY DEF Tasks
    <3> QED
      BY <1>1, <1>2, <1>3, <3>1 DEF Complete
  <2> QED
    BY <1>1, <2>1 DEF DoneInv
<1> QED
  BY <1>4, <1>5, <1>6, <1>7, <1>8, <1>9, <1>10

(* The caller clears the tasks.                                            *)
LEMMA ClearTasksKeeps ==
  ASSUME PoolConstants, PoolInv, ClearTasks
  PROVE  PoolInv'
<1> USE PoolFacts DEF PoolInv
<1>1. /\ mpc = "clear" /\ size' = 0 /\ mpc' = "add" /\ stage' = stage + 1 /\ added' = 0
      /\ UNCHANGED <<slots, alloc, moved, nthreads, wpc, task, seen, taskspos, endCount, mutex,
                     executed, spurious, crashed>>
  BY DEF ClearTasks, workerVars
<1>2. /\ ~Starting /\ ~Starting' /\ ~Running /\ ~Running' /\ ~Leaving' /\ mpc # "join"
      /\ nthreads = Size /\ taskspos = 0 /\ stage \in 1 .. Stages
  BY <1>1, Numbers DEF Starting, Running, Leaving, MainInv, ListInv
<1>3. Holding = {} /\ Holding' = {} /\ \A w \in Workers : wpc[w] = "waiting"
  <2>1. \A w \in Workers : wpc[w] = "waiting"
    BY <1>1, <1>2, Quiet
  <2> QED
    BY <1>1, <2>1 DEF Holding
<1>4. TypeOK'
  <2>1. stage' \in 1 .. Stages + 1 /\ size' \in 0 .. MaxSlots /\ added' \in 0 .. MaxSlots
    BY <1>1, <1>2
  <2> QED
    BY <1>1, <2>1 DEF TypeOK
<1>5. (task = [v \in Workers |-> task[v]])' /\ ~crashed'
  BY <1>1
<1>6. MainInv' /\ ListInv'
  BY <1>1, <1>2 DEF MainInv, ListInv
<1>7. WorkersInv' /\ MutexInv'
  BY <1>1, <1>2, <1>3 DEF WorkersInv, MutexInv
<1>8. CountInv' /\ LeaveInv'
  BY <1>1, <1>2 DEF CountInv, LeaveInv
<1>9. ClaimInv'
  BY <1>1, <1>3 DEF ClaimInv
<1>10. DoneInv'
  <2>1. ASSUME NEW t \in Tasks PROVE Complete(t)' <=> Complete(t)
    <3>1. t[2] > 0 /\ t[1] \in Nat /\ t[2] \in Nat
      BY DEF Tasks
    <3> QED
      BY <1>1, <1>2, <1>3, <3>1 DEF Complete
  <2> QED
    BY <1>1, <2>1 DEF DoneInv
<1> QED
  BY <1>4, <1>5, <1>6, <1>7, <1>8, <1>9, <1>10

(* The caller adds a task that ends a worker.                              *)
LEMMA AddExitKeeps ==
  ASSUME PoolConstants, PoolInv, AddExit
  PROVE  PoolInv'
<1> USE PoolFacts DEF PoolInv
<1>1. /\ mpc = "add" /\ stage > Stages
      /\ UNCHANGED <<nthreads, stage, wpc, task, seen, taskspos, endCount, mutex, executed, spurious, crashed>>
  BY DEF AddExit, workerVars
<1>2. /\ stage = Stages + 1 /\ size = added /\ taskspos = 0 /\ size \in Nat /\ added \in Nat
      /\ ~Starting /\ ~Starting' /\ ~Running /\ mpc # "join"
      /\ nthreads = 1 \/ nthreads = Size
  BY <1>1, Numbers DEF Starting, Running, ListInv
<1>3. \A w \in Workers : wpc[w] = IF nthreads = 1 THEN "exited" ELSE "waiting"
  BY <1>1, <1>2, Quiet
<1>4. Holding = {} /\ Holding' = {}
  BY <1>1, <1>3 DEF Holding
<1>5. (task = [v \in Workers |-> task[v]])' /\ ~crashed'
  BY <1>1
<1>6. DoneInv'
  <2>1. \A t \in Tasks : t[1] < stage
    BY <1>2 DEF Tasks
  <2> QED
    BY <1>1, <2>1 DEF DoneInv, Complete
<1>7. CASE nthreads > 1 /\ added < nthreads
  <2>1. /\ slots' = [slots EXCEPT ![size] = Exit] /\ size' = size + 1
        /\ added' = added + 1 /\ alloc' \in {alloc, 2 * alloc, MinAlloc} /\ moved' \in {moved, moved + 1}
        /\ mpc' = mpc /\ nthreads = Size /\ size < MaxSlots
    BY <1>2, <1>7 DEF AddExit, AddToList
  <2>2. TypeOK'
    <3>1. slots' \in [0 .. MaxSlots - 1 -> Tasks \cup {NoTask, Exit}]
      <4>1. slots \in [0 .. MaxSlots - 1 -> Tasks \cup {NoTask, Exit}]
        BY DEF TypeOK
      <4> QED
        BY <1>2, <2>1, <4>1
    <3>2. size' \in 0 .. MaxSlots /\ added' \in 0 .. MaxSlots
      BY <1>2, <2>1
    <3>3. alloc' \in Nat /\ moved' \in Nat
      BY <2>1, Numbers
    <3> QED
      BY <1>1, <2>1, <3>1, <3>2, <3>3 DEF TypeOK
  <2>3. MainInv'
    BY <1>1, <2>1 DEF MainInv
  <2>4. ListInv'
    <3>1. \A i \in 0 .. size - 1 : slots[i] = Exit
      <4>1. ~(stage <= Stages)
        BY <1>2
      <4>2. \A i \in 0 .. size - 1 : slots[i] = IF stage <= Stages THEN <<stage, i + 1>> ELSE Exit
        BY DEF ListInv
      <4> QED
        BY <4>1, <4>2, Zenon
    <3>2. ASSUME NEW i \in 0 .. size' - 1 PROVE slots'[i] = Exit
      <4>a. slots \in [0 .. MaxSlots - 1 -> Tasks \cup {NoTask, Exit}]
        BY DEF TypeOK
      <4>b. i \in 0 .. MaxSlots - 1
        BY <1>2, <2>1
      <4>1. slots = [j \in 0 .. MaxSlots - 1 |-> slots[j]] /\ i \in 0 .. MaxSlots - 1
        BY <4>a, <4>b
      <4>2. CASE i = size
        BY <2>1, <4>1, <4>2
      <4>3. CASE i # size
        <5>1. i \in 0 .. size - 1
          BY <1>2, <2>1, <4>3
        <5>2. slots'[i] = slots[i]
          BY <2>1, <4>1, <4>3
        <5> QED
          BY <3>1, <5>1, <5>2
      <4> QED
        BY <4>2, <4>3
    <3> QED
      BY <1>1, <1>2, <1>7, <2>1, <3>2 DEF ListInv
  <2>5. WorkersInv' /\ MutexInv'
    BY <1>1, <1>2, <1>3, <2>1 DEF WorkersInv, MutexInv, Running
  <2>6. CountInv' /\ LeaveInv'
    BY <1>1, <1>2, <2>1 DEF CountInv, LeaveInv, Running, Leaving
  <2>7. ClaimInv'
    BY <1>1, <1>3, <1>4, <2>1 DEF ClaimInv
  <2> QED
    BY <1>5, <1>6, <2>2, <2>3, <2>4, <2>5, <2>6, <2>7
<1>8. CASE ~(nthreads > 1 /\ added < nthreads)
  <2>1. mpc' = (IF nthreads > 1 THEN "stop" ELSE "done") /\ UNCHANGED <<slots, size, alloc, moved, added>>
    BY <1>8 DEF AddExit, listVars
  <2>2. nthreads = 1 => mpc' = "done"
    BY <2>1
  <2>3. nthreads = Size => mpc' = "stop" /\ size = Size
    BY <1>1, <1>2, <1>8, <2>1 DEF ListInv
  <2>4. TypeOK'
    BY <1>1, <2>1 DEF TypeOK
  <2>5. MainInv' /\ ListInv'
    BY <1>1, <1>2, <2>1, <2>2, <2>3 DEF MainInv, ListInv
  <2>6. WorkersInv' /\ MutexInv'
    BY <1>1, <1>2, <1>3, <2>1, <2>2, <2>3 DEF WorkersInv, MutexInv, Running
  <2>7. CountInv' /\ LeaveInv'
    BY <1>1, <1>2, <2>1, <2>2, <2>3 DEF CountInv, LeaveInv, Running, Leaving
  <2>8. ClaimInv'
    BY <1>1, <1>3, <1>4 DEF ClaimInv
  <2> QED
    BY <1>5, <1>6, <2>4, <2>5, <2>6, <2>7, <2>8
<1> QED
  BY <1>7, <1>8

(* The caller signals the workers to end.                                  *)
LEMMA StopWorkersKeeps ==
  ASSUME PoolConstants, PoolInv, StopWorkers
  PROVE  PoolInv'
<1> USE PoolFacts DEF PoolInv
<1>1. /\ mpc = "stop" /\ mutex = Free /\ mpc' = "join"
      /\ wpc' = [w \in Workers |-> IF wpc[w] = "waiting" THEN "woken" ELSE wpc[w]]
      /\ UNCHANGED <<slots, size, alloc, moved, nthreads, stage, added, task, seen, taskspos,
                     endCount, mutex, executed, spurious, crashed>>
  BY DEF StopWorkers, WakeWorkers, listVars
<1>2. /\ ~Starting /\ ~Starting' /\ ~Running /\ ~Running' /\ mpc # "join"
      /\ nthreads = Size /\ taskspos = 0
  BY <1>1, Numbers DEF Starting, Running, MainInv, ListInv
<1>3. /\ Holding = {} /\ Holding' = {} /\ Left' = {}
      /\ \A w \in Workers : wpc[w] = "waiting" /\ wpc'[w] = "woken"
  <2>1. \A w \in Workers : wpc[w] = "waiting"
    BY <1>1, <1>2, Quiet
  <2> QED
    BY <1>1, <2>1 DEF Holding, Left
<1>4. TypeOK'
  <2>1. wpc' \in [Workers -> {"woken"}]
    BY <1>1, <1>3
  <2> QED
    BY <1>1, <2>1 DEF TypeOK
<1>5. (task = [v \in Workers |-> task[v]])' /\ ~crashed'
  BY <1>1
<1>6. MainInv' /\ ListInv'
  BY <1>1, <1>2 DEF MainInv, ListInv
<1>7. WorkersInv' /\ MutexInv'
  BY <1>1, <1>2, <1>3 DEF WorkersInv, MutexInv
<1>8. CountInv' /\ LeaveInv'
  BY <1>1, <1>2, <1>3, FS_EmptySet DEF CountInv, LeaveInv
<1>9. ClaimInv'
  BY <1>1, <1>3 DEF ClaimInv
<1>10. DoneInv'
  BY <1>1, <1>3 DEF DoneInv, Complete
<1> QED
  BY <1>4, <1>5, <1>6, <1>7, <1>8, <1>9, <1>10

(* The caller joins the workers, once all have ended.                     *)
LEMMA JoinKeeps ==
  ASSUME PoolConstants, PoolInv, Join
  PROVE  PoolInv'
<1> USE PoolFacts DEF PoolInv
<1>1. /\ mpc = "join" /\ mpc' = "done" /\ \A w \in Workers : wpc[w] = "exited"
      /\ UNCHANGED <<slots, size, alloc, moved, nthreads, stage, added, wpc, task, seen, taskspos,
                     endCount, mutex, executed, spurious, crashed>>
  BY DEF Join, workerVars, listVars
<1>2. ~Starting' /\ ~Running' /\ Leaving
  BY <1>1 DEF Starting, Running, Leaving
<1>3. Holding' = Holding /\ Left' = Left /\ \A v \in Workers : Claim(v)' = Claim(v)
  BY <1>1 DEF Holding, Left, Claim
<1>4. TypeOK'
  BY <1>1 DEF TypeOK
<1>5. (task = [v \in Workers |-> task[v]])' /\ ~crashed'
  BY <1>1
<1>6. MainInv' /\ ListInv'
  BY <1>1 DEF MainInv, ListInv
<1>7. WorkersInv' /\ MutexInv'
  BY <1>1, <1>2 DEF WorkersInv, MutexInv
<1>8. CountInv' /\ LeaveInv'
  BY <1>1, <1>2, <1>3 DEF CountInv, LeaveInv
<1>9. ClaimInv'
  BY <1>1, <1>3 DEF ClaimInv, Holding
<1>10. DoneInv'
  BY <1>1, <1>3 DEF DoneInv, Complete, Holding
<1> QED
  BY <1>4, <1>5, <1>6, <1>7, <1>8, <1>9, <1>10

-----------------------------------------------------------------------------
(* The detector's wait ends though no worker has signalled.                *)
LEMMA EndWaitReturnsKeeps ==
  ASSUME PoolConstants, PoolInv, EndWaitReturns
  PROVE  PoolInv'
<1> USE PoolFacts DEF PoolInv
<1>1. /\ mpc = "waiting" /\ mpc' = "woken" /\ spurious' = [spurious EXCEPT !.main = @ + 1]
      /\ UNCHANGED <<slots, size, alloc, moved, nthreads, stage, added, wpc, task, seen, taskspos,
                     endCount, mutex, executed, crashed>>
  BY DEF EndWaitReturns, workerVars, listVars
<1>2. /\ Starting' = Starting /\ Running' = Running /\ Leaving' = Leaving
      /\ Waiting' = Waiting /\ Holding' = Holding /\ Left' = Left
      /\ \A v \in Workers : Claim(v)' = Claim(v)
  BY <1>1 DEF Starting, Running, Leaving, Waiting, Holding, Left, Claim
<1>3. TypeOK' /\ (task = [v \in Workers |-> task[v]])' /\ ~crashed'
  <2>1. spurious \in [workers : Nat, main : Nat]
    BY DEF TypeOK
  <2>2. spurious' \in [workers : Nat, main : Nat]
    BY <1>1, <2>1
  <2>3. mpc' \in {"add", "lock", "test", "waiting", "woken", "returned", "clear", "stop", "join", "done"}
    BY <1>1
  <2>4. TypeOK'
    BY <1>1, <2>2, <2>3 DEF TypeOK
  <2> QED
    BY <1>1, <2>4
<1>4. MainInv' /\ ListInv'
  BY <1>1 DEF MainInv, ListInv
<1>5. WorkersInv' /\ MutexInv'
  BY <1>1, <1>2 DEF WorkersInv, MutexInv
<1>6. CountInv' /\ LeaveInv'
  BY <1>1, <1>2 DEF CountInv, LeaveInv
<1>7. ClaimInv'
  <2>1. ClaimInv
    OBVIOUS
  <2> QED
    BY <1>1, <1>2, <2>1 DEF ClaimInv, Holding
<1>8. DoneInv'
  <2>1. DoneInv
    OBVIOUS
  <2> QED
    BY <1>1, <1>2, <2>1 DEF DoneInv, Complete, Holding
<1> QED
  BY <1>3, <1>4, <1>5, <1>6, <1>7, <1>8

-----------------------------------------------------------------------------
(* A wait of a worker that returns unasked is remembered.                  *)
LEMMA ReturnsAreCounted ==
  ASSUME spurious \in [workers : Nat, main : Nat], [Next]_vars
  PROVE  /\ (spurious \in [workers : Nat, main : Nat])'
         /\ Reliable' => Reliable
         /\ \A w \in Workers : WaitReturns(w) => ~Reliable'
<1>1. ASSUME NEW w \in Workers, WaitReturns(w)
      PROVE  (spurious \in [workers : Nat, main : Nat])' /\ ~Reliable'
  BY <1>1 DEF WaitReturns, Reliable
<1>2. ASSUME EndWaitReturns
      PROVE  (spurious \in [workers : Nat, main : Nat])' /\ spurious'.workers = spurious.workers
  BY <1>2 DEF EndWaitReturns
<1>3. ASSUME MainStep PROVE spurious' = spurious
  BY <1>3 DEF MainStep, AddTask, RunSingle, ResetCount, StartWorkers, TestCount, Resume,
     ResetPosition, ClearTasks, AddExit, StopWorkers, Join
<1>4. ASSUME NEW w \in Workers, WorkerStep(w) PROVE spurious' = spurious
  BY <1>4 DEF WorkerStep, Lock, Check, LoadCount, StoreCount, Fetch, Look, Execute
<1>5. ASSUME UNCHANGED vars PROVE spurious' = spurious
  BY <1>5 DEF vars
<1>6. /\ (spurious \in [workers : Nat, main : Nat])'
      /\ Reliable' => Reliable
  BY <1>1, <1>2, <1>3, <1>4, <1>5 DEF Next, Reliable
<1> QED
  BY <1>1, <1>6

(* Every step keeps the invariant, but the return of a worker's wait.      *)
LEMMA PoolStep ==
  ASSUME PoolConstants, PoolInv, [Next]_vars, Reliable'
  PROVE  PoolInv'
<1>1. CASE MainStep
  BY <1>1, AddTaskKeeps, RunSingleKeeps, ResetCountKeeps, StartWorkersKeeps, TestCountKeeps,
     ResumeKeeps, ResetPositionKeeps, ClearTasksKeeps, AddExitKeeps, StopWorkersKeeps, JoinKeeps
     DEF MainStep
<1>2. ASSUME NEW w \in Workers, WorkerStep(w) PROVE PoolInv'
  BY <1>2, LockKeeps, CheckKeeps, LoadCountKeeps, StoreCountKeeps, FetchKeeps, LookKeeps,
     ExecuteKeeps DEF WorkerStep
<1>3. CASE UNCHANGED vars
  <2>1. UNCHANGED <<slots, size, alloc, moved, nthreads, mpc, stage, added, wpc, task, seen,
                    taskspos, endCount, mutex, executed, spurious, crashed>>
    BY <1>3 DEF vars, listVars, mainVars, workerVars
  <2>2. /\ Starting' = Starting /\ Running' = Running /\ Leaving' = Leaving
        /\ Waiting' = Waiting /\ Left' = Left /\ Holding' = Holding
        /\ \A w \in Workers : Claim(w)' = Claim(w)
    BY <2>1 DEF Starting, Running, Leaving, Waiting, Left, Holding, Claim
  <2>3. TypeOK' /\ (task = [v \in Workers |-> task[v]])' /\ ~crashed'
    BY <2>1 DEF PoolInv, TypeOK
  <2>4. MainInv' /\ ListInv' /\ WorkersInv' /\ MutexInv'
    BY <2>1, <2>2 DEF PoolInv, MainInv, ListInv, WorkersInv, MutexInv
  <2>5. CountInv' /\ LeaveInv'
    BY <2>1, <2>2 DEF PoolInv, CountInv, LeaveInv
  <2>6. ClaimInv' /\ DoneInv'
    BY <2>1, <2>2 DEF PoolInv, ClaimInv, DoneInv, Complete, Holding
  <2> QED
    BY <2>3, <2>4, <2>5, <2>6 DEF PoolInv
<1>4. CASE EndWaitReturns
  BY <1>4, EndWaitReturnsKeeps
<1>5. ~\E w \in Workers : WaitReturns(w)
  BY ReturnsAreCounted DEF PoolInv, TypeOK
<1> QED
  BY <1>1, <1>2, <1>3, <1>4, <1>5 DEF Next

-----------------------------------------------------------------------------
(* Whatever waits return, the variables keep their types, and the list has *)
(* room for all that is added.                                             *)
RoomInv ==
    /\ TypeOK
    /\ mpc = "add" => /\ size = added
                      /\ added <= IF stage <= Stages THEN TasksPerStage ELSE Size
    /\ mpc \notin {"add", "stop", "join", "done"} => stage <= Stages

(* It holds at the start.                                                  *)
LEMMA RoomInit ==
  ASSUME PoolConstants, Init
  PROVE  RoomInv
<1>1. TypeOK
  BY PoolInit DEF PoolInv
<1> QED
  BY <1>1, PoolFacts DEF RoomInv, Init

(* The steps of the detector keep it, *)
LEMMA RoomMainStep ==
  ASSUME PoolConstants, RoomInv, MainStep \/ EndWaitReturns
  PROVE  RoomInv'
<1> USE PoolFacts DEF RoomInv
<1>0. /\ nthreads \in {1, Size} /\ size \in 0 .. MaxSlots /\ alloc \in Nat /\ moved \in Nat
      /\ stage \in 1 .. Stages + 1 /\ added \in 0 .. MaxSlots
      /\ slots \in [0 .. MaxSlots - 1 -> Tasks \cup {NoTask, Exit}]
      /\ wpc \in [Workers -> {"lock", "check", "count", "counted", "waiting", "woken", "fetch",
                              "fetched", "task", "exited"}]
  BY DEF TypeOK, Size
<1>1. CASE AddTask
  <2>1. /\ mpc = "add" /\ stage <= Stages /\ added < TasksPerStage
        /\ slots' = [slots EXCEPT ![size] = <<stage, added + 1>>] /\ size' = size + 1
        /\ added' = added + 1 /\ alloc' \in {alloc, 2 * alloc, MinAlloc} /\ moved' \in {moved, moved + 1}
        /\ UNCHANGED <<nthreads, mpc, stage, wpc, task, seen, taskspos, endCount, mutex, executed,
                       spurious, crashed>>
    BY <1>1 DEF AddTask, AddToList, workerVars
  <2>2. size = added /\ size < MaxSlots /\ <<stage, added + 1>> \in Tasks
    BY <1>0, <2>1 DEF Tasks
  <2>3. /\ slots' \in [0 .. MaxSlots - 1 -> Tasks \cup {NoTask, Exit}]
        /\ size' \in 0 .. MaxSlots /\ added' \in 0 .. MaxSlots
    BY <1>0, <2>1, <2>2
  <2>4. alloc' \in Nat /\ moved' \in Nat
    BY <1>0, <2>1
  <2>5. TypeOK'
    BY <2>1, <2>3, <2>4 DEF TypeOK
  <2> QED
    BY <1>0, <2>1, <2>2, <2>5
<1>2. CASE RunSingle
  <2>1. /\ mpc = "add" /\ stage <= Stages
        /\ executed' = [t \in Tasks |->
              executed[t] + Cardinality({i \in 0 .. size - 1 : slots[i] = t})]
        /\ size' = 0 /\ stage' = stage + 1 /\ added' = 0
        /\ UNCHANGED <<nthreads, mpc, slots, alloc, moved, wpc, task, seen, taskspos, endCount,
                       mutex, spurious, crashed>>
    BY <1>2 DEF RunSingle, workerVars
  <2>2. ASSUME NEW t \in Tasks PROVE Cardinality({i \in 0 .. size - 1 : slots[i] = t}) \in Nat
    <3>1. IsFiniteSet(0 .. size - 1)
      BY <1>0, FS_Interval
    <3>2. {i \in 0 .. size - 1 : slots[i] = t} \subseteq 0 .. size - 1
      OBVIOUS
    <3> QED
      BY <3>1, <3>2, FS_Subset, FS_CardinalityType
  <2>3. executed' \in [Tasks -> Nat]
    <3>1. \A t \in Tasks : executed[t] \in Nat
      BY DEF TypeOK
    <3>2. \A t \in Tasks :
             executed[t] + Cardinality({i \in 0 .. size - 1 : slots[i] = t}) \in Nat
      BY <2>2, <3>1
    <3> QED
      BY <2>1, <3>2
  <2>4. size' \in 0 .. MaxSlots /\ added' \in 0 .. MaxSlots /\ stage' \in 1 .. Stages + 1
    BY <1>0, <2>1
  <2>5. TypeOK'
    BY <2>1, <2>3, <2>4 DEF TypeOK
  <2> QED
    BY <2>1, <2>5
<1>3. CASE ResetCount
  <2>1. TypeOK'
    BY <1>3 DEF ResetCount, TypeOK, listVars, workerVars
  <2> QED
    BY <1>3, <2>1 DEF ResetCount
<1>4. CASE StartWorkers \/ StopWorkers
  <2>1. wpc' = [w \in Workers |-> IF wpc[w] = "waiting" THEN "woken" ELSE wpc[w]]
    BY <1>4 DEF StartWorkers, StopWorkers, WakeWorkers
  <2>2. wpc' \in [Workers -> {"lock", "check", "count", "counted", "waiting", "woken", "fetch",
                              "fetched", "task", "exited"}]
    BY <1>0, <2>1
  <2>3. /\ (mpc = "lock" /\ mpc' = "test") \/ (mpc = "stop" /\ mpc' = "join")
        /\ mutex' \in {mutex, Main}
        /\ UNCHANGED <<slots, size, alloc, moved, nthreads, stage, added, seen, taskspos,
                       endCount, executed, spurious, crashed>>
    BY <1>4 DEF StartWorkers, StopWorkers, listVars
  <2>4. TypeOK'
    BY <2>2, <2>3 DEF TypeOK
  <2> QED
    BY <2>3, <2>4
<1>5. CASE TestCount \/ Resume \/ EndWaitReturns
  <2>1. /\ mpc \in {"test", "woken", "waiting"} /\ mpc' \in {"waiting", "returned", "test", "woken"}
        /\ mutex' \in {mutex, Main, Free}
        /\ spurious' = spurious \/ spurious' = [spurious EXCEPT !.main = @ + 1]
        /\ UNCHANGED <<slots, size, alloc, moved, nthreads, stage, added, wpc, seen, taskspos,
                       endCount, executed, crashed>>
    BY <1>5 DEF TestCount, Resume, EndWaitReturns, listVars, workerVars
  <2>2. spurious \in [workers : Nat, main : Nat]
    BY DEF TypeOK
  <2>3. spurious' \in [workers : Nat, main : Nat]
    BY <2>1, <2>2
  <2>4. TypeOK'
    BY <2>1, <2>3 DEF TypeOK
  <2> QED
    BY <2>1, <2>4
<1>6. CASE ResetPosition
  <2>1. TypeOK'
    BY <1>6 DEF ResetPosition, TypeOK, listVars, workerVars
  <2> QED
    BY <1>6, <2>1 DEF ResetPosition, listVars
<1>7. CASE ClearTasks
  <2>1. /\ mpc = "clear" /\ mpc' = "add" /\ size' = 0 /\ stage' = stage + 1 /\ added' = 0
        /\ UNCHANGED <<slots, alloc, moved, nthreads, wpc, seen, taskspos, endCount, mutex,
                       executed, spurious, crashed>>
    BY <1>7 DEF ClearTasks, workerVars
  <2>2. stage' \in 1 .. Stages + 1 /\ size' \in 0 .. MaxSlots /\ added' \in 0 .. MaxSlots
    BY <1>0, <2>1
  <2>3. TypeOK'
    BY <2>1, <2>2 DEF TypeOK
  <2> QED
    BY <2>1, <2>3
<1>8. CASE AddExit
  <2>1. /\ mpc = "add" /\ stage > Stages
        /\ UNCHANGED <<nthreads, stage, wpc, seen, taskspos, endCount, mutex, executed, spurious,
                       crashed>>
    BY <1>8 DEF AddExit, workerVars
  <2>2. CASE nthreads > 1 /\ added < nthreads
    <3>1. /\ slots' = [slots EXCEPT ![size] = Exit] /\ size' = size + 1
          /\ added' = added + 1 /\ alloc' \in {alloc, 2 * alloc, MinAlloc}
          /\ moved' \in {moved, moved + 1} /\ mpc' = mpc
      BY <1>8, <2>2 DEF AddExit, AddToList
    <3>2. size = added /\ size < MaxSlots /\ added < Size
      BY <1>0, <2>1, <2>2
    <3>3. /\ slots' \in [0 .. MaxSlots - 1 -> Tasks \cup {NoTask, Exit}]
          /\ size' \in 0 .. MaxSlots /\ added' \in 0 .. MaxSlots
      BY <1>0, <3>1, <3>2
    <3>4. alloc' \in Nat /\ moved' \in Nat
      BY <1>0, <3>1
    <3>5. TypeOK'
      BY <2>1, <3>1, <3>3, <3>4 DEF TypeOK
    <3> QED
      BY <1>0, <2>1, <3>1, <3>2, <3>5
  <2>3. CASE ~(nthreads > 1 /\ added < nthreads)
    <3>1. mpc' \in {"stop", "done"} /\ UNCHANGED <<slots, size, alloc, moved, added>>
      BY <1>8, <2>3 DEF AddExit, listVars
    <3>2. TypeOK'
      BY <2>1, <3>1 DEF TypeOK
    <3> QED
      BY <3>1, <3>2
  <2> QED
    BY <2>2, <2>3
<1>9. CASE Join
  <2>1. TypeOK'
    BY <1>9 DEF Join, TypeOK, listVars, workerVars
  <2> QED
    BY <1>9, <2>1 DEF Join
<1> QED
  BY <1>1, <1>2, <1>3, <1>4, <1>5, <1>6, <1>7, <1>8, <1>9 DEF MainStep

(* and so do those of the workers.                                         *)
LEMMA RoomWorkerStep ==
  ASSUME PoolConstants, RoomInv, NEW w \in Workers, WorkerStep(w) \/ WaitReturns(w)
  PROVE  RoomInv'
<1> USE PoolFacts DEF RoomInv
<1>1. /\ wpc \in [Workers -> {"lock", "check", "count", "counted", "waiting", "woken", "fetch",
                              "fetched", "task", "exited"}]
      /\ seen \in [Workers -> Nat] /\ executed \in [Tasks -> Nat] /\ endCount \in Nat
      /\ taskspos \in 0 .. MaxSlots /\ size \in 0 .. MaxSlots /\ crashed \in BOOLEAN
      /\ mutex \in Workers \cup {Main, Free} /\ spurious \in [workers : Nat, main : Nat]
  BY DEF TypeOK
<1>2. /\ UNCHANGED <<slots, size, alloc, moved, nthreads, stage, added>>
      /\ mpc' = mpc \/ (mpc = "waiting" /\ mpc' = "woken")
  BY DEF WorkerStep, Lock, Check, LoadCount, StoreCount, Fetch, Look, Execute, WaitReturns, listVars,
     mainVars
<1>3. wpc' \in [Workers -> {"lock", "check", "count", "counted", "waiting", "woken", "fetch",
                           "fetched", "task", "exited"}]
  <2>1. \/ wpc' = wpc
        \/ \E p \in {"lock", "check", "count", "counted", "waiting", "woken", "fetch", "fetched",
                      "task", "exited"} : wpc' = [wpc EXCEPT ![w] = p]
    BY DEF WorkerStep, Lock, Check, LoadCount, StoreCount, Fetch, Look, Execute, WaitReturns
  <2> QED
    BY <1>1, <2>1
<1>4. executed' \in [Tasks -> Nat]
  <2>1. executed' = executed \/ executed' = [executed EXCEPT ![task[w].doing] = @ + 1]
    BY DEF WorkerStep, Lock, Check, LoadCount, StoreCount, Fetch, Look, Execute, WaitReturns
  <2> QED
    BY <1>1, <2>1
<1>5. endCount' \in Nat /\ seen' \in [Workers -> Nat]
  <2>1. \/ endCount' = endCount /\ seen' = seen
        \/ endCount' = endCount /\ seen' = [seen EXCEPT ![w] = endCount]
        \/ endCount' = seen[w] + 1 /\ seen' = seen
    BY DEF WorkerStep, Lock, Check, LoadCount, StoreCount, Fetch, Look, Execute, WaitReturns
  <2> QED
    BY <1>1, <2>1
<1>6. taskspos' \in 0 .. MaxSlots
  <2>1. taskspos' = taskspos \/ (taskspos < size /\ taskspos' = taskspos + 1)
    BY DEF WorkerStep, Lock, Check, LoadCount, StoreCount, Fetch, Look, Execute, WaitReturns
  <2> QED
    BY <1>1, <2>1
<1>7. /\ mutex' \in Workers \cup {Main, Free} /\ crashed' \in BOOLEAN
      /\ spurious' \in [workers : Nat, main : Nat]
  <2>1. mutex' \in {mutex, w, Free} /\ crashed' \in {crashed, TRUE}
    BY DEF WorkerStep, Lock, Check, LoadCount, StoreCount, Fetch, Look, Execute, WaitReturns
  <2>2. spurious' = spurious \/ spurious' = [spurious EXCEPT !.workers = @ + 1]
    BY DEF WorkerStep, Lock, Check, LoadCount, StoreCount, Fetch, Look, Execute, WaitReturns
  <2>3. spurious' \in [workers : Nat, main : Nat]
    BY <1>1, <2>2
  <2>4. mutex' \in Workers \cup {Main, Free} /\ crashed' \in BOOLEAN
    BY <1>1, <2>1
  <2> QED
    BY <2>3, <2>4
<1>8. TypeOK'
  BY <1>2, <1>3, <1>4, <1>5, <1>6, <1>7 DEF TypeOK
<1> QED
  BY <1>2, <1>8

(* So every step does.                                                     *)
LEMMA RoomStep ==
  ASSUME PoolConstants, RoomInv, [Next]_vars
  PROVE  RoomInv'
<1>1. CASE UNCHANGED vars
  BY <1>1 DEF RoomInv, TypeOK, vars, listVars, mainVars, workerVars
<1> QED
  BY <1>1, RoomMainStep, RoomWorkerStep DEF Next

(* The invariant holds in every state, as long as all waits return when    *)
(* they should.                                                            *)
LEMMA PoolInvariant ==
  ASSUME PoolConstants
  PROVE  Spec => [](RoomInv /\ (Reliable => PoolInv))
<1>1. Init => RoomInv /\ (Reliable => PoolInv)
  BY PoolInit, RoomInit
<1>2. RoomInv /\ (Reliable => PoolInv) /\ [Next]_vars => (RoomInv /\ (Reliable => PoolInv))'
  BY PoolStep, RoomStep, ReturnsAreCounted DEF RoomInv, TypeOK
<1> QED
  BY <1>1, <1>2, PTL DEF Spec

(* The pool's variables keep their types whatever waits return unasked and *)
(* whatever the reset of end_count falls between: in particular no         *)
(* position is handed out that is beyond the list, and no task is added    *)
(* beyond the room there is for it.                                        *)
THEOREM PoolTyped == ASSUME PoolConstants PROVE Spec => []TypeOK
<1>1. RoomInv => TypeOK
  BY DEF RoomInv
<1> QED
  BY <1>1, PoolInvariant, PTL

(* When workerpool_run is back, the list is at its end and no worker holds *)
(* a task.                                                                 *)
LEMMA WaitsForTasks == ASSUME PoolConstants PROVE (Reliable => PoolInv) => RunWaits
<1> SUFFICES ASSUME Reliable => PoolInv, Reliable,
                    mpc \in {"returned", "clear"} \/ (mpc = "add" /\ added = 0)
             PROVE  /\ \A t \in Tasks :
                          t[1] < stage \/ (t[1] = stage /\ mpc # "add") => executed[t] > 0
                    /\ \A w \in Workers : wpc[w] # "task"
  BY DEF RunWaits
<1>1. ~Running
  BY DEF Running
<1>2. \A w \in Workers : wpc[w] # "task"
  BY <1>1, Places
<1>3. ASSUME NEW t \in Tasks, t[1] < stage \/ (t[1] = stage /\ mpc # "add")
      PROVE  executed[t] > 0
  <2>1. t[2] <= TasksPerStage
    BY DEF Tasks
  <2>2. CASE mpc = "returned"
    <3>1. size = TasksPerStage /\ taskspos = size
      BY <2>2 DEF PoolInv, ListInv
    <3>2. Holding = {}
      BY <1>1, <2>2, Quiet DEF Starting
    <3> QED
      BY <1>3, <2>1, <3>1, <3>2 DEF PoolInv, DoneInv, Complete
  <2>3. CASE mpc # "returned"
    BY <1>3, <2>3 DEF PoolInv, DoneInv, Complete
  <2> QED
    BY <2>2, <2>3
<1> QED
  BY <1>2, <1>3

(* workerpool_run returns only when every task of the stage and of those   *)
(* before has been executed, and no worker is still at one; unless a       *)
(* worker has left its wait though nobody had told it to.                  *)
THEOREM RunReturnsLast == ASSUME PoolConstants PROVE Spec => []RunWaits
  BY WaitsForTasks, PoolInvariant, PTL

(* A task that has been executed is of this stage or of one before, and    *)
(* those before are complete.                                              *)
LEMMA StagesInTurn == ASSUME PoolConstants PROVE (Reliable => PoolInv) => TasksInStages
<1> SUFFICES ASSUME PoolInv, Reliable PROVE TasksInStages
  BY DEF TasksInStages
<1>1. ~crashed /\ DoneInv /\ stage \in Nat
  BY Numbers DEF PoolInv
<1>2. ASSUME NEW t \in Tasks, executed[t] = 1, NEW u \in Tasks, u[1] < t[1]
      PROVE  executed[u] = 1
  <2>1. t[1] <= stage /\ t[1] \in Nat /\ u[1] \in Nat
    BY <1>1, <1>2 DEF DoneInv, Complete, Tasks
  <2>2. u[1] < stage
    BY <1>1, <1>2, <2>1
  <2> QED
    BY <1>1, <2>2 DEF DoneInv, Complete
<1>3. \A t \in Tasks : executed[t] <= 1
  BY <1>1 DEF DoneInv
<1> QED
  BY <1>1, <1>2, <1>3 DEF TasksInStages

(* Every task is executed once, after the stages in front of it, and no    *)
(* worker uses a pointer into a list that zarray_add has moved; with the   *)
(* same exception.                                                         *)
THEOREM TasksRunInStages == ASSUME PoolConstants PROVE Spec => []TasksInStages
  BY StagesInTurn, PoolInvariant, PTL
=============================================================================
