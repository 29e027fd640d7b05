----------------------------- MODULE WorkerPool -----------------------------
(***************************************************************************)
(* The worker pool of the AprilTags detector (src/modules/apriltags/       *)
(* workerpool.c).  The detector adds the tasks of one stage after the      *)
(* other and calls workerpool_run for each, which "runs all added tasks,   *)
(* waits for them to complete".  Tasks are added, end_count is reset and   *)
(* the list is cleared without the mutex that the workers hold.            *)
(*                                                                         *)
(* pthread_cond_wait may return though nobody has signalled.  A worker     *)
(* counts itself in end_count inside of the loop around its wait, so that  *)
(* it is then counted a second time, and workerpool_run may return while   *)
(* another works.  From there on the detector resets and clears the list   *)
(* under that worker, and the behaviour ends: it would be a data race.     *)
(* The properties say what holds as long as no worker has left its wait    *)
(* unless it was told to.                                                  *)
(***************************************************************************)
EXTENDS Naturals, FiniteSets

CONSTANTS
    Workers,       \* the threads of a pool of more than one
    Stages,        \* how many times workerpool_run is called
    TasksPerStage, \* how many tasks are added before each call
    MinAlloc,      \* MIN_ALLOC, the capacity of the list when it has one
    Settled,       \* whether the workers wait before the first task is added
    MaxSpurious    \* bound: waits that return though nobody has signalled

PoolAssumption ==
    /\ IsFiniteSet(Workers) /\ Cardinality(Workers) > 1
    /\ Workers \cap {"main", "free"} = {}    \* the mutex tells them apart
    /\ Stages \in Nat /\ TasksPerStage \in Nat /\ MinAlloc \in Nat \ {0} /\ Settled \in BOOLEAN
    /\ MaxSpurious \in Nat

VARIABLES
    nthreads,   \* 1, or the number of workers
    slots,      \* the array of the list of tasks, and what is left in it
    size,       \* zarray_size(tasks)
    alloc,      \* its capacity
    moved,      \* how often it has been reallocated
    taskspos,
    endCount,   \* end_count
    mutex,      \* who holds it
    mpc,        \* where the detector is
    stage,      \* which stage it is in
    added,      \* how many tasks of the stage it has added
    wpc,        \* where each worker is
    task,       \* the task a worker points to or works on
    seen,       \* the value of end_count a worker is about to increment
    executed,   \* history: how often each task has been executed
    spurious,   \* history: how many waits returned though nobody had signalled
    crashed     \* a worker has used a pointer into a list that was moved, or one past its end

listVars   == <<slots, size, alloc, moved>>
mainVars   == <<nthreads, mpc, stage, added>>
workerVars == <<wpc, task, seen>>
vars == <<listVars, mainVars, workerVars, taskspos, endCount, mutex, executed, spurious, crashed>>

Main == "main"
Free == "free"
Tasks == (1 .. Stages) \X (1 .. TasksPerStage)
NoTask == <<0, 0>>    \* a slot that was never written
Exit == <<0, 1>>      \* the task whose f is NULL
MaxSlots == TasksPerStage + Cardinality(Workers)

TypeOK ==
    /\ nthreads \in {1, Cardinality(Workers)}
    /\ slots \in [0 .. MaxSlots - 1 -> Tasks \cup {NoTask, Exit}]
    /\ size \in 0 .. MaxSlots /\ alloc \in Nat /\ moved \in Nat
    /\ taskspos \in 0 .. MaxSlots /\ endCount \in Nat
    /\ mutex \in Workers \cup {Main, Free}
    /\ mpc \in {"add", "lock", "test", "waiting", "woken", "returned", "clear", "stop", "join",
                "done"}
    /\ stage \in 1 .. Stages + 1 /\ added \in 0 .. MaxSlots
    /\ wpc \in [Workers -> {"lock", "check", "count", "counted", "waiting", "woken", "fetch",
                            "fetched", "task", "exited"}]
    /\ seen \in [Workers -> Nat]
    /\ executed \in [Tasks -> Nat] /\ crashed \in BOOLEAN
    /\ spurious \in [workers : Nat, main : Nat]

Init ==
    /\ nthreads \in {1, Cardinality(Workers)}
    /\ slots = [i \in 0 .. MaxSlots - 1 |-> NoTask]
    /\ size = 0 /\ alloc = 0 /\ moved = 0
    /\ taskspos = 0 /\ endCount = 0 /\ mutex = Free
    /\ mpc = "add" /\ stage = 1 /\ added = 0
    /\ wpc = [w \in Workers |-> IF nthreads = 1 THEN "exited" ELSE "lock"]
    /\ task = [w \in Workers |-> [moved |-> 0, index |-> 0]]
    /\ seen = [w \in Workers |-> 0]
    /\ executed = [t \in Tasks |-> 0] /\ crashed = FALSE
    /\ spurious = [workers |-> 0, main |-> 0]

-----------------------------------------------------------------------------
(* The detector. *)

(* zarray_add: a list that it would fill moves to an array twice as large. *)
AddToList(t) ==
    /\ slots' = [slots EXCEPT ![size] = t]
    /\ size' = size + 1
    /\ IF alloc <= size + 1
       THEN alloc' = (IF 2 * alloc < MinAlloc THEN MinAlloc ELSE 2 * alloc) /\ moved' = moved + 1
       ELSE UNCHANGED <<alloc, moved>>

AllWait == \A w \in Workers : wpc[w] \in {"waiting", "exited"}

AddTask ==
    /\ mpc = "add" /\ stage <= Stages /\ added < TasksPerStage
    /\ Settled /\ stage = 1 => AllWait
    /\ AddToList(<<stage, added + 1>>)
    /\ added' = added + 1
    /\ UNCHANGED <<nthreads, mpc, stage, workerVars, taskspos, endCount, mutex, executed,
                   spurious, crashed>>

(* workerpool_run_single *)
RunSingle ==
    /\ mpc = "add" /\ stage <= Stages /\ added = TasksPerStage /\ nthreads = 1
    /\ executed' = [t \in Tasks |->
            executed[t] + Cardinality({i \in 0 .. size - 1 : slots[i] = t})]
    /\ size' = 0
    /\ stage' = stage + 1 /\ added' = 0
    /\ UNCHANGED <<nthreads, mpc, slots, alloc, moved, workerVars, taskspos, endCount, mutex,
                   spurious, crashed>>

(* workerpool_run: end_count is reset before the mutex is taken. *)
ResetCount ==
    /\ mpc = "add" /\ stage <= Stages /\ added = TasksPerStage /\ nthreads > 1
    /\ endCount' = 0
    /\ mpc' = "lock"
    /\ UNCHANGED <<listVars, nthreads, stage, added, workerVars, taskspos, mutex, executed,
                   spurious, crashed>>

(* pthread_cond_broadcast on startcond. *)
WakeWorkers == wpc' = [w \in Workers |-> IF wpc[w] = "waiting" THEN "woken" ELSE wpc[w]]

(* Defect: only one of the workers is woken. *)
StartWorkersOne ==
    /\ mpc = "lock" /\ mutex = Free
    /\ mutex' = Main
    /\ \/ AllWait /\ \E w \in Workers : wpc' = [wpc EXCEPT ![w] = "woken"]
       \/ ~AllWait /\ UNCHANGED wpc
    /\ mpc' = "test"
    /\ UNCHANGED <<listVars, nthreads, stage, added, task, seen, taskspos, endCount, executed,
                   spurious, crashed>>

StartWorkers ==
    /\ mpc = "lock" /\ mutex = Free
    /\ mutex' = Main
    /\ WakeWorkers
    /\ mpc' = "test"
    /\ UNCHANGED <<listVars, nthreads, stage, added, task, seen, taskspos, endCount, executed,
                   spurious, crashed>>

(* Defect: the first worker that is done is enough. *)
TestCountAny ==
    /\ mpc = "test"
    /\ mutex' = Free
    /\ mpc' = (IF endCount = 0 THEN "waiting" ELSE "returned")
    /\ UNCHANGED <<listVars, nthreads, stage, added, workerVars, taskspos, endCount, executed,
                   spurious, crashed>>

(* The detector waits until every worker has found no more tasks. *)
TestCount ==
    /\ mpc = "test"
    /\ mutex' = Free
    /\ mpc' = (IF endCount < nthreads THEN "waiting" ELSE "returned")
    /\ UNCHANGED <<listVars, nthreads, stage, added, workerVars, taskspos, endCount, executed,
                   spurious, crashed>>

(* The wait for endcond returns with the mutex. *)
Resume ==
    /\ mpc = "woken"
    /\ mutex = Free
    /\ mutex' = Main /\ mpc' = "test"
    /\ UNCHANGED <<listVars, nthreads, stage, added, workerVars, taskspos, endCount, executed,
                   spurious, crashed>>

(* It also returns when no worker has signalled, and the loop goes on. *)
EndWaitReturns ==
    /\ mpc = "waiting" /\ spurious.workers + spurious.main < MaxSpurious
    /\ mpc' = "woken"
    /\ spurious' = [spurious EXCEPT !.main = @ + 1]
    /\ UNCHANGED <<listVars, nthreads, stage, added, workerVars, taskspos, endCount, mutex,
                   executed, crashed>>

(* After the unlock, taskspos is reset and then the list emptied. *)
ResetPosition ==
    /\ mpc = "returned"
    /\ taskspos' = 0
    /\ mpc' = "clear"
    /\ UNCHANGED <<listVars, nthreads, stage, added, workerVars, endCount, mutex, executed,
                   spurious, crashed>>

ClearTasks ==
    /\ mpc = "clear"
    /\ size' = 0
    /\ mpc' = "add" /\ stage' = stage + 1 /\ added' = 0
    /\ UNCHANGED <<slots, alloc, moved, nthreads, workerVars, taskspos, endCount, mutex, executed,
                   spurious, crashed>>

(* workerpool_destroy: a task to exit for every worker, *)
AddExit ==
    /\ mpc = "add" /\ stage > Stages
    /\ IF nthreads > 1 /\ added < nthreads
       THEN AddToList(Exit) /\ added' = added + 1 /\ UNCHANGED mpc
       ELSE mpc' = (IF nthreads > 1 THEN "stop" ELSE "done") /\ UNCHANGED <<listVars, added>>
    /\ UNCHANGED <<nthreads, stage, workerVars, taskspos, endCount, mutex, executed, spurious,
                   crashed>>

(* a broadcast with the mutex held, *)
StopWorkers ==
    /\ mpc = "stop" /\ mutex = Free
    /\ WakeWorkers
    /\ mpc' = "join"
    /\ UNCHANGED <<listVars, nthreads, stage, added, task, seen, taskspos, endCount, mutex,
                   executed, spurious, crashed>>

(* and a join with each of them. *)
Join ==
    /\ mpc = "join"
    /\ \A w \in Workers : wpc[w] = "exited"
    /\ mpc' = "done"
    /\ UNCHANGED <<listVars, nthreads, stage, added, workerVars, taskspos, endCount, mutex,
                   executed, spurious, crashed>>

MainStep ==
    \/ AddTask \/ RunSingle \/ ResetCount \/ StartWorkers \/ TestCount \/ Resume
    \/ ResetPosition \/ ClearTasks \/ AddExit \/ StopWorkers \/ Join

-----------------------------------------------------------------------------
(* A worker. *)

(* It takes the mutex, at the start of its loop or as its wait ends. *)
Lock(w) ==
    /\ wpc[w] \in {"lock", "woken"}
    /\ mutex = Free
    /\ mutex' = w
    /\ wpc' = [wpc EXCEPT ![w] = "check"]
    /\ UNCHANGED <<listVars, mainVars, task, seen, taskspos, endCount, executed, spurious, crashed>>

Check(w) ==
    /\ wpc[w] = "check"
    /\ wpc' = [wpc EXCEPT ![w] = IF taskspos = size THEN "count" ELSE "fetch"]
    /\ UNCHANGED <<listVars, mainVars, task, seen, taskspos, endCount, mutex, executed, spurious,
                   crashed>>

(* end_count++ is a load and a store, between which the detector may reset *)
(* it; the mutex does not keep it from doing so.                           *)
LoadCount(w) ==
    /\ wpc[w] = "count"
    /\ seen' = [seen EXCEPT ![w] = endCount]
    /\ wpc' = [wpc EXCEPT ![w] = "counted"]
    /\ UNCHANGED <<listVars, mainVars, task, taskspos, endCount, mutex, executed, spurious, crashed>>

(* The detector is woken, and the worker waits for startcond. *)
StoreCount(w) ==
    /\ wpc[w] = "counted"
    /\ endCount' = seen[w] + 1
    /\ mpc' = (IF mpc = "waiting" THEN "woken" ELSE mpc)
    /\ wpc' = [wpc EXCEPT ![w] = "waiting"]
    /\ mutex' = Free
    /\ UNCHANGED <<listVars, nthreads, stage, added, task, seen, taskspos, executed, spurious, crashed>>

(* The wait for startcond returns though nobody has signalled: the worker  *)
(* is counted again when it finds no task.                                 *)
WaitReturns(w) ==
    /\ wpc[w] = "waiting" /\ spurious.workers + spurious.main < MaxSpurious
    /\ wpc' = [wpc EXCEPT ![w] = "woken"]
    /\ spurious' = [spurious EXCEPT !.workers = @ + 1]
    /\ UNCHANGED <<listVars, mainVars, task, seen, taskspos, endCount, mutex, executed, crashed>>

(* Defect: the position is not advanced before the mutex is released. *)
FetchInPlace(w) ==
    /\ wpc[w] = "fetch"
    /\ task' = [task EXCEPT ![w] = [moved |-> moved, index |-> taskspos]]
    /\ mutex' = Free
    /\ wpc' = [wpc EXCEPT ![w] = "fetched"]
    /\ UNCHANGED <<listVars, mainVars, taskspos, seen, endCount, executed, spurious, crashed>>

(* zarray_get_volatile gives a pointer into the list, not a task; it       *)
(* asserts that the list is that long.                                     *)
Fetch(w) ==
    /\ wpc[w] = "fetch"
    /\ IF taskspos < size
       THEN /\ task' = [task EXCEPT ![w] = [moved |-> moved, index |-> taskspos]]
            /\ taskspos' = taskspos + 1
            /\ mutex' = Free
            /\ wpc' = [wpc EXCEPT ![w] = "fetched"]
            /\ UNCHANGED crashed
       ELSE crashed' = TRUE /\ UNCHANGED <<task, taskspos, mutex, wpc>>
    /\ UNCHANGED <<listVars, mainVars, seen, endCount, executed, spurious>>

(* The pointer is used without the mutex. *)
Look(w) ==
    /\ wpc[w] = "fetched"
    /\ LET t == slots[task[w].index] IN
       IF task[w].moved # moved \/ t = NoTask
       THEN crashed' = TRUE /\ UNCHANGED <<wpc, task>>
       ELSE /\ wpc' = [wpc EXCEPT ![w] = IF t = Exit THEN "exited" ELSE "task"]
            /\ task' = [task EXCEPT ![w] = [moved |-> 0, index |-> 0, doing |-> t]]
            /\ UNCHANGED crashed
    /\ UNCHANGED <<listVars, mainVars, seen, taskspos, endCount, mutex, executed, spurious>>

Execute(w) ==
    /\ wpc[w] = "task"
    /\ executed' = [executed EXCEPT ![task[w].doing] = @ + 1]
    /\ task' = [task EXCEPT ![w] = [moved |-> 0, index |-> 0]]
    /\ wpc' = [wpc EXCEPT ![w] = "lock"]
    /\ UNCHANGED <<listVars, mainVars, seen, taskspos, endCount, mutex, spurious, crashed>>

WorkerStep(w) ==
    \/ Lock(w) \/ Check(w) \/ LoadCount(w) \/ StoreCount(w) \/ Fetch(w) \/ Look(w) \/ Execute(w)

-----------------------------------------------------------------------------
(* No worker has left its wait unless it was told to. *)
Reliable == spurious.workers = 0

(* workerpool_run has returned though a worker it has counted twice, or    *)
(* another one, is not waiting.                                            *)
Overtaken == ~Reliable /\ mpc = "returned" /\ \E w \in Workers : wpc[w] # "waiting"

(* A pool that has miscounted its workers may also hang. *)
Next ==
    \/ ~crashed /\ ~Overtaken /\ (MainStep \/ EndWaitReturns)
    \/ ~crashed /\ ~Overtaken /\ \E w \in Workers : WorkerStep(w) \/ WaitReturns(w)
    \/ (crashed \/ mpc = "done" \/ ~Reliable) /\ UNCHANGED vars

(* Nothing makes a wait return that nobody has signalled. *)
Spec ==
    /\ Init /\ [][Next]_vars
    /\ WF_vars(~crashed /\ ~Overtaken /\ MainStep)
    /\ \A w \in Workers : WF_vars(~crashed /\ ~Overtaken /\ WorkerStep(w))

-----------------------------------------------------------------------------
(* "runs all added tasks, waits for them to complete": when workerpool_run *)
(* returns, every task of the stage and of those before has been executed, *)
(* and none is still being executed; unless a worker has left its wait     *)
(* though nobody had told it to, and was counted twice.                    *)
RunWaits ==
    Reliable /\ (mpc \in {"returned", "clear"} \/ (mpc = "add" /\ added = 0)) =>
        /\ \A t \in Tasks : t[1] < stage \/ (t[1] = stage /\ mpc # "add") => executed[t] > 0
        /\ \A w \in Workers : wpc[w] # "task"

(* With that exception, no task is executed twice, or before the stages in *)
(* front of it are complete, and no pointer into the list outlives it.     *)
TasksInStages ==
    Reliable =>
        /\ ~crashed
        /\ \A t \in Tasks :
              /\ executed[t] <= 1
              /\ executed[t] = 1 => \A u \in Tasks : u[1] < t[1] => executed[u] = 1

(* And every call of workerpool_run returns, and workerpool_destroy too. *)
PoolEnds == <>(crashed \/ mpc = "done" \/ ~Reliable)
=============================================================================
