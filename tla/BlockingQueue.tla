--------------------------- MODULE BlockingQueue ---------------------------
(***************************************************************************)
(* BlockingQueue<T> of include/BlockingQueue.h: a std::queue behind one    *)
(* mutex, one condition variable and the flag `updated'.                   *)
(*                                                                         *)
(* Everything between two waits happens with the mutex held and touches    *)
(* nothing but the queue, so one such stretch is one action.  A consumer   *)
(* inside pop() is "blocked" while it sleeps in pthread_cond_wait and      *)
(* "woken" once it has left the wait and only has to get the mutex back.   *)
(* pthread_cond_wait may also return without a signal (SpuriousWakeup).    *)
(***************************************************************************)
EXTENDS Naturals, Sequences

CONSTANTS
    Consumers,   \* the threads that call pop()
    Values,      \* the elements pushed
    MaxPushes    \* bound: number of calls of push() in a behaviour

ASSUME BoundAssumption == MaxPushes \in Nat

VARIABLES
    q,           \* the std::queue
    updated,     \* the flag set by push() and cleared by pop()
    pc,          \* where each consumer is
    pushed,      \* history: the arguments of every push(), in order
    popped       \* history: the results of every pop(), in order

vars == <<q, updated, pc, pushed, popped>>

Blocked == {c \in Consumers : pc[c] = "blocked"}

TypeOK ==
    /\ q \in Seq(Values)
    /\ updated \in BOOLEAN
    /\ pc \in [Consumers -> {"idle", "blocked", "woken"}]
    /\ pushed \in Seq(Values)
    /\ popped \in Seq(Values)

Init ==
    /\ q = <<>>
    /\ updated = FALSE
    /\ pc = [c \in Consumers |-> "idle"]
    /\ pushed = <<>>
    /\ popped = <<>>

(* pthread_cond_signal: one of the sleeping consumers, if there is any. *)
Signal ==
    IF Blocked = {} THEN UNCHANGED pc
    ELSE \E c \in Blocked : pc' = [pc EXCEPT ![c] = "woken"]

(* Defect: the flag is not set, only the condition is signalled. *)
PushWithoutFlag(v) ==
    /\ Len(pushed) < MaxPushes
    /\ q' = Append(q, v)
    /\ Signal
    /\ pushed' = Append(pushed, v)
    /\ UNCHANGED <<updated, popped>>

(* Defect: the flag is set but nobody is signalled. *)
PushWithoutSignal(v) ==
    /\ Len(pushed) < MaxPushes
    /\ q' = Append(q, v)
    /\ updated' = TRUE
    /\ pushed' = Append(pushed, v)
    /\ UNCHANGED <<pc, popped>>

Push(v) ==
    /\ Len(pushed) < MaxPushes
    /\ q' = Append(q, v)
    /\ updated' = TRUE
    /\ Signal
    /\ pushed' = Append(pushed, v)
    /\ UNCHANGED popped

(* Defect: the element returned stays at the front when it is the only one. *)
TakeFrontKeepLast(c) ==
    /\ popped' = Append(popped, Head(q))
    /\ q' = IF Len(q) = 1 THEN q ELSE Tail(q)
    /\ pc' = [pc EXCEPT ![c] = "idle"]
    /\ UNCHANGED pushed

(* The end of pop(): the front element leaves the queue and is returned. *)
TakeFront(c) ==
    /\ popped' = Append(popped, Head(q))
    /\ q' = Tail(q)
    /\ pc' = [pc EXCEPT ![c] = "idle"]
    /\ UNCHANGED pushed

(* The outer loop of pop() once it holds the mutex and the queue is empty: *)
(* a flag left over from an element already taken is consumed, and the     *)
(* consumer sleeps.                                                        *)
Sleep(c) ==
    /\ updated' = FALSE
    /\ pc' = [pc EXCEPT ![c] = "blocked"]
    /\ UNCHANGED <<q, pushed, popped>>

(* Defect: `if (q.empty())' for `while': a flag left over from an earlier *)
(* element ends the wait although the queue is empty.                     *)
PopIfNotWhile(c) ==
    /\ pc[c] = "idle"
    /\ \/ q # <<>> /\ TakeFront(c) /\ UNCHANGED updated
       \/ q = <<>> /\ ~updated /\ Sleep(c)
       \/ /\ q = <<>> /\ updated
          /\ updated' = FALSE
          /\ popped' = Append(popped, "undefined")
          /\ UNCHANGED <<q, pc, pushed>>

(* A consumer calls pop(). *)
Pop(c) ==
    /\ pc[c] = "idle"
    /\ \/ q # <<>> /\ TakeFront(c) /\ UNCHANGED updated
       \/ q = <<>> /\ Sleep(c)

(* A consumer returns from pthread_cond_wait: without `updated' it sleeps *)
(* again whatever the queue holds; with it, it looks at the queue.        *)
Resume(c) ==
    /\ pc[c] = "woken"
    /\ \/ ~updated /\ Sleep(c)
       \/ updated /\ q = <<>> /\ Sleep(c)
       \/ updated /\ q # <<>> /\ TakeFront(c) /\ updated' = FALSE

SpuriousWakeup(c) ==
    /\ pc[c] = "blocked"
    /\ pc' = [pc EXCEPT ![c] = "woken"]
    /\ UNCHANGED <<q, updated, pushed, popped>>

Next ==
    \/ \E v \in Values : Push(v)
    \/ \E c \in Consumers : Pop(c) \/ Resume(c) \/ SpuriousWakeup(c)

SafeSpec == Init /\ [][Next]_vars

(* A woken consumer eventually gets the mutex: nobody keeps it for long.   *)
(* Nothing says that a consumer calls pop() again or that anyone pushes.   *)
Spec == SafeSpec /\ \A c \in Consumers : WF_vars(Resume(c))

(* The data thread of ClusterServer calls pop() in an endless loop. *)
LoopSpec == Spec /\ \A c \in Consumers : WF_vars(Pop(c))

-----------------------------------------------------------------------------
Fifo == INSTANCE FifoChannel WITH sent <- pushed, taken <- popped

(* pop() hands out what push() put in, each element once and in the order  *)
(* of the calls, and, to one consumer that pops in a loop, every element.  *)
FifoRefinement == Fifo!Spec

-----------------------------------------------------------------------------
(* The two inductive invariants. *)

(* What is in the queue is what was pushed and not yet popped. *)
QueueIsTheRest ==
    /\ Len(pushed) = Len(popped) + Len(q)
    /\ \A i \in 1 .. Len(q) : q[i] = pushed[Len(popped) + i]

(* A lone consumer sleeps only on an empty queue whose flag is clear, and  *)
(* once woken it finds the flag set if there is an element for it: no      *)
(* wakeup is lost.  The comment of the class promises this for any number  *)
(* of consumers; the single flag `updated' delivers it for one.            *)
SleepsOnlyWhenEmpty ==
    \A c \in Consumers :
        /\ pc[c] = "blocked" => q = <<>> /\ ~updated
        /\ pc[c] = "woken" /\ q # <<>> => updated

=============================================================================
