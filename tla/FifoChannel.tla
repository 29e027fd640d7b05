---------------------------- MODULE FifoChannel ----------------------------
(***************************************************************************)
(* What the rest of the server relies on when it hands results from the    *)
(* server thread to the data thread through a BlockingQueue: everything    *)
(* sent is taken exactly once, in the order in which it was sent.          *)
(***************************************************************************)
EXTENDS Naturals, Sequences

CONSTANTS
    Values,     \* what may be sent
    MaxPushes   \* bound: number of messages sent in a behaviour

VARIABLES
    sent,       \* every message sent so far, oldest first
    taken       \* every message taken so far, oldest first

fifoVars == <<sent, taken>>

Init == sent = <<>> /\ taken = <<>>

Send(v) ==
    /\ Len(sent) < MaxPushes
    /\ sent' = Append(sent, v)
    /\ UNCHANGED taken

Take ==
    /\ Len(taken) < Len(sent)
    /\ taken' = Append(taken, sent[Len(taken) + 1])
    /\ UNCHANGED sent

Next == Take \/ \E v \in Values : Send(v)

SafeSpec == Init /\ [][Next]_fifoVars

(* A message that was sent is eventually taken. *)
Spec == SafeSpec /\ WF_fifoVars(Take)
=============================================================================
