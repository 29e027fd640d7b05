-------------------------- MODULE MCClusterServer --------------------------
(***************************************************************************)
(* ClusterServer for TLC.                                                  *)
(***************************************************************************)
EXTENDS ClusterServer, TLC

(* Known vision peers are interchangeable: nothing tells them apart but    *)
(* the order in which they come.  Only runs that check invariants use the  *)
(* symmetry.                                                               *)
Symmetry == Permutations(Configured)

(* Bound: either many vision clients come, and one data client, but no     *)
(* results; or one vision client and many data clients.                    *)
Workload ==
    LET visitors(state) == {p \in DOMAIN state : state[p] # "off"}
        First(S) == {CHOOSE p \in S : TRUE}
    IN  \/ published = <<>> /\ visitors(dpeer) \subseteq First(DataPeers)
        \/ visitors(vpeer) \subseteq First(Configured)

MCSpec == Init /\ [][Next /\ Workload']_vars /\ Fairness
=============================================================================
