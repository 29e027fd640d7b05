------------------------------ MODULE Network ------------------------------
(***************************************************************************)
(* socket_open of src/network.cpp as an operator: from the outcomes of the *)
(* system calls it makes to what it returns and leaves behind.             *)
(***************************************************************************)
EXTENDS Naturals, Sequences, SequencesExt

(* What happens to one address of the list getaddrinfo() returns: socket() *)
(* fails, setsockopt() fails, bind() or connect() fails, or all succeed.   *)
AddressOutcomes == {"no_socket", "no_option", "refused", "ok"}

(* setsockopt() is called for listening sockets only. *)
LegalOutcomes(listening, outcomes) ==
    listening \/ "no_option" \notin ToSet(outcomes)

(* The socket that is handed to the caller if *sock was never assigned. *)
Uninitialized == "uninitialized"

(* The first address for which everything succeeds is used; the sockets of *)
(* those before it have been closed.  `return -1' from a function that     *)
(* returns bool is `true': a failed lookup and a failed setsockopt() are   *)
(* reported as success, with *sock and *serv unassigned, and the latter    *)
(* leaves its socket open.                                                 *)
SocketOpen(lookup, outcomes) ==
    LET stop == SelectInSeq(outcomes, LAMBDA o : o \in {"ok", "no_option"})
    IN  IF lookup = "failed"
        THEN [result |-> TRUE, sock |-> Uninitialized, open |-> 0]
        ELSE IF stop = 0
        THEN [result |-> FALSE, sock |-> Uninitialized, open |-> 0]
        ELSE [result |-> TRUE, open |-> 1,
              sock |-> IF outcomes[stop] = "ok" THEN "usable" ELSE Uninitialized]
=============================================================================
