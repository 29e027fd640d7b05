------------------------ MODULE ClusterServerProofs ------------------------
(***************************************************************************)
(* Proofs about the threads of ClusterServer, for any peers and any number *)
(* of frames.                                                              *)
(***************************************************************************)
EXTENDS ClusterServer, SequenceTheorems, FiniteSetTheorems, TLAPS

(* The steps of the main thread that leave data_clients_mutex alone.       *)
LEMMA MainOutsideMutex ==
  ASSUME DataMutexHeld, MainStep, ~LockClients, ~SendGreeting
  PROVE  DataMutexHeld'
<1>1. UNCHANGED <<dataMutex, dpc>>
  BY DEF MainStep, RejectVision, AcceptVision, AcceptData, Register, CountCameras, WriteRecords,
         dataVars
<1>2. mpc' \in {"count", "write", "send"} <=> mpc \in {"count", "write", "send"}
  BY DEF MainStep, RejectVision, AcceptVision, AcceptData, Register, CountCameras, WriteRecords,
         mainVars
<1> QED
  BY <1>1, <1>2 DEF DataMutexHeld

(* data_clients_mutex is held by the main thread from before the greeting  *)
(* is prepared until the client is in the list, by the data thread during  *)
(* a whole round, and never by both: the vector is neither grown under an  *)
(* iterator nor shrunk under push_back.                                    *)
THEOREM DataClientsExclusive == SafeSpec => []DataMutexHeld
<1>1. Init => DataMutexHeld
  BY DEF Init, DataMutexHeld, None
<1>2. DataMutexHeld /\ [Next]_vars => DataMutexHeld'
  <2> SUFFICES ASSUME DataMutexHeld, [Next]_vars PROVE DataMutexHeld'
    OBVIOUS
  <2>1. CASE PeerStep
    BY <2>1 DEF PeerStep, mainVars, dataVars, DataMutexHeld
  <2>2. CASE LockClients
    BY <2>2 DEF LockClients, DataMutexHeld, None
  <2>3. CASE SendGreeting
    BY <2>3 DEF SendGreeting, DataMutexHeld, None
  <2>4. CASE MainStep /\ ~LockClients /\ ~SendGreeting
    BY <2>4, MainOutsideMutex
  <2>5. ASSUME NEW p \in VisionPeers, ClientStep(p) PROVE DataMutexHeld'
    BY <2>5 DEF ClientStep, ClientInit, ReadFails, Deregister, mainVars, dataVars, DataMutexHeld
  <2>6. CASE Publish
    BY <2>6 DEF Publish, mainVars, dataVars, DataMutexHeld
  <2>7. CASE DataStep
    <3>1. CASE PopFrame
      BY <3>1 DEF PopFrame, mainVars, DataMutexHeld
    <3>2. CASE LockDataClients
      BY <3>2 DEF LockDataClients, mainVars, DataMutexHeld, None
    <3>3. CASE SendFrame
      BY <3>3 DEF SendFrame, mainVars, DataMutexHeld
    <3>4. CASE EraseDataClient
      BY <3>4 DEF EraseDataClient, mainVars, DataMutexHeld
    <3>5. CASE SkipUninitialized
      BY <3>5 DEF SkipUninitialized, vars, mainVars, dataVars, DataMutexHeld
    <3>6. CASE EndRound
      BY <3>6 DEF EndRound, mainVars, DataMutexHeld, None
    <3> QED
      BY <2>7, <3>1, <3>2, <3>3, <3>4, <3>5, <3>6 DEF DataStep
  <2>8. CASE UNCHANGED vars
    BY <2>8 DEF vars, mainVars, dataVars, DataMutexHeld
  <2> QED
    BY <2>1, <2>2, <2>3, <2>4, <2>5, <2>6, <2>7, <2>8 DEF Next
<1> QED
  BY <1>1, <1>2, PTL DEF SafeSpec

-----------------------------------------------------------------------------
(* The registry of vision clients.                                         *)

(* What the places of the threads say about the peers they deal with.      *)
Typed ==
    /\ TypeOK
    /\ mpc = "register" => mpeer \in VisionPeers
    /\ mpc \in {"lock", "count", "write", "send"} => mpeer \in DataPeers
    /\ dpc # "pop" => taken # <<>>

(* Clients whose thread lives: accepted, and not yet out of removeClient.   *)
Running == {p \in VisionPeers : tpc[p] \in {"reading", "leaving"}}

(* Who has not been accepted has no thread: no client is served twice.     *)
Unserved == \A p \in VisionPeers : vpeer[p] \in {"off", "backlog", "hungup"} => tpc[p] = "none"

(* The list is ordered by id, so no client is in it twice, ...             *)
InOrder == \A i, j \in DOMAIN visionClients :
               i < j => id[visionClients[i]] < id[visionClients[j]]

(* ... and the next client entered goes behind all the others: its id, the *)
(* counter when it was accepted, is above theirs.                          *)
Older == \A i \in DOMAIN visionClients :
             id[visionClients[i]] < nextVisionId /\ tpc[visionClients[i]] # "none"

Entering == mpc = "register" => id[mpeer] = nextVisionId /\ tpc[mpeer] # "none"

(* Until a client has been erased before it was entered, the list holds the *)
(* clients whose thread lives, but for the one about to be entered.        *)
Listed ==
    ~raced => /\ mpc = "register" => mpeer \in Running
              /\ ToSet(visionClients) = Running \ (IF mpc = "register" THEN {mpeer} ELSE {})

(* RegistryExact alone is not inductive: that a client leaves the list for *)
(* good needs that it is there once, which needs the order of the ids.     *)
Entered == Unserved /\ InOrder /\ Older /\ Entering /\ Listed

ServerInv == Typed /\ Entered

-----------------------------------------------------------------------------
(* What is behind the element removed moves up by one.                     *)
LEMMA RemovedAt ==
  ASSUME NEW S, NEW s \in Seq(S), NEW k \in 1 .. Len(s)
  PROVE  /\ RemoveAt(s, k) \in Seq(S) /\ Len(RemoveAt(s, k)) = Len(s) - 1
         /\ \A i \in 1 .. k - 1 : RemoveAt(s, k)[i] = s[i]
         /\ \A i \in k .. Len(s) - 1 : RemoveAt(s, k)[i] = s[i + 1]
<1> DEFINE a == SubSeq(s, 1, k - 1)  b == SubSeq(s, k + 1, Len(s))
<1>0. Len(s) \in Nat /\ k \in Nat
  OBVIOUS
<1>1. a \in Seq(S) /\ Len(a) = k - 1 /\ \A i \in 1 .. k - 1 : a[i] = s[i]
  OBVIOUS
<1>2. b \in Seq(S) /\ Len(b) = Len(s) - k /\ \A i \in 1 .. Len(s) - k : b[i] = s[i + k]
  OBVIOUS
<1> HIDE DEF a, b
<1>3. RemoveAt(s, k) = a \o b
  BY DEF RemoveAt, a, b
<1>4. /\ a \o b \in Seq(S) /\ Len(a \o b) = Len(s) - 1
      /\ \A i \in 1 .. Len(s) - 1 : (a \o b)[i] = IF i <= k - 1 THEN a[i] ELSE b[i - (k - 1)]
  <2>1. /\ a \o b \in Seq(S) /\ Len(a \o b) = Len(a) + Len(b)
        /\ \A i \in 1 .. Len(a) + Len(b) :
              (a \o b)[i] = IF i <= Len(a) THEN a[i] ELSE b[i - Len(a)]
    BY <1>1, <1>2, ConcatProperties
  <2>2. Len(a) + Len(b) = Len(s) - 1
    BY <1>0, <1>1, <1>2
  <2> QED
    BY <1>1, <2>1, <2>2
<1>5. ASSUME NEW i \in 1 .. k - 1 PROVE (a \o b)[i] = s[i]
  <2>1. i \in 1 .. Len(s) - 1 /\ i <= k - 1
    BY <1>0
  <2> QED
    BY <1>1, <1>4, <2>1
<1>6. ASSUME NEW i \in k .. Len(s) - 1 PROVE (a \o b)[i] = s[i + 1]
  <2>1. i \in 1 .. Len(s) - 1 /\ ~(i <= k - 1)
    BY <1>0
  <2>2. (a \o b)[i] = b[i - (k - 1)]
    BY <1>4, <2>1
  <2>3. i - (k - 1) \in 1 .. Len(s) - k /\ i - (k - 1) + k = i + 1
    BY <1>0
  <2> QED
    BY <1>2, <2>2, <2>3
<1> QED
  BY <1>3, <1>4, <1>5, <1>6

(* In a list without repetitions, the element found is the one removed.    *)
LEMMA RemovedFirst ==
  ASSUME NEW S, NEW s \in Seq(S), NEW e \in ToSet(s),
         \A i, j \in DOMAIN s : i < j => s[i] # s[j]
  PROVE  \E k \in 1 .. Len(s) : s[k] = e /\ RemoveFirst(s, e) = RemoveAt(s, k)
<1>1. PICK k \in 1 .. Len(s) : s[k] = e
  BY DEF ToSet
<1>2. {i \in 1 .. Len(s) : s[i] = e} = {k}
  BY <1>1
<1>3. SelectInSeq(s, LAMBDA v : v = e) = k
  <2>1. Min({k}) = k
    BY DEF Min
  <2> QED
    BY <1>2, <2>1 DEF SelectInSeq
<1> QED
  BY <1>1, <1>3 DEF RemoveFirst

(* An element appended leaves the others where they are.                   *)
LEMMA Appended ==
  ASSUME NEW S, NEW s \in Seq(S), NEW e \in S
  PROVE  /\ Append(s, e) \in Seq(S) /\ Len(Append(s, e)) = Len(s) + 1
         /\ \A i \in 1 .. Len(s) : Append(s, e)[i] = s[i]
         /\ Append(s, e)[Len(s) + 1] = e
         /\ ToSet(Append(s, e)) = ToSet(s) \cup {e}
<1>1. /\ Append(s, e) \in Seq(S) /\ Len(Append(s, e)) = Len(s) + 1
      /\ \A i \in 1 .. Len(s) : Append(s, e)[i] = s[i]
      /\ Append(s, e)[Len(s) + 1] = e
  BY AppendProperties
<1>2. DOMAIN Append(s, e) = 1 .. Len(s) + 1 /\ DOMAIN s = 1 .. Len(s)
  BY <1>1
<1>3. ToSet(Append(s, e)) = ToSet(s) \cup {e}
  <2>1. ASSUME NEW x \in ToSet(Append(s, e)) PROVE x \in ToSet(s) \cup {e}
    <3>1. PICK i \in 1 .. Len(s) + 1 : x = Append(s, e)[i]
      BY <1>2 DEF ToSet
    <3>2. CASE i \in 1 .. Len(s)
      BY <1>1, <1>2, <3>1, <3>2 DEF ToSet
    <3>3. CASE i = Len(s) + 1
      BY <1>1, <3>1, <3>3
    <3> QED
      BY <3>2, <3>3
  <2>2. ASSUME NEW x \in ToSet(s) PROVE x \in ToSet(Append(s, e))
    <3>1. PICK i \in 1 .. Len(s) : x = s[i]
      BY <1>2 DEF ToSet
    <3> QED
      BY <1>1, <1>2, <3>1 DEF ToSet
  <2>3. e \in ToSet(Append(s, e))
    <3>1. Len(s) + 1 \in DOMAIN Append(s, e)
      BY <1>2
    <3> QED
      BY <1>1, <3>1 DEF ToSet
  <2> QED
    BY <2>1, <2>2, <2>3
<1> QED
  BY <1>1, <1>3

(* Removing an element of a list without repetitions removes it from its   *)
(* set and keeps the order of the others.                                  *)
LEMMA WithoutElement ==
  ASSUME NEW S, NEW s \in Seq(S), NEW e \in ToSet(s),
         \A i, j \in DOMAIN s : i < j => s[i] # s[j]
  PROVE  LET t == RemoveFirst(s, e)
         IN  /\ t \in Seq(S)
             /\ ToSet(t) = ToSet(s) \ {e}
             /\ \A i, j \in DOMAIN t : i < j =>
                   \E k, l \in DOMAIN s : k < l /\ t[i] = s[k] /\ t[j] = s[l]
<1> DEFINE t == RemoveFirst(s, e)
<1>1. PICK k \in 1 .. Len(s) : s[k] = e /\ t = RemoveAt(s, k)
  BY RemovedFirst
<1>2. /\ t \in Seq(S) /\ Len(t) = Len(s) - 1
      /\ \A i \in 1 .. Len(s) - 1 : (i < k => t[i] = s[i]) /\ (i >= k => t[i] = s[i + 1])
  <2>0. t = RemoveAt(s, k)
    BY <1>1
  <2> HIDE DEF t
  <2>1. /\ t \in Seq(S) /\ Len(t) = Len(s) - 1
        /\ \A i \in 1 .. k - 1 : t[i] = s[i]
        /\ \A i \in k .. Len(s) - 1 : t[i] = s[i + 1]
    BY <2>0, RemovedAt, Zenon
  <2>2. k \in Nat /\ Len(s) \in Nat
    OBVIOUS
  <2>3. ASSUME NEW i \in 1 .. Len(s) - 1
        PROVE  (i < k => t[i] = s[i]) /\ (i >= k => t[i] = s[i + 1])
    <3>1. i < k => i \in 1 .. k - 1
      BY <2>2
    <3>2. i >= k => i \in k .. Len(s) - 1
      BY <2>2
    <3> QED
      BY <2>1, <3>1, <3>2
  <2> QED
    BY <2>1, <2>3
<1> HIDE DEF t
<1>3. DOMAIN s = 1 .. Len(s) /\ DOMAIN t = 1 .. Len(s) - 1
  BY <1>2
<1>4. ToSet(t) = ToSet(s) \ {e}
  <2>1. ASSUME NEW x \in ToSet(t) PROVE x \in ToSet(s) \ {e}
    <3>1. PICK i \in 1 .. Len(s) - 1 : x = t[i]
      BY <1>3 DEF ToSet
    <3>3. CASE i < k
      <4>1. x = s[i] /\ i \in DOMAIN s
        BY <1>2, <1>3, <3>1, <3>3
      <4> QED
        BY <1>1, <1>3, <3>3, <4>1 DEF ToSet
    <3>4. CASE ~(i < k)
      <4>1. x = s[i + 1] /\ i + 1 \in DOMAIN s /\ k < i + 1
        BY <1>2, <1>3, <3>1, <3>4
      <4> QED
        BY <1>1, <1>3, <4>1 DEF ToSet
    <3> QED
      BY <3>3, <3>4
  <2>2. ASSUME NEW x \in ToSet(s) \ {e} PROVE x \in ToSet(t)
    <3>1. PICK i \in 1 .. Len(s) : x = s[i]
      BY <1>3 DEF ToSet
    <3>2. CASE i < k
      <4>1. i \in 1 .. Len(s) - 1
        BY <3>2
      <4>2. t[i] = x
        BY <1>2, <3>1, <3>2, <4>1
      <4> QED
        BY <1>3, <4>1, <4>2 DEF ToSet
    <3>3. CASE i > k
      <4>1. i - 1 \in 1 .. Len(s) - 1 /\ ~(i - 1 < k) /\ (i - 1) + 1 = i
        BY <3>3
      <4>2. t[i - 1] = x
        BY <1>2, <3>1, <4>1
      <4> QED
        BY <1>3, <4>1, <4>2 DEF ToSet
    <3>4. i # k
      BY <1>1, <3>1
    <3> QED
      BY <3>2, <3>3, <3>4
  <2> QED
    BY <2>1, <2>2
<1>5. ASSUME NEW i \in DOMAIN t, NEW j \in DOMAIN t, i < j
      PROVE  \E m, l \in DOMAIN s : m < l /\ t[i] = s[m] /\ t[j] = s[l]
  <2> DEFINE m == IF i < k THEN i ELSE i + 1
             l == IF j < k THEN j ELSE j + 1
  <2>1. m \in DOMAIN s /\ l \in DOMAIN s /\ m < l
    BY <1>3, <1>5
  <2>2. t[i] = s[m] /\ t[j] = s[l]
    BY <1>2, <1>3
  <2> QED
    BY <2>1, <2>2
<1> QED
  BY <1>2, <1>4, <1>5 DEF t

-----------------------------------------------------------------------------
(* The steps of the other programs. *)
LEMMA PeerKeeps == ServerInv /\ PeerStep => ServerInv'
<1> SUFFICES ASSUME ServerInv, PeerStep PROVE ServerInv'
  OBVIOUS
<1>1. UNCHANGED <<mpc, mpeer, idx, numCams, records, nextVisionId, tpc, id, initialized,
                  visionClients, dpc, didx, dataClients, dataMutex, published, taken,
                  greeting, received, raced, crashed>>
  BY DEF PeerStep, mainVars, clientVars, dataVars, queueVars, histVars
<1>2. /\ vpeer' \in [VisionPeers -> {"off", "backlog", "hungup", "open", "closed"}]
      /\ dpeer' \in [DataPeers -> {"off", "backlog", "hungup", "open", "stalled", "closed",
                                  "reset"}]
  BY DEF PeerStep, VisionConnects, VisionCloses, DataConnects, DataCloses, DataStalls,
         DataResumes, ServerInv, Typed, TypeOK
<1>3. Unserved'
  BY <1>1 DEF PeerStep, VisionConnects, VisionCloses, ServerInv, Typed, TypeOK, Entered, Unserved
<1>4. Typed'
  BY <1>1, <1>2 DEF ServerInv, Typed, TypeOK
<1>5. (InOrder /\ Older /\ Entering /\ Listed)'
  BY <1>1 DEF ServerInv, Entered, InOrder, Older, Entering, Listed, Running
<1> QED
  BY <1>3, <1>4, <1>5 DEF ServerInv, Entered

(* A thread is started for a client that had none. *)
LEMMA AcceptKeeps ==
  ASSUME NEW p \in VisionPeers, ServerInv, AcceptVision(p)
  PROVE  ServerInv'
<1>0. /\ Typed /\ Entered
      /\ mpc = "poll" /\ vpeer[p] \in {"backlog", "hungup"} /\ tpc[p] = "none"
      /\ vpeer' = [vpeer EXCEPT ![p] = Accepted(@)]
      /\ UNCHANGED <<dpeer, idx, numCams, records, nextVisionId, initialized, visionClients,
                     dpc, didx, dataClients, dataMutex, published, taken,
                     greeting, received, raced, crashed>>
  BY DEF AcceptVision, PendingVision, ServerInv, Typed, TypeOK, Entered, Unserved,
         dataVars, queueVars, histVars
<1>1. /\ vpeer' \in [VisionPeers -> {"off", "backlog", "hungup", "open", "closed"}]
      /\ vpeer'[p] \notin {"off", "backlog", "hungup"}
      /\ \A q \in VisionPeers \ {p} : vpeer'[q] = vpeer[q]
  BY <1>0 DEF Typed, TypeOK, Accepted
<1>2. CASE UNCHANGED <<tpc, id, mpc, mpeer>>
  <2>1. Typed'
    BY <1>0, <1>1, <1>2 DEF Typed, TypeOK
  <2>2. Unserved'
    BY <1>0, <1>1, <1>2 DEF Entered, Unserved
  <2>3. (InOrder /\ Older /\ Entering /\ Listed)'
    BY <1>0, <1>2 DEF Entered, InOrder, Older, Entering, Listed, Running
  <2> QED
    BY <2>1, <2>2, <2>3 DEF ServerInv, Entered
<1>3. CASE /\ tpc' = [tpc EXCEPT ![p] = "reading"]
           /\ id' = [id EXCEPT ![p] = nextVisionId]
           /\ mpc' = "register" /\ mpeer' = p
  <2>1. Typed'
    BY <1>0, <1>1, <1>3 DEF Typed, TypeOK
  <2>2. Unserved'
    BY <1>0, <1>1, <1>3 DEF Typed, TypeOK, Entered, Unserved
  <2>3. ASSUME NEW i \in DOMAIN visionClients
        PROVE  /\ visionClients[i] \in VisionPeers \ {p}
               /\ id'[visionClients[i]] = id[visionClients[i]]
               /\ tpc'[visionClients[i]] = tpc[visionClients[i]]
    BY <1>0, <1>3 DEF Typed, TypeOK, Entered, Older
  <2>4. InOrder'
    BY <1>0, <2>3 DEF Entered, InOrder
  <2>5. Older'
    BY <1>0, <2>3 DEF Entered, Older
  <2>6. Entering'
    BY <1>0, <1>3 DEF Typed, TypeOK, Entering
  <2>7. Listed'
    <3>1. Running' = Running \cup {p} /\ p \notin Running
      BY <1>0, <1>3 DEF Typed, TypeOK, Running
    <3>2. ~raced => ToSet(visionClients) = Running
      BY <1>0 DEF Entered, Listed
    <3> QED
      BY <1>0, <1>3, <3>1, <3>2 DEF Listed
  <2> QED
    BY <2>1, <2>2, <2>4, <2>5, <2>6, <2>7 DEF ServerInv, Entered
<1> QED
  BY <1>2, <1>3 DEF AcceptVision

(* The client is entered behind those with smaller ids. *)
LEMMA RegisterKeeps == ServerInv /\ Register => ServerInv'
<1> SUFFICES ASSUME ServerInv, Register PROVE ServerInv'
  OBVIOUS
<1>0. /\ Typed /\ Entered
      /\ mpc = "register" /\ mpeer \in VisionPeers
      /\ visionClients' = Append(visionClients, mpeer)
      /\ nextVisionId' = nextVisionId + 1
      /\ mpc' = "poll" /\ mpeer' = None
      /\ UNCHANGED <<vpeer, dpeer, idx, numCams, records, tpc, id, initialized,
                     dpc, didx, dataClients, dataMutex, published, taken,
                     greeting, received, raced, crashed>>
  BY DEF Register, ServerInv, Typed, netVars, dataVars, queueVars, histVars
<1>1. visionClients \in Seq(VisionPeers) /\ nextVisionId \in Nat /\ id \in [VisionPeers -> Nat]
  BY <1>0 DEF Typed, TypeOK
<1>2. /\ visionClients' \in Seq(VisionPeers) /\ Len(visionClients') = Len(visionClients) + 1
      /\ \A i \in 1 .. Len(visionClients) : visionClients'[i] = visionClients[i]
      /\ visionClients'[Len(visionClients) + 1] = mpeer
      /\ ToSet(visionClients') = ToSet(visionClients) \cup {mpeer}
  BY <1>0, <1>1, Appended
<1>3. Typed'
  BY <1>0, <1>1, <1>2 DEF Typed, TypeOK
<1>4. Unserved'
  BY <1>0 DEF Entered, Unserved
<1>5. /\ DOMAIN visionClients = 1 .. Len(visionClients) /\ Len(visionClients) \in Nat
      /\ DOMAIN visionClients' = 1 .. Len(visionClients) + 1
  BY <1>1, <1>2
<1>6. \A i \in 1 .. Len(visionClients) :
         /\ visionClients[i] \in VisionPeers /\ id[visionClients[i]] \in Nat
         /\ id[visionClients[i]] < nextVisionId /\ tpc[visionClients[i]] # "none"
  <2>1. \A i \in 1 .. Len(visionClients) : visionClients[i] \in VisionPeers
    BY <1>1
  <2>2. \A i \in 1 .. Len(visionClients) :
           id[visionClients[i]] < nextVisionId /\ tpc[visionClients[i]] # "none"
    BY <1>0, <1>5, Zenon DEF Entered, Older
  <2> QED
    BY <1>1, <2>1, <2>2
<1>7. id[mpeer] = nextVisionId /\ tpc[mpeer] # "none"
  BY <1>0 DEF Entered, Entering
<1>8. InOrder'
  <2> SUFFICES ASSUME NEW i \in 1 .. Len(visionClients) + 1,
                      NEW j \in 1 .. Len(visionClients) + 1, i < j
               PROVE  id[visionClients'[i]] < id[visionClients'[j]]
    BY <1>0, <1>5 DEF InOrder
  <2>1. i \in 1 .. Len(visionClients)
    BY <1>5
  <2>2. CASE j \in 1 .. Len(visionClients)
    BY <1>0, <1>2, <1>5, <2>1, <2>2 DEF Entered, InOrder
  <2>3. CASE j = Len(visionClients) + 1
    BY <1>2, <1>6, <1>7, <2>1, <2>3
  <2> QED
    BY <1>5, <2>2, <2>3
<1>9. Older'
  <2> SUFFICES ASSUME NEW i \in 1 .. Len(visionClients) + 1
               PROVE  /\ id[visionClients'[i]] < nextVisionId + 1
                      /\ tpc[visionClients'[i]] # "none"
    BY <1>0, <1>5 DEF Older
  <2>1. CASE i \in 1 .. Len(visionClients)
    <3>1. visionClients'[i] = visionClients[i]
      BY <1>2, <2>1
    <3>2. id[visionClients[i]] \in Nat /\ id[visionClients[i]] < nextVisionId
          /\ tpc[visionClients[i]] # "none"
      BY <1>6, <2>1
    <3> QED
      BY <1>1, <3>1, <3>2
  <2>2. CASE i = Len(visionClients) + 1
    BY <1>1, <1>2, <1>7, <2>2
  <2> QED
    BY <1>5, <2>1, <2>2
<1>10. Entering'
  BY <1>0 DEF Entering
<1>11. Listed'
  BY <1>0, <1>2 DEF Entered, Listed, Running
<1> QED
  BY <1>3, <1>4, <1>8, <1>9, <1>10, <1>11 DEF ServerInv, Entered

(* The thread of a client moves.  A client that has not been entered when  *)
(* it is to be erased costs the list its last element.                     *)
LEMMA ClientKeeps ==
  ASSUME NEW p \in VisionPeers, ServerInv, ClientStep(p)
  PROVE  ServerInv'
<1>0. Typed /\ Entered
  BY DEF ServerInv
<1>1. CASE ClientInit(p)
  <2>1. Typed'
    BY <1>0, <1>1 DEF ClientInit, netVars, mainVars, dataVars, queueVars, histVars, Typed, TypeOK
  <2>2. Entered'
    BY <1>0, <1>1 DEF ClientInit, netVars, mainVars, dataVars, queueVars, histVars, Entered,
                      Unserved, InOrder, Older, Entering, Listed, Running
  <2> QED
    BY <2>1, <2>2 DEF ServerInv
<1>2. CASE ReadFails(p)
  <2>1. /\ tpc[p] = "reading" /\ tpc' = [tpc EXCEPT ![p] = "leaving"] /\ vpeer[p] = "closed"
        /\ UNCHANGED <<vpeer, dpeer, mpc, mpeer, idx, numCams, records, nextVisionId, id,
                       initialized, visionClients, dpc, didx, dataClients, dataMutex,
                       published, taken, greeting, received, raced, crashed>>
    BY <1>2 DEF ReadFails, netVars, mainVars, dataVars, queueVars, histVars
  <2>2. Typed'
    BY <1>0, <2>1 DEF Typed, TypeOK
  <2>3. \A q \in VisionPeers : tpc[q] = "none" <=> tpc'[q] = "none"
    BY <1>0, <2>1 DEF Typed, TypeOK
  <2>4. (Unserved /\ InOrder /\ Older /\ Entering)'
    <3>1. \A i \in DOMAIN visionClients : visionClients[i] \in VisionPeers
      BY <1>0 DEF Typed, TypeOK
    <3> QED
      BY <1>0, <2>1, <2>3, <3>1 DEF Typed, Entered, Unserved, InOrder, Older, Entering
  <2>5. Running' = Running
    BY <1>0, <2>1 DEF Typed, TypeOK, Running
  <2> QED
    BY <1>0, <2>1, <2>2, <2>4, <2>5 DEF ServerInv, Entered, Listed
<1>3. CASE Deregister(p)
  <2>1. /\ tpc[p] = "leaving" /\ tpc' = [tpc EXCEPT ![p] = "done"]
        /\ UNCHANGED <<vpeer, dpeer, mpc, mpeer, idx, numCams, records, nextVisionId, id,
                       initialized, dpc, didx, dataClients, dataMutex,
                       published, taken, greeting, received>>
    BY <1>3 DEF Deregister, netVars, mainVars, dataVars, queueVars
  <2>2. \A q \in VisionPeers : tpc[q] = "none" <=> tpc'[q] = "none"
    BY <1>0, <2>1 DEF Typed, TypeOK
  <2>3. Unserved' /\ Entering'
    BY <1>0, <2>1, <2>2 DEF Typed, Entered, Unserved, Entering
  <2>4. \A i, j \in DOMAIN visionClients : i < j => visionClients[i] # visionClients[j]
    BY <1>0 DEF Typed, TypeOK, Entered, InOrder
  <2>5. Running' = Running \ {p}
    BY <1>0, <2>1 DEF Typed, TypeOK, Running
  <2>6. CASE p \in ToSet(visionClients)
    <3>1. visionClients' = RemoveFirst(visionClients, p) /\ UNCHANGED <<raced, crashed>>
      BY <1>3, <2>6 DEF Deregister
    <3>2. visionClients \in Seq(VisionPeers)
      BY <1>0 DEF Typed, TypeOK
    <3>3. /\ visionClients' \in Seq(VisionPeers)
          /\ ToSet(visionClients') = ToSet(visionClients) \ {p}
          /\ \A i, j \in DOMAIN visionClients' : i < j =>
                \E k, l \in DOMAIN visionClients :
                   k < l /\ visionClients'[i] = visionClients[k] /\ visionClients'[j] = visionClients[l]
      BY <2>4, <2>6, <3>1, <3>2, WithoutElement
    <3>4. Typed'
      BY <1>0, <2>1, <3>1, <3>3 DEF Typed, TypeOK
    <3>5. InOrder'
      BY <1>0, <2>1, <3>3 DEF Entered, InOrder
    <3>6. Older'
      <4>1. \A q \in ToSet(visionClients') :
               q \in VisionPeers /\ id[q] < nextVisionId /\ tpc[q] # "none"
        BY <1>0, <3>2, <3>3 DEF Entered, Older, ToSet
      <4> QED
        BY <2>1, <2>2, <4>1 DEF Older, ToSet
    <3>7. Listed'
      BY <1>0, <2>1, <2>5, <3>1, <3>3, <2>6 DEF Entered, Listed
    <3> QED
      BY <2>3, <3>4, <3>5, <3>6, <3>7 DEF ServerInv, Entered
  <2>7. CASE p \notin ToSet(visionClients)
    <3>1. /\ raced' = TRUE
          /\ \/ visionClients # <<>> /\ visionClients' = Front(visionClients) /\ UNCHANGED crashed
             \/ crashed' = TRUE /\ UNCHANGED visionClients
      BY <1>3, <2>7 DEF Deregister
    <3>2. visionClients \in Seq(VisionPeers)
      BY <1>0 DEF Typed, TypeOK
    <3>3. /\ visionClients' \in Seq(VisionPeers)
          /\ \A i \in DOMAIN visionClients' :
                i \in DOMAIN visionClients /\ visionClients'[i] = visionClients[i]
      <4>1. CASE UNCHANGED visionClients
        BY <3>2, <4>1
      <4>2. CASE visionClients # <<>> /\ visionClients' = Front(visionClients)
        BY <3>2, <4>2 DEF Front
      <4> QED
        BY <3>1, <4>1, <4>2
    <3>4. Typed'
      BY <1>0, <2>1, <3>1, <3>3 DEF Typed, TypeOK
    <3>5. InOrder'
      BY <1>0, <2>1, <3>3 DEF Entered, InOrder
    <3>6. Older'
      <4>1. \A i \in DOMAIN visionClients : visionClients[i] \in VisionPeers
        BY <3>2
      <4> QED
        BY <1>0, <2>1, <2>2, <3>3, <4>1 DEF Entered, Older
    <3>7. Listed'
      BY <3>1 DEF Listed
    <3> QED
      BY <2>3, <3>4, <3>5, <3>6, <3>7 DEF ServerInv, Entered
  <2> QED
    BY <2>6, <2>7
<1> QED
  BY <1>1, <1>2, <1>3 DEF ClientStep

(* The steps of the main thread that leave the vision clients alone. *)
LEMMA MainKeeps ==
  ASSUME ServerInv,
         \/ \E p \in VisionPeers : RejectVision(p)
         \/ \E q \in DataPeers : AcceptData(q)
         \/ LockClients \/ CountCameras \/ WriteRecords \/ SendGreeting
  PROVE  ServerInv'
<1>0. Typed /\ Entered
  BY DEF ServerInv
<1>1. UNCHANGED <<tpc, id, visionClients, raced, nextVisionId>> /\ mpc # "register" /\ mpc' # "register"
  BY DEF RejectVision, AcceptData, LockClients, CountCameras, WriteRecords, SendGreeting,
         mainVars, clientVars, histVars
<1>2. ASSUME NEW p \in VisionPeers, vpeer'[p] \in {"off", "backlog", "hungup"}
      PROVE  vpeer[p] \in {"off", "backlog", "hungup"}
  BY <1>0, <1>2 DEF RejectVision, AcceptData, LockClients, CountCameras, WriteRecords, SendGreeting,
                    netVars, Typed, TypeOK
<1>3. Entered'
  BY <1>0, <1>1, <1>2 DEF Entered, Unserved, InOrder, Older, Entering, Listed, Running
<1>4. CASE \E p \in VisionPeers : RejectVision(p)
  BY <1>0, <1>3, <1>4 DEF RejectVision, mainVars, clientVars, dataVars, queueVars, histVars,
                          Typed, TypeOK, ServerInv
<1>5. CASE \E q \in DataPeers : AcceptData(q)
  BY <1>0, <1>3, <1>5 DEF AcceptData, Accepted, clientVars, dataVars, queueVars, histVars,
                          Typed, TypeOK, ServerInv
<1>6. CASE LockClients
  BY <1>0, <1>3, <1>6 DEF LockClients, netVars, clientVars, queueVars, histVars,
                          Typed, TypeOK, ServerInv
<1>7. CASE CountCameras
  <2>1. idx \in Nat \ {0} /\ numCams \in Nat /\ records \in Nat /\ Flag(idx) \in Nat
    BY <1>0 DEF Flag, Typed, TypeOK
  <2>2. idx' \in Nat \ {0} /\ numCams' \in Nat /\ records' \in Nat
    BY <1>7, <2>1 DEF CountCameras
  <2>3. mpc' \in {"count", "write", "send"} /\ mpc \in {"count", "write"}
        /\ UNCHANGED <<vpeer, dpeer, mpeer, nextVisionId, tpc, id, initialized, visionClients,
                       dpc, didx, dataClients, dataMutex, published, taken,
                       greeting, received, raced, crashed>>
    BY <1>7 DEF CountCameras, netVars, clientVars, dataVars, queueVars, histVars
  <2> QED
    BY <1>0, <1>3, <2>2, <2>3 DEF Typed, TypeOK, ServerInv
<1>8. CASE WriteRecords
  <2>1. idx \in Nat \ {0} /\ numCams \in Nat /\ records \in Nat /\ Flag(idx) \in Nat
    BY <1>0 DEF Flag, Typed, TypeOK
  <2>2. idx' \in Nat \ {0} /\ numCams' \in Nat /\ records' \in Nat
    BY <1>8, <2>1 DEF WriteRecords
  <2>3. mpc' \in {"count", "write", "send"} /\ mpc \in {"count", "write"}
        /\ UNCHANGED <<vpeer, dpeer, mpeer, nextVisionId, tpc, id, initialized, visionClients,
                       dpc, didx, dataClients, dataMutex, published, taken,
                       greeting, received, raced, crashed>>
    BY <1>8 DEF WriteRecords, netVars, clientVars, dataVars, queueVars, histVars
  <2> QED
    BY <1>0, <1>3, <2>2, <2>3 DEF Typed, TypeOK, ServerInv
<1>9. CASE SendGreeting
  <2>1. mpeer \in DataPeers /\ numCams \in Nat /\ records \in Nat /\ dataClients \in Seq(DataClients)
        /\ greeting \in [DataPeers -> [announced : Nat, held : Nat]]
    BY <1>0, <1>9 DEF SendGreeting, Typed, TypeOK
  <2>2. dataClients' \in Seq(DataClients)
    <3>1. [peer |-> mpeer, initialized |-> TRUE] \in DataClients
          /\ [peer |-> mpeer, initialized |-> FALSE] \in DataClients
      BY <2>1 DEF DataClients
    <3>2. PICK c \in DataClients : dataClients' = Append(dataClients, c)
      BY <1>9, <3>1 DEF SendGreeting
    <3> QED
      BY <2>1, <3>2, AppendProperties
  <2>3. greeting' \in [DataPeers -> [announced : Nat, held : Nat]]
    <3>1. [announced |-> numCams, held |-> records] \in [announced : Nat, held : Nat]
      BY <2>1
    <3> QED
      BY <1>9, <2>1, <3>1 DEF SendGreeting
  <2> QED
    BY <1>0, <1>3, <1>9, <2>2, <2>3 DEF SendGreeting, netVars, clientVars, queueVars,
                                        Typed, TypeOK, ServerInv
<1> QED
  BY <1>4, <1>5, <1>6, <1>7, <1>8, <1>9

(* The server thread and the data thread. *)
LEMMA DataKeeps == ServerInv /\ (Publish \/ DataStep) => ServerInv'
<1> SUFFICES ASSUME ServerInv, Publish \/ DataStep PROVE ServerInv'
  OBVIOUS
<1>0. Typed /\ Entered
  BY DEF ServerInv
<1>1. UNCHANGED <<vpeer, dpeer, mpc, mpeer, idx, numCams, records, nextVisionId, tpc, id,
                  initialized, visionClients, greeting, raced, crashed>>
  BY DEF Publish, DataStep, PopFrame, LockDataClients, SendFrame, EraseDataClient,
         SkipUninitialized, EndRound, vars, netVars, mainVars, clientVars, histVars
<1>2. Entered'
  BY <1>0, <1>1 DEF Entered, Unserved, InOrder, Older, Entering, Listed, Running
<1>3. CASE Publish
  <2>1. published \in Seq(Frames) /\ MaxFrames \in Nat
    BY <1>0, ServerAssumption DEF Typed, TypeOK
  <2>2. Len(published) < MaxFrames /\ published' = Append(published, Len(published) + 1)
        /\ UNCHANGED taken
    BY <1>3 DEF Publish, Results!Send
  <2>3. Len(published) + 1 \in Frames
    BY <2>1, <2>2 DEF Frames
  <2>4. published' \in Seq(Frames)
    BY <2>1, <2>2, <2>3, AppendProperties
  <2> QED
    BY <1>0, <1>1, <1>2, <1>3, <2>2, <2>4 DEF Publish, dataVars, histVars, Typed, TypeOK, ServerInv
<1>4. CASE PopFrame
  <2>1. published \in Seq(Frames) /\ taken \in Seq(Frames)
    BY <1>0 DEF Typed, TypeOK
  <2>2. Len(taken) < Len(published) /\ taken' = Append(taken, published[Len(taken) + 1])
        /\ UNCHANGED published
    BY <1>4 DEF PopFrame, Results!Take
  <2>3. published[Len(taken) + 1] \in Frames
    <3>1. Len(taken) + 1 \in 1 .. Len(published)
      BY <2>1, <2>2
    <3> QED
      BY <2>1, <3>1
  <2>4. taken' \in Seq(Frames) /\ taken' # <<>>
    BY <2>1, <2>2, <2>3, AppendProperties
  <2> QED
    BY <1>0, <1>1, <1>2, <1>4, <2>2, <2>4 DEF PopFrame, histVars, Typed, TypeOK, ServerInv
<1>5. CASE LockDataClients
  BY <1>0, <1>1, <1>2, <1>5 DEF LockDataClients, queueVars, histVars, Typed, TypeOK, ServerInv
<1>6. CASE SendFrame
  <2>1. /\ dataClients \in Seq(DataClients) /\ didx \in 1 .. Len(dataClients)
        /\ taken \in Seq(Frames) /\ taken # <<>> /\ received \in [DataPeers -> Seq(Frames)]
        /\ didx \in Nat \ {0}
    BY <1>0, <1>6 DEF SendFrame, AtClient, Typed, TypeOK
  <2>2. dataClients[didx].peer \in DataPeers
    <3>1. dataClients[didx] \in DataClients
      BY <2>1
    <3> QED
      BY <3>1 DEF DataClients
  <2>3. Last(taken) \in Frames
    BY <2>1 DEF Last
  <2>4. received' \in [DataPeers -> Seq(Frames)]
    BY <1>6, <2>1, <2>2, <2>3, AppendProperties DEF SendFrame
  <2>5. didx' = didx + 1 /\ UNCHANGED <<dpc, dataClients, dataMutex, published, taken>>
    BY <1>6 DEF SendFrame, queueVars
  <2> QED
    BY <1>0, <1>1, <1>2, <2>1, <2>4, <2>5 DEF Typed, TypeOK, ServerInv
<1>7. CASE EraseDataClient
  <2>1. dataClients \in Seq(DataClients) /\ didx \in 1 .. Len(dataClients)
    BY <1>0, <1>7 DEF EraseDataClient, AtClient, Typed, TypeOK
  <2>2. dataClients' \in Seq(DataClients)
    BY <1>7, <2>1, RemovedAt DEF EraseDataClient
  <2> QED
    BY <1>0, <1>1, <1>2, <1>7, <2>2 DEF EraseDataClient, queueVars, histVars, Typed, TypeOK, ServerInv
<1>8. CASE SkipUninitialized
  BY <1>0, <1>1, <1>2, <1>8 DEF SkipUninitialized, vars, dataVars, queueVars, histVars,
                                Typed, TypeOK, ServerInv
<1>9. CASE EndRound
  BY <1>0, <1>1, <1>2, <1>9 DEF EndRound, queueVars, histVars, None, Typed, TypeOK, ServerInv
<1> QED
  BY <1>3, <1>4, <1>5, <1>6, <1>7, <1>8, <1>9 DEF DataStep

(* Nobody is there at the start. *)
LEMMA InitServer == Init => ServerInv
<1> SUFFICES ASSUME Init PROVE ServerInv
  OBVIOUS
<1>1. Typed
  <2>1. published = <<>> /\ taken = <<>>
    BY DEF Init, Results!Init
  <2>2. <<>> \in Seq(VisionPeers) /\ <<>> \in Seq(DataClients) /\ <<>> \in Seq(Frames)
    BY EmptySeq
  <2>3. /\ greeting \in [DataPeers -> [announced : Nat, held : Nat]]
        /\ received \in [DataPeers -> Seq(Frames)]
    BY <2>2 DEF Init
  <2>4. /\ visionClients \in Seq(VisionPeers) /\ dataClients \in Seq(DataClients)
        /\ published \in Seq(Frames) /\ taken \in Seq(Frames)
    BY <2>1, <2>2 DEF Init
  <2>5. /\ mpc = "poll" /\ mpeer = None /\ dpc = "pop" /\ dataMutex = None /\ raced = FALSE
        /\ crashed = FALSE /\ idx = 1 /\ numCams = 0 /\ records = 0 /\ nextVisionId = 0 /\ didx = 1
        /\ vpeer = [p \in VisionPeers |-> "off"] /\ dpeer = [q \in DataPeers |-> "off"]
        /\ tpc = [p \in VisionPeers |-> "none"] /\ id = [p \in VisionPeers |-> 0]
        /\ initialized = [p \in VisionPeers |-> FALSE]
    BY DEF Init
  <2>6. /\ vpeer \in [VisionPeers -> {"off", "backlog", "hungup", "open", "closed"}]
        /\ dpeer \in [DataPeers -> {"off", "backlog", "hungup", "open", "stalled", "closed",
                                  "reset"}]
        /\ tpc \in [VisionPeers -> {"none", "reading", "leaving", "done"}]
        /\ id \in [VisionPeers -> Nat] /\ initialized \in [VisionPeers -> BOOLEAN]
    BY <2>5
  <2>7. /\ mpc \in {"poll", "register", "lock", "count", "write", "send"}
        /\ mpeer \in VisionPeers \cup DataPeers \cup {None}
        /\ dpc \in {"pop", "lock", "send"} /\ dataMutex \in {"main", "data", None}
    BY <2>5
  <2>8. /\ idx \in Nat \ {0} /\ numCams \in Nat /\ records \in Nat /\ nextVisionId \in Nat
        /\ didx \in Nat \ {0}
    BY <2>5
  <2>9. raced \in BOOLEAN /\ crashed \in BOOLEAN
    BY <2>5
  <2>10. TypeOK
    BY <2>3, <2>4, <2>6, <2>7, <2>8, <2>9 DEF TypeOK
  <2> QED
    BY <2>5, <2>10 DEF Typed
<1>2. Entered
  <2>1. ToSet(visionClients) = {} /\ DOMAIN visionClients = {}
    BY DEF Init, ToSet
  <2> QED
    BY <2>1 DEF Init, Entered, Unserved, InOrder, Older, Entering, Listed, Running
<1> QED
  BY <1>1, <1>2 DEF ServerInv

(* Any step of any thread.                                                 *)
LEMMA StepKeeps == ServerInv /\ [Next]_vars => ServerInv'
<1> SUFFICES ASSUME ServerInv, [Next]_vars PROVE ServerInv'
  OBVIOUS
<1>1. CASE UNCHANGED vars
  BY <1>1 DEF vars, netVars, mainVars, clientVars, dataVars, queueVars, histVars, ServerInv, Typed,
              TypeOK, Entered, Unserved, InOrder, Older, Entering, Listed, Running
<1>2. CASE MainStep
  BY <1>2, AcceptKeeps, RegisterKeeps, MainKeeps DEF MainStep
<1> QED
  BY <1>1, <1>2, PeerKeeps, ClientKeeps, DataKeeps DEF Next

(* Every variable keeps its type; in particular no id is given out beyond  *)
(* the counter and the vectors hold clients only.                          *)
THEOREM ServerTyped == SafeSpec => []TypeOK
<1>1. SafeSpec => []ServerInv
  BY InitServer, StepKeeps, PTL DEF SafeSpec
<1>2. ServerInv => TypeOK
  BY DEF ServerInv, Typed
<1> QED
  BY <1>1, <1>2, PTL

(* In whichever order clients are accepted, start, fail and are removed,   *)
(* no two clients in the list of ClusterServer have one id; and it is the  *)
(* list of those whose thread lives, until one of them is removed before   *)
(* it has been entered: from then on nothing is said of who is in it.      *)
THEOREM RegistryIsExact == SafeSpec => []RegistryExact
<1>1. SafeSpec => []ServerInv
  BY InitServer, StepKeeps, PTL DEF SafeSpec
<1>2. ServerInv => RegistryExact
  BY DEF ServerInv, Entered, InOrder, Listed, Running, RegistryExact
<1> QED
  BY <1>1, <1>2, PTL

-----------------------------------------------------------------------------
(* The greeting.  What has been counted was ready, what is ready stays so, *)
(* and the list does not change until both passes are over.                *)

(* The positions from i to j whose client is initialized.                  *)
Ready(i, j) == {k \in i .. j : initialized[visionClients[k]]}

(* In the first pass the count stays below the ready clients visited, in   *)
(* the second below the records written and the ready clients to come.     *)
Counted ==
    /\ mpc \in {"count", "write"} => idx <= Len(visionClients) + 1
    /\ mpc = "count" => numCams <= Cardinality(Ready(1, idx - 1))
    /\ mpc = "write" => numCams <= records + Cardinality(Ready(idx, Len(visionClients)))
    /\ mpc = "send" => numCams <= records
    /\ AnnouncedIsHeld

(* They are finitely many.                                                 *)
LEMMA ReadyNumber ==
  ASSUME NEW i \in Int, NEW j \in Int
  PROVE  IsFiniteSet(Ready(i, j)) /\ Cardinality(Ready(i, j)) \in Nat
<1>1. Ready(i, j) \subseteq i .. j /\ IsFiniteSet(i .. j)
  BY FS_Interval DEF Ready
<1> QED
  BY <1>1, FS_Subset, FS_CardinalityType

(* Visiting one more client counts its flag.                               *)
LEMMA ReadyLast ==
  ASSUME NEW i \in Nat \ {0}
  PROVE  Cardinality(Ready(1, i)) = Cardinality(Ready(1, i - 1)) + Flag(i)
<1>1. CASE initialized[visionClients[i]]
  <2>1. Ready(1, i) = Ready(1, i - 1) \cup {i} /\ i \notin Ready(1, i - 1)
    BY <1>1 DEF Ready
  <2>2. IsFiniteSet(Ready(1, i - 1)) /\ Flag(i) = 1
    BY <1>1, ReadyNumber DEF Flag
  <2> QED
    BY <2>1, <2>2, FS_AddElement
<1>2. CASE ~initialized[visionClients[i]]
  <2>1. Ready(1, i) = Ready(1, i - 1)
    BY <1>2 DEF Ready
  <2> QED
    BY <1>2, <2>1, ReadyNumber DEF Flag
<1> QED
  BY <1>1, <1>2

(* A pass that starts one client later has that client's flag less to come. *)
LEMMA ReadyFirst ==
  ASSUME NEW i \in Nat, NEW n \in Nat, i <= n
  PROVE  Cardinality(Ready(i, n)) = Flag(i) + Cardinality(Ready(i + 1, n))
<1>0. i \in Int /\ i + 1 \in Int /\ n \in Int
  OBVIOUS
<1>1. /\ IsFiniteSet(Ready(i + 1, n)) /\ Cardinality(Ready(i + 1, n)) \in Nat
  BY <1>0, ReadyNumber
<1>2. CASE initialized[visionClients[i]]
  <2>1. Ready(i, n) = Ready(i + 1, n) \cup {i} /\ i \notin Ready(i + 1, n)
    BY <1>2 DEF Ready
  <2>2. Flag(i) = 1
    BY <1>2 DEF Flag
  <2>3. Cardinality(Ready(i, n)) = Cardinality(Ready(i + 1, n)) + 1
    BY <1>1, <2>1, FS_AddElement
  <2> QED
    BY <1>1, <2>2, <2>3
<1>3. CASE ~initialized[visionClients[i]]
  <2>1. Ready(i, n) = Ready(i + 1, n)
    BY <1>3 DEF Ready
  <2> QED
    BY <1>1, <1>3, <2>1 DEF Flag
<1> QED
  BY <1>2, <1>3

(* While the list stays as it is, more of its clients may become ready. *)
LEMMA ReadyGrows ==
  ASSUME NEW i \in Int, NEW j \in Int, UNCHANGED visionClients,
         \A k \in i .. j : initialized[visionClients[k]] => initialized'[visionClients[k]]
  PROVE  /\ Cardinality(Ready(i, j)) \in Nat /\ Cardinality(Ready(i, j)') \in Nat
         /\ Cardinality(Ready(i, j)) <= Cardinality(Ready(i, j)')
<1>1. Ready(i, j) \subseteq Ready(i, j)'
  BY DEF Ready
<1>2. Ready(i, j)' \subseteq i .. j /\ IsFiniteSet(i .. j)
  BY FS_Interval DEF Ready
<1>3. IsFiniteSet(Ready(i, j)')
  BY <1>2, FS_Subset
<1> QED
  BY <1>1, <1>3, FS_Subset, FS_CardinalityType

(* A step of another thread keeps the count: it makes nobody unready, and  *)
(* does not touch the list while the main thread walks through it.         *)
LEMMA OthersKeepCount ==
  ASSUME ServerInv, Counted, UNCHANGED <<mainVars, greeting>>,
         VisionMutexFree \/ UNCHANGED visionClients,
         \A p \in VisionPeers : initialized[p] => initialized'[p]
  PROVE  Counted'
<1>0. /\ idx \in Nat \ {0} /\ numCams \in Nat /\ records \in Nat /\ visionClients \in Seq(VisionPeers)
      /\ mpc' = mpc /\ idx' = idx /\ numCams' = numCams /\ records' = records
      /\ greeting' = greeting
  BY DEF ServerInv, Typed, TypeOK, mainVars
<1>1. AnnouncedIsHeld'
  BY <1>0 DEF Counted, AnnouncedIsHeld
<1>2. CASE VisionMutexFree
  BY <1>0, <1>1, <1>2 DEF VisionMutexFree, Counted
<1>3. CASE ~VisionMutexFree
  <2>1. visionClients' = visionClients /\ Len(visionClients) \in Nat
    BY <1>0, <1>3
  <2>2. \A k \in 1 .. Len(visionClients) :
           initialized[visionClients[k]] => initialized'[visionClients[k]]
    BY <1>0
  <2>3. idx <= Len(visionClients) + 1
    BY <1>3 DEF VisionMutexFree, Counted
  <2>4. ASSUME NEW i \in Int, NEW j \in Int, 1 <= i, j <= Len(visionClients)
        PROVE  /\ Cardinality(Ready(i, j)) \in Nat /\ Cardinality(Ready(i, j)') \in Nat
               /\ Cardinality(Ready(i, j)) <= Cardinality(Ready(i, j)')
    <3>1. \A k \in i .. j : initialized[visionClients[k]] => initialized'[visionClients[k]]
      BY <2>1, <2>2, <2>4
    <3> QED
      BY <2>1, <3>1, ReadyGrows
  <2>5. CASE mpc = "count"
    <3>1. idx - 1 \in Int /\ 1 \in Int /\ idx - 1 <= Len(visionClients)
      BY <1>0, <2>1, <2>3
    <3>2. numCams <= Cardinality(Ready(1, idx - 1))
      BY <2>5 DEF Counted
    <3>3. PICK last \in Int : last = idx - 1
      BY <3>1
    <3>4. numCams <= Cardinality(Ready(1, last)')
      <4>1. Ready(1, last) = Ready(1, idx - 1)
        BY <3>3
      <4>2. /\ Cardinality(Ready(1, last)) \in Nat /\ Cardinality(Ready(1, last)') \in Nat
            /\ Cardinality(Ready(1, last)) <= Cardinality(Ready(1, last)')
        BY <2>4, <3>1, <3>3
      <4>3. numCams <= Cardinality(Ready(1, last))
        BY <3>2, <4>1
      <4> QED
        BY <1>0, <4>2, <4>3
    <3>5. Ready(1, last)' = Ready(1, idx - 1)'
      BY <1>0, <3>3 DEF Ready
    <3>6. numCams' <= Cardinality(Ready(1, idx - 1)')
      BY <1>0, <3>4, <3>5
    <3> QED
      BY <1>0, <1>1, <2>1, <2>3, <2>5, <3>6 DEF Counted
  <2>6. CASE mpc = "write"
    <3>1. idx \in Int /\ 1 <= idx /\ Len(visionClients) \in Int
      BY <1>0, <2>1
    <3>2. numCams <= records + Cardinality(Ready(idx, Len(visionClients)))
      BY <2>6 DEF Counted
    <3>3. PICK first \in Int, last \in Int : first = idx /\ last = Len(visionClients)
      BY <3>1
    <3>4. numCams <= records + Cardinality(Ready(first, last)')
      <4>1. Ready(first, last) = Ready(idx, Len(visionClients))
        BY <3>3
      <4>2. /\ Cardinality(Ready(first, last)) \in Nat
            /\ Cardinality(Ready(first, last)') \in Nat
            /\ Cardinality(Ready(first, last)) <= Cardinality(Ready(first, last)')
        BY <2>4, <3>1, <3>3
      <4>3. numCams <= records + Cardinality(Ready(first, last))
        BY <3>2, <4>1
      <4> QED
        BY <1>0, <4>2, <4>3
    <3>5. Ready(first, last)' = Ready(idx, Len(visionClients))'
      BY <1>0, <2>1, <3>3 DEF Ready
    <3>6. numCams' <= records' + Cardinality(Ready(idx, Len(visionClients))')
      BY <1>0, <3>4, <3>5
    <3> QED
      BY <1>0, <1>1, <2>1, <2>3, <2>6, <3>6 DEF Counted
  <2> QED
    BY <1>3, <2>5, <2>6 DEF VisionMutexFree
<1> QED
  BY <1>2, <1>3

(* The steps of the main thread: each pass adds the flag of the client it  *)
(* visits, and between the passes the count carries over.                  *)
LEMMA MainCounts ==
  ASSUME ServerInv, ServerInv', Counted, MainStep
  PROVE  Counted'
<1>0. /\ idx \in Nat \ {0} /\ numCams \in Nat /\ records \in Nat /\ visionClients \in Seq(VisionPeers)
      /\ Len(visionClients) \in Nat
      /\ greeting \in [DataPeers -> [announced : Nat, held : Nat]]
  <2>1. TypeOK
    BY DEF ServerInv, Typed
  <2>2. visionClients \in Seq(VisionPeers)
    BY <2>1 DEF TypeOK
  <2>3. Len(visionClients) \in Nat
    BY <2>2
  <2> QED
    BY <2>1, <2>3 DEF TypeOK
<1>1. CASE \/ \E p \in VisionPeers : RejectVision(p) \/ AcceptVision(p)
           \/ \E q \in DataPeers : AcceptData(q)
           \/ Register
  BY <1>1 DEF RejectVision, AcceptVision, AcceptData, Register, Counted, AnnouncedIsHeld,
              histVars, mainVars
<1>2. CASE LockClients
  <2>1. idx' = 1 /\ numCams' = 0 /\ mpc' = "count" /\ UNCHANGED <<visionClients, greeting>>
    BY <1>2 DEF LockClients, clientVars, histVars
  <2>2. Ready(1, idx - 1)' = {}
    BY <2>1 DEF Ready
  <2>3. Cardinality({}) = 0
    BY FS_EmptySet
  <2>4. AnnouncedIsHeld'
    BY <2>1 DEF Counted, AnnouncedIsHeld
  <2>5. numCams' <= Cardinality(Ready(1, idx - 1)')
    BY <2>1, <2>2, <2>3
  <2> QED
    BY <1>0, <2>1, <2>2, <2>3, <2>4, <2>5 DEF Counted
<1>3. CASE CountCameras
  <2>0. /\ mpc = "count" /\ idx <= Len(visionClients) + 1
        /\ numCams <= Cardinality(Ready(1, idx - 1))
        /\ UNCHANGED <<visionClients, initialized, greeting, records>>
    BY <1>3 DEF CountCameras, Counted, clientVars, histVars
  <2>1. CASE idx <= Len(visionClients)
    <3>1. numCams' = numCams + Flag(idx) /\ idx' = idx + 1 /\ mpc' = "count"
      BY <1>3, <2>0, <2>1 DEF CountCameras
    <3>2. Cardinality(Ready(1, idx)) = Cardinality(Ready(1, idx - 1)) + Flag(idx)
      BY <1>0, ReadyLast
    <3>3. Cardinality(Ready(1, idx - 1)) \in Nat /\ Flag(idx) \in Nat
      <4>1. 1 \in Int /\ idx - 1 \in Int
        BY <1>0
      <4> QED
        BY <4>1, ReadyNumber DEF Flag
    <3>4. Ready(1, idx - 1)' = Ready(1, idx)
      BY <1>0, <2>0, <3>1 DEF Ready
    <3>5. numCams' <= Cardinality(Ready(1, idx - 1)')
      BY <1>0, <2>0, <3>1, <3>2, <3>3, <3>4
    <3> QED
      BY <1>0, <2>0, <2>1, <3>1, <3>5 DEF Counted, AnnouncedIsHeld
  <2>2. CASE ~(idx <= Len(visionClients))
    <3>1. numCams' = numCams /\ idx' = 1 /\ mpc' = "write"
      BY <1>3, <2>0, <2>2 DEF CountCameras
    <3>2. idx - 1 = Len(visionClients)
      BY <1>0, <2>0, <2>2
    <3>3. Ready(idx, Len(visionClients))' = Ready(1, idx - 1)
      BY <2>0, <3>1, <3>2 DEF Ready
    <3>4. Cardinality(Ready(1, idx - 1)) \in Nat
      <4>1. 1 \in Int /\ idx - 1 \in Int
        BY <1>0
      <4> QED
        BY <4>1, ReadyNumber
    <3>5. numCams' <= records' + Cardinality(Ready(idx, Len(visionClients))')
      BY <1>0, <2>0, <3>1, <3>3, <3>4
    <3> QED
      BY <1>0, <2>0, <3>1, <3>5 DEF Counted, AnnouncedIsHeld
  <2> QED
    BY <2>1, <2>2
<1>4. CASE WriteRecords
  <2>0. /\ mpc = "write" /\ idx <= Len(visionClients) + 1
        /\ numCams <= records + Cardinality(Ready(idx, Len(visionClients)))
        /\ UNCHANGED <<visionClients, initialized, greeting, numCams>>
    BY <1>4 DEF WriteRecords, Counted, clientVars, histVars
  <2>1. CASE idx <= Len(visionClients)
    <3>1. records' = records + Flag(idx) /\ idx' = idx + 1 /\ mpc' = "write"
      BY <1>4, <2>0, <2>1 DEF WriteRecords
    <3>2. Cardinality(Ready(idx, Len(visionClients)))
            = Flag(idx) + Cardinality(Ready(idx + 1, Len(visionClients)))
      BY <1>0, <2>1, ReadyFirst
    <3>3. Cardinality(Ready(idx + 1, Len(visionClients))) \in Nat /\ Flag(idx) \in Nat
      <4>1. idx + 1 \in Int /\ Len(visionClients) \in Int
        BY <1>0
      <4> QED
        BY <4>1, ReadyNumber DEF Flag
    <3>4. Ready(idx, Len(visionClients))' = Ready(idx + 1, Len(visionClients))
      BY <1>0, <2>0, <3>1 DEF Ready
    <3>5. numCams' <= records' + Cardinality(Ready(idx, Len(visionClients))')
      BY <1>0, <2>0, <3>1, <3>2, <3>3, <3>4
    <3> QED
      BY <1>0, <2>0, <2>1, <3>1, <3>5 DEF Counted, AnnouncedIsHeld
  <2>2. CASE ~(idx <= Len(visionClients))
    <3>1. records' = records /\ mpc' = "send"
      BY <1>4, <2>0, <2>2 DEF WriteRecords
    <3>2. Ready(idx, Len(visionClients)) = {}
      BY <1>0, <2>2 DEF Ready
    <3>3. numCams <= records
      BY <1>0, <2>0, <3>2, FS_EmptySet
    <3> QED
      BY <2>0, <3>1, <3>3 DEF Counted, AnnouncedIsHeld
  <2> QED
    BY <2>1, <2>2
<1>5. CASE SendGreeting
  <2>1. mpc = "send" /\ numCams <= records /\ mpc' = "poll"
    BY <1>5 DEF SendGreeting, Counted
  <2>2. \/ greeting' = greeting
        \/ greeting' = [greeting EXCEPT ![mpeer] = [announced |-> numCams, held |-> records]]
    BY <1>5 DEF SendGreeting
  <2>3. ASSUME NEW q \in DataPeers
        PROVE  (greeting[q].announced <= greeting[q].held)'
    BY <1>0, <2>1, <2>2 DEF Counted, AnnouncedIsHeld
  <2> QED
    BY <2>1, <2>3 DEF Counted, AnnouncedIsHeld
<1> QED
  BY <1>1, <1>2, <1>3, <1>4, <1>5 DEF MainStep

(* Any step keeps the count. *)
LEMMA CountKept ==
  ASSUME ServerInv, ServerInv', Counted, [Next]_vars
  PROVE  Counted'
<1>0. initialized \in [VisionPeers -> BOOLEAN]
  BY DEF ServerInv, Typed, TypeOK
<1>1. CASE MainStep
  BY <1>1, MainCounts
<1>2. CASE PeerStep
  BY <1>2, OthersKeepCount
     DEF PeerStep, VisionConnects, VisionCloses, DataConnects, DataCloses, DataStalls,
         DataResumes, clientVars, histVars
<1>3. ASSUME NEW p \in VisionPeers, ClientStep(p) PROVE Counted'
  BY <1>0, <1>3, OthersKeepCount
     DEF ClientStep, ClientInit, ReadFails, Deregister, clientVars, histVars
<1>4. CASE Publish \/ DataStep
  <2>1. UNCHANGED <<mainVars, greeting, clientVars>>
    BY <1>4 DEF Publish, DataStep, PopFrame, LockDataClients, SendFrame, EraseDataClient,
                SkipUninitialized, EndRound, vars, histVars
  <2> QED
    BY <2>1, OthersKeepCount DEF clientVars
<1>5. CASE UNCHANGED vars
  BY <1>5, OthersKeepCount DEF vars, mainVars, clientVars, histVars
<1> QED
  BY <1>1, <1>2, <1>3, <1>4, <1>5 DEF Next, Quiescent

(* The greeting a data client receives never announces more cameras than   *)
(* it holds records of, however many clients become ready between the two  *)
(* passes of init_data_client.                                             *)
THEOREM GreetingIsComplete == SafeSpec => []AnnouncedIsHeld
<1>1. Init => Counted
  BY DEF Init, Counted, AnnouncedIsHeld
<1>2. SafeSpec => []ServerInv
  BY InitServer, StepKeeps, PTL DEF SafeSpec
<1>3. ServerInv /\ ServerInv' /\ Counted /\ [Next]_vars => Counted'
  BY CountKept
<1>4. Counted => AnnouncedIsHeld
  BY DEF Counted
<1> QED
  BY <1>1, <1>2, <1>3, <1>4, PTL DEF SafeSpec
-----------------------------------------------------------------------------
(* The frames.  Frames are numbered as they are published, and popped in   *)
(* this order.                                                             *)
Numbered ==
    /\ \A i \in 1 .. Len(published) : published[i] = i
    /\ Len(taken) <= Len(published)
    /\ \A i \in 1 .. Len(taken) : taken[i] = i

(* A data peer that has not been accepted, or that the main thread is      *)
(* about to greet, is not in the list and was not sent anything.           *)
Fresh(q) == dpeer[q] \in {"off", "backlog", "hungup"}
Greeted  == IF mpc \in {"lock", "count", "write", "send"} THEN {mpeer} ELSE {}

NewPeers ==
    /\ \A q \in DataPeers : Fresh(q) \/ q \in Greeted =>
          received[q] = <<>> /\ \A i \in 1 .. Len(dataClients) : dataClients[i].peer # q
    /\ \A q \in Greeted : ~Fresh(q)

(* So nobody is in the list twice, *)
Once == \A i, j \in 1 .. Len(dataClients) : dataClients[i].peer = dataClients[j].peer => i = j

(* what a peer was sent is consecutive, and it ends with the frame before  *)
(* that of the round, or with that of the round for those in front of the  *)
(* iterator.  FramesAreConsecutive alone is not inductive: it says nothing *)
(* of the middle of a round.                                               *)
Consecutive ==
    \A q \in DataPeers : \A i \in 1 .. Len(received[q]) - 1 : received[q][i + 1] = received[q][i] + 1

Served(i) == dpc = "pop" \/ (dpc = "send" /\ i < didx)

UpToDate ==
    \A i \in 1 .. Len(dataClients) :
        LET frames == received[dataClients[i].peer]
        IN  frames # <<>> => frames[Len(frames)] = IF Served(i) THEN Len(taken) ELSE Len(taken) - 1

FrameInv == Numbered /\ NewPeers /\ Once /\ Consecutive /\ UpToDate

(* What the types say of them.                                             *)
LEMMA FrameTypes ==
  ASSUME ServerInv
  PROVE  /\ published \in Seq(Frames) /\ Len(published) \in Nat
         /\ taken \in Seq(Frames) /\ Len(taken) \in Nat
         /\ dataClients \in Seq(DataClients) /\ Len(dataClients) \in Nat /\ didx \in Nat \ {0}
         /\ received \in [DataPeers -> Seq(Frames)]
         /\ \A q \in DataPeers : received[q] \in Seq(Frames) /\ Len(received[q]) \in Nat
         /\ \A i \in 1 .. Len(dataClients) : dataClients[i].peer \in DataPeers
<1>1. /\ published \in Seq(Frames) /\ taken \in Seq(Frames) /\ dataClients \in Seq(DataClients)
      /\ received \in [DataPeers -> Seq(Frames)] /\ didx \in Nat \ {0}
  BY DEF ServerInv, Typed, TypeOK
<1>2. \A q \in DataPeers : received[q] \in Seq(Frames) /\ Len(received[q]) \in Nat
  BY <1>1
<1>3. ASSUME NEW i \in 1 .. Len(dataClients) PROVE dataClients[i].peer \in DataPeers
  <2>1. dataClients[i] \in DataClients
    BY <1>1
  <2> QED
    BY <2>1 DEF DataClients
<1> QED
  BY <1>1, <1>2, <1>3

(* Steps that leave the queue, the list and the data thread alone.         *)
LEMMA FramesKept ==
  ASSUME FrameInv,
         UNCHANGED <<published, taken, dataClients, dpc, didx, received>>,
         \A q \in DataPeers : Fresh(q)' \/ q \in Greeted' => Fresh(q) \/ q \in Greeted,
         \A q \in Greeted' : ~Fresh(q)'
  PROVE  FrameInv'
<1>1. Numbered' /\ Once' /\ Consecutive'
  BY DEF FrameInv, Numbered, Once, Consecutive
<1>2. NewPeers'
  BY DEF FrameInv, NewPeers
<1>3. UpToDate'
  BY DEF FrameInv, UpToDate, Served
<1> QED
  BY <1>1, <1>2, <1>3 DEF FrameInv

(* A peer that was accepted once is not accepted again.                    *)
LEMMA PeersAge ==
  ASSUME ServerInv, FrameInv, PeerStep
  PROVE  FrameInv'
<1>1. UNCHANGED <<mpc, mpeer, published, taken, dataClients, dpc, didx, received>>
  BY DEF PeerStep, mainVars, dataVars, queueVars, histVars
<1>2. ASSUME NEW q \in DataPeers, Fresh(q)' PROVE Fresh(q)
  BY <1>2 DEF PeerStep, DataConnects, DataCloses, DataStalls, DataResumes, Fresh, ServerInv, Typed,
              TypeOK
<1>3. Greeted' = Greeted /\ Greeted \subseteq DataPeers
  BY <1>1 DEF Greeted, ServerInv, Typed
<1> QED
  BY <1>1, <1>2, <1>3, FramesKept DEF FrameInv, NewPeers

(* The main thread takes on one that is new. *)
LEMMA MainTakesOn ==
  ASSUME ServerInv, FrameInv, MainStep, ~SendGreeting
  PROVE  FrameInv'
<1>1. UNCHANGED <<published, taken, dataClients, dpc, didx, received>>
  BY DEF MainStep, RejectVision, AcceptVision, AcceptData, Register, LockClients, CountCameras,
         WriteRecords, dataVars, queueVars, histVars
<1>2. ASSUME NEW q \in DataPeers, AcceptData(q) PROVE FrameInv'
  <2>1. /\ Fresh(q) /\ Greeted' = {q} /\ ~Fresh(q)'
        /\ \A r \in DataPeers : Fresh(r)' => Fresh(r)
    BY <1>2 DEF AcceptData, PendingData, Accepted, Fresh, Greeted, ServerInv, Typed, TypeOK
  <2> QED
    BY <1>1, <2>1, FramesKept
<1>3. CASE ~\E q \in DataPeers : AcceptData(q)
  <2>1. Greeted' = Greeted /\ UNCHANGED dpeer
    BY <1>3 DEF MainStep, RejectVision, AcceptVision, Register, LockClients, CountCameras,
                WriteRecords, netVars, mainVars, Greeted
  <2>2. \A q \in DataPeers : Fresh(q)' <=> Fresh(q)
    BY <2>1 DEF Fresh
  <2>3. Greeted \subseteq DataPeers
    BY DEF Greeted, ServerInv, Typed
  <2> QED
    BY <1>1, <2>1, <2>2, <2>3, FramesKept DEF FrameInv, NewPeers
<1> QED
  BY <1>2, <1>3

(* The client that has been greeted is new in the list.                    *)
LEMMA GreetingKeeps ==
  ASSUME ServerInv, FrameInv, SendGreeting
  PROVE  FrameInv'
<1>1. /\ mpc = "send" /\ mpc' = "poll" /\ mpeer \in DataPeers /\ mpeer \in Greeted /\ Greeted' = {}
      /\ UNCHANGED <<dpeer, published, taken, dpc, didx, received>>
  BY DEF SendGreeting, netVars, queueVars, Greeted, ServerInv, Typed
<1>2. PICK b \in BOOLEAN : dataClients' = Append(dataClients, [peer |-> mpeer, initialized |-> b])
  BY DEF SendGreeting
<1>3. PICK n \in Nat : n = Len(dataClients)
  BY FrameTypes
<1>4. [peer |-> mpeer, initialized |-> b] \in DataClients
  BY <1>1 DEF DataClients
<1>5. /\ Len(dataClients') = n + 1 /\ dataClients'[n + 1].peer = mpeer
      /\ \A i \in 1 .. n : dataClients'[i] = dataClients[i]
  BY <1>2, <1>3, <1>4, FrameTypes, Appended
<1>6. \A i \in 1 .. n + 1 : i \in 1 .. n \/ i = n + 1
  OBVIOUS
<1>7. received[mpeer] = <<>> /\ \A i \in 1 .. n : dataClients[i].peer # mpeer
  BY <1>1, <1>3 DEF FrameInv, NewPeers
<1>8. Numbered' /\ Consecutive'
  BY <1>1 DEF FrameInv, Numbered, Consecutive
<1>9. NewPeers'
  <2>1. ASSUME NEW q \in DataPeers, Fresh(q)'
        PROVE  received'[q] = <<>> /\ \A i \in 1 .. n + 1 : dataClients'[i].peer # q
    <3>1. Fresh(q)
      BY <1>1, <2>1 DEF Fresh
    <3>2. q # mpeer
      BY <1>1, <3>1 DEF FrameInv, NewPeers
    <3>3. received[q] = <<>> /\ \A i \in 1 .. n : dataClients[i].peer # q
      BY <1>3, <3>1 DEF FrameInv, NewPeers
    <3> QED
      BY <1>1, <1>5, <1>6, <3>2, <3>3
  <2> QED
    BY <1>1, <1>5, <2>1 DEF NewPeers
<1>10. Once'
  <2>1. \A i, j \in 1 .. n : dataClients[i].peer = dataClients[j].peer => i = j
    BY <1>3 DEF FrameInv, Once
  <2> QED
    BY <1>5, <1>6, <1>7, <2>1 DEF Once
<1>11. UpToDate'
  <2>1. ASSUME NEW i \in 1 .. n + 1, received'[dataClients'[i].peer] # <<>>
        PROVE  i \in 1 .. n /\ dataClients'[i] = dataClients[i]
    BY <1>1, <1>5, <1>6, <1>7, <2>1
  <2> QED
    BY <1>1, <1>3, <1>5, <2>1 DEF FrameInv, UpToDate, Served
<1> QED
  BY <1>8, <1>9, <1>10, <1>11 DEF FrameInv

(* Frames get the next number. *)
LEMMA PublishKeeps ==
  ASSUME ServerInv, FrameInv, Publish
  PROVE  FrameInv'
<1>1. /\ published' = Append(published, Len(published) + 1) /\ Len(published) < MaxFrames
      /\ UNCHANGED <<dpeer, mpc, mpeer, taken, dataClients, dpc, didx, received>>
  BY DEF Publish, Results!Send, netVars, mainVars, dataVars, histVars
<1>2. PICK n \in Nat : n = Len(published)
  BY FrameTypes
<1>3. n + 1 \in Frames
  BY <1>1, <1>2, ServerAssumption DEF Frames
<1>4. /\ Len(published') = n + 1 /\ published'[n + 1] = n + 1
      /\ \A i \in 1 .. n : published'[i] = published[i]
  BY <1>1, <1>2, <1>3, FrameTypes, Appended
<1>5. Numbered'
  <2>1. \A i \in 1 .. n + 1 : i \in 1 .. n \/ i = n + 1
    OBVIOUS
  <2>2. Len(taken) <= n + 1
    BY <1>2, FrameTypes DEF FrameInv, Numbered
  <2>3. \A i \in 1 .. n + 1 : published'[i] = i
    BY <1>2, <1>4, <2>1 DEF FrameInv, Numbered
  <2> QED
    BY <1>1, <1>4, <2>2, <2>3 DEF FrameInv, Numbered
<1>6. NewPeers' /\ Once' /\ Consecutive' /\ UpToDate'
  BY <1>1 DEF FrameInv, NewPeers, Once, Consecutive, UpToDate, Fresh, Greeted, Served
<1> QED
  BY <1>5, <1>6 DEF FrameInv

(* The frame popped is the next one: everybody in the list lacks it.       *)
LEMMA PopKeeps ==
  ASSUME ServerInv, FrameInv, PopFrame
  PROVE  FrameInv'
<1>1. /\ dpc = "pop" /\ dpc' = "lock" /\ Len(taken) < Len(published)
      /\ taken' = Append(taken, published[Len(taken) + 1])
      /\ UNCHANGED <<dpeer, mpc, mpeer, published, dataClients, didx, received>>
  BY DEF PopFrame, Results!Take, netVars, mainVars, histVars
<1>2. PICK n \in Nat : n = Len(taken)
  BY FrameTypes
<1>3. n + 1 \in 1 .. Len(published) /\ n + 1 <= Len(published)
  BY <1>1, <1>2, FrameTypes
<1>4. published[n + 1] = n + 1 /\ published[n + 1] \in Frames
  BY <1>3, FrameTypes DEF FrameInv, Numbered
<1>5. /\ Len(taken') = n + 1 /\ taken'[n + 1] = n + 1
      /\ \A i \in 1 .. n : taken'[i] = taken[i]
  BY <1>1, <1>2, <1>4, FrameTypes, Appended
<1>6. Numbered'
  <2>1. \A i \in 1 .. n + 1 : i \in 1 .. n \/ i = n + 1
    OBVIOUS
  <2>2. \A i \in 1 .. n + 1 : taken'[i] = i
    BY <1>2, <1>5, <2>1 DEF FrameInv, Numbered
  <2> QED
    BY <1>1, <1>3, <1>5, <2>2 DEF FrameInv, Numbered
<1>7. NewPeers' /\ Once' /\ Consecutive'
  BY <1>1 DEF FrameInv, NewPeers, Once, Consecutive, Fresh, Greeted
<1>8. UpToDate'
  <2>1. \A i : Served(i) /\ ~Served(i)'
    BY <1>1 DEF Served
  <2>2. n = Len(taken') - 1
    BY <1>5
  <2> QED
    BY <1>1, <1>2, <2>1, <2>2 DEF FrameInv, UpToDate
<1> QED
  BY <1>6, <1>7, <1>8 DEF FrameInv

(* At the start of a round nobody has been served, at its end everybody.   *)
LEMMA RoundKeeps ==
  ASSUME ServerInv, FrameInv, LockDataClients \/ EndRound
  PROVE  FrameInv'
<1>1. UNCHANGED <<dpeer, mpc, mpeer, published, taken, dataClients, received>>
  BY DEF LockDataClients, EndRound, netVars, mainVars, queueVars, histVars
<1>2. \A i \in 1 .. Len(dataClients) : Served(i)' = Served(i)
  <2>1. \A i \in 1 .. Len(dataClients) : i \in Nat /\ i <= Len(dataClients) /\ ~(i < 1)
    BY FrameTypes
  <2>2. CASE LockDataClients
    BY <2>1, <2>2 DEF LockDataClients, Served
  <2>3. CASE EndRound
    <3>1. dpc = "send" /\ dpc' = "pop" /\ didx > Len(dataClients)
      BY <2>3 DEF EndRound
    <3>2. \A i \in 1 .. Len(dataClients) : i < didx
      BY <3>1, FrameTypes
    <3> QED
      BY <3>1, <3>2 DEF Served
  <2> QED
    BY <2>2, <2>3
<1>3. Numbered' /\ NewPeers' /\ Once' /\ Consecutive'
  BY <1>1 DEF FrameInv, Numbered, NewPeers, Once, Consecutive, Fresh, Greeted
<1>4. UpToDate'
  BY <1>1, <1>2 DEF FrameInv, UpToDate
<1> QED
  BY <1>3, <1>4 DEF FrameInv

(* The frame sent is the one after the last that this peer was sent.       *)
LEMMA SendKeeps ==
  ASSUME ServerInv, FrameInv, SendFrame
  PROVE  FrameInv'
<1>1. /\ dpc = "send" /\ didx <= Len(dataClients) /\ didx' = didx + 1
      /\ SendSucceeds(dataClients[didx].peer)
      /\ received' = [received EXCEPT ![dataClients[didx].peer] = Append(@, Last(taken))]
      /\ UNCHANGED <<dpeer, mpc, mpeer, published, taken, dpc, dataClients>>
  BY DEF SendFrame, AtClient, netVars, mainVars, queueVars
<1>2. PICK p : p = dataClients[didx].peer
  OBVIOUS
<1>3. PICK n \in Nat : n = Len(taken)
  BY FrameTypes
<1>4. PICK k \in Nat : k = Len(received[p])
  BY <1>1, <1>2, FrameTypes
<1>5. didx \in 1 .. Len(dataClients) /\ p \in DataPeers /\ received[p] \in Seq(Frames)
  BY <1>1, <1>2, FrameTypes
<1>6. Last(taken) = n /\ n \in Frames
  <2>1. taken # <<>>
    BY <1>1 DEF ServerInv, Typed
  <2>2. n # 0 /\ n \in 1 .. Len(taken)
    BY <1>3, <2>1, FrameTypes
  <2>3. taken[n] = n
    BY <2>2 DEF FrameInv, Numbered
  <2> QED
    BY <1>3, <2>2, <2>3, FrameTypes DEF Last
<1>7. /\ received'[p] = Append(received[p], n)
      /\ \A q \in DataPeers : q # p => received'[q] = received[q]
  BY <1>1, <1>2, <1>5, <1>6, FrameTypes
<1>8. /\ Len(received'[p]) = k + 1 /\ received'[p][k + 1] = n
      /\ \A i \in 1 .. k : received'[p][i] = received[p][i]
  BY <1>4, <1>5, <1>6, <1>7, Appended
<1>9. Numbered' /\ Once'
  BY <1>1 DEF FrameInv, Numbered, Once
<1>10. NewPeers'
  <2>1. ~Fresh(p) /\ p \notin Greeted
    BY <1>2, <1>5 DEF FrameInv, NewPeers
  <2> QED
    BY <1>1, <1>7, <2>1 DEF FrameInv, NewPeers, Fresh, Greeted
<1>11. k > 0 => received[p][k] = n - 1
  <2>1. ~Served(didx)
    BY <1>1, FrameTypes DEF Served
  <2>2. received[p] # <<>> => received[p][Len(received[p])] = Len(taken) - 1
    BY <1>2, <1>5, <2>1 DEF FrameInv, UpToDate
  <2> QED
    BY <1>3, <1>4, <1>5, <2>2
<1>12. Consecutive'
  <2>1. ASSUME NEW i \in 1 .. k PROVE received'[p][i + 1] = received'[p][i] + 1
    <3>1. CASE i = k
      <4>1. received'[p][i + 1] = n /\ received'[p][i] = n - 1
        BY <1>8, <1>11, <2>1, <3>1
      <4> QED
        BY <4>1
    <3>2. CASE i # k
      <4>1. i \in 1 .. k - 1 /\ i + 1 \in 1 .. k
        BY <3>2
      <4>2. received[p][i + 1] = received[p][i] + 1
        BY <1>4, <1>5, <4>1 DEF FrameInv, Consecutive
      <4> QED
        BY <1>8, <4>1, <4>2
    <3> QED
      BY <3>1, <3>2
  <2>2. \A i \in 1 .. Len(received'[p]) - 1 : received'[p][i + 1] = received'[p][i] + 1
    BY <1>8, <2>1
  <2>3. ASSUME NEW q \in DataPeers, q # p
        PROVE  \A i \in 1 .. Len(received'[q]) - 1 : received'[q][i + 1] = received'[q][i] + 1
    BY <1>7, <2>3 DEF FrameInv, Consecutive
  <2> QED
    BY <2>2, <2>3 DEF Consecutive
<1>13. UpToDate'
  <2>1. ASSUME NEW i \in 1 .. Len(dataClients), i # didx
        PROVE  /\ dataClients[i].peer # p /\ dataClients[i].peer \in DataPeers
               /\ Served(i)' = Served(i)
    <3>1. i < didx + 1 <=> i < didx
      BY <2>1, FrameTypes
    <3> QED
      BY <1>1, <1>2, <1>5, <2>1, <3>1, FrameTypes DEF FrameInv, Once, Served
  <2>2. ASSUME NEW i \in 1 .. Len(dataClients), i = didx PROVE Served(i)'
    <3>1. i < didx + 1
      BY <2>2, FrameTypes
    <3> QED
      BY <1>1, <3>1 DEF Served
  <2>3. ASSUME NEW i \in 1 .. Len(dataClients), received'[dataClients[i].peer] # <<>>
        PROVE  LET frames == received'[dataClients[i].peer]
               IN  frames[Len(frames)] = IF Served(i)' THEN Len(taken) ELSE Len(taken) - 1
    <3>1. CASE i = didx
      <4>1. dataClients[i].peer = p /\ Served(i)'
        BY <1>2, <2>2, <3>1
      <4>2. received'[p][Len(received'[p])] = Len(taken)
        BY <1>3, <1>8
      <4> QED
        BY <4>1, <4>2
    <3>2. CASE i # didx
      BY <1>7, <2>1, <2>3, <3>2 DEF FrameInv, UpToDate
    <3> QED
      BY <3>1, <3>2
  <2> QED
    BY <1>1, <2>3 DEF UpToDate
<1> QED
  BY <1>9, <1>10, <1>12, <1>13 DEF FrameInv

(* When a client is erased, those behind it move up to the iterator.       *)
LEMMA EraseKeeps ==
  ASSUME ServerInv, FrameInv, EraseDataClient
  PROVE  FrameInv'
<1>1. /\ dpc = "send" /\ didx <= Len(dataClients) /\ dataClients' = RemoveAt(dataClients, didx)
      /\ UNCHANGED <<dpeer, mpc, mpeer, published, taken, dpc, didx, received>>
  BY DEF EraseDataClient, AtClient, netVars, mainVars, queueVars, histVars
<1>2. PICK n \in Nat : n = Len(dataClients)
  BY FrameTypes
<1>3. didx \in 1 .. n /\ didx \in Nat
  BY <1>1, <1>2, FrameTypes
<1>4. /\ Len(dataClients') = n - 1
      /\ \A i \in 1 .. didx - 1 : dataClients'[i] = dataClients[i]
      /\ \A i \in didx .. n - 1 : dataClients'[i] = dataClients[i + 1]
  BY <1>1, <1>2, <1>3, FrameTypes, RemovedAt
(* Where the client at i was before. *)
<1> DEFINE was(i) == IF i < didx THEN i ELSE i + 1
<1>5. ASSUME NEW i \in 1 .. n - 1
      PROVE  was(i) \in 1 .. n /\ dataClients'[i] = dataClients[was(i)] /\ Served(was(i)) = Served(i)'
  <2>1. CASE i < didx
    <3>1. i \in 1 .. didx - 1 /\ i \in 1 .. n
      BY <1>3, <2>1
    <3> QED
      BY <1>1, <1>4, <2>1, <3>1 DEF Served
  <2>2. CASE ~(i < didx)
    <3>1. i \in didx .. n - 1 /\ i + 1 \in 1 .. n /\ ~(i + 1 < didx)
      BY <1>3, <2>2
    <3> QED
      BY <1>1, <1>4, <2>2, <3>1 DEF Served
  <2> QED
    BY <2>1, <2>2
<1>6. \A i, j \in 1 .. n - 1 : was(i) = was(j) => i = j
  BY <1>3
<1> HIDE DEF was
<1>7. Numbered' /\ Consecutive'
  BY <1>1 DEF FrameInv, Numbered, Consecutive
<1>8. NewPeers'
  BY <1>1, <1>2, <1>4, <1>5 DEF FrameInv, NewPeers, Fresh, Greeted
<1>9. Once'
  BY <1>2, <1>4, <1>5, <1>6 DEF FrameInv, Once
<1>10. ASSUME NEW i \in 1 .. n - 1
       PROVE  LET frames == received'[dataClients'[i].peer]
              IN  frames # <<>> => frames[Len(frames)] = IF Served(i)' THEN Len(taken) ELSE Len(taken) - 1
  <2>1. PICK k \in 1 .. n : dataClients'[i] = dataClients[k] /\ Served(k) = Served(i)'
    BY <1>5
  <2> QED
    BY <1>1, <1>2, <2>1 DEF FrameInv, UpToDate
<1>11. UpToDate'
  BY <1>1, <1>2, <1>4, <1>10 DEF UpToDate
<1> QED
  BY <1>7, <1>8, <1>9, <1>11 DEF FrameInv

(* Nothing has been published at the start. *)
LEMMA InitFrames == Init => FrameInv
<1> SUFFICES ASSUME Init PROVE FrameInv
  OBVIOUS
<1>1. /\ published = <<>> /\ taken = <<>> /\ dataClients = <<>> /\ mpc = "poll"
      /\ \A q \in DataPeers : received[q] = <<>>
  BY DEF Init, Results!Init
<1>2. Greeted = {} /\ Len(<<>>) = 0
  BY <1>1 DEF Greeted
<1>3. 1 .. 0 = {} /\ 1 .. 0 - 1 = {} /\ 0 <= 0
  OBVIOUS
<1> QED
  BY <1>1, <1>2, <1>3 DEF FrameInv, Numbered, NewPeers, Once, Consecutive, UpToDate

(* Any step of any thread. *)
LEMMA FramesStep ==
  ASSUME ServerInv, FrameInv, [Next]_vars
  PROVE  FrameInv'
<1>1. ASSUME UNCHANGED <<dpeer, mpc, mpeer, published, taken, dataClients, dpc, didx, received>>
      PROVE  FrameInv'
  BY <1>1 DEF FrameInv, Numbered, NewPeers, Once, Consecutive, UpToDate, Fresh, Greeted, Served
<1>2. CASE UNCHANGED vars \/ SkipUninitialized
  BY <1>1, <1>2 DEF SkipUninitialized, vars, netVars, mainVars, dataVars, queueVars, histVars
<1>3. ASSUME NEW p \in VisionPeers, ClientStep(p) PROVE FrameInv'
  BY <1>1, <1>3 DEF ClientStep, ClientInit, ReadFails, Deregister, netVars, mainVars, dataVars,
                    queueVars, histVars
<1> QED
  BY <1>2, <1>3, PeersAge, MainTakesOn, GreetingKeeps, PublishKeeps, PopKeeps, RoundKeeps,
     SendKeeps, EraseKeeps DEF Next, DataStep

(* Every data client is sent consecutive frames, and after each round all  *)
(* that were sent any have the latest: for any number of clients and       *)
(* frames, and wherever in the list a client is erased.                    *)
THEOREM FramesInOrder == SafeSpec => []FramesAreConsecutive
<1>1. SafeSpec => []ServerInv
  BY InitServer, StepKeeps, PTL DEF SafeSpec
<1>2. ServerInv /\ FrameInv /\ [Next]_vars => FrameInv'
  BY FramesStep
<1>3. ServerInv /\ FrameInv => FramesAreConsecutive
  <2> SUFFICES ASSUME ServerInv, FrameInv PROVE FramesAreConsecutive
    OBVIOUS
  <2>1. ASSUME dpc = "pop", NEW i \in DOMAIN dataClients, received[dataClients[i].peer] # <<>>
        PROVE  Last(received[dataClients[i].peer]) = Last(taken)
    <3>1. PICK r, n, k : r = received[dataClients[i].peer] /\ n = Len(taken) /\ k = Len(r)
      OBVIOUS
    <3>2. i \in 1 .. Len(dataClients) /\ r \in Seq(Frames) /\ n \in Nat /\ k \in Nat
      <4>1. i \in 1 .. Len(dataClients) /\ n \in Nat
        BY <3>1, FrameTypes
      <4>2. r \in Seq(Frames)
        BY <3>1, <4>1, FrameTypes
      <4> QED
        BY <3>1, <4>1, <4>2
    <3>3. r[k] = n
      BY <2>1, <3>1, <3>2 DEF FrameInv, UpToDate, Served
    <3>4. k \in 1 .. Len(r)
      BY <2>1, <3>1, <3>2
    <3>5. n \in Frames
      BY <3>2, <3>3, <3>4
    <3>6. n \in 1 .. n /\ n # 0
      BY <3>5 DEF Frames
    <3>7. taken[n] = n
      BY <3>1, <3>6 DEF FrameInv, Numbered
    <3> QED
      BY <3>1, <3>3, <3>7 DEF Last
  <2> QED
    BY <2>1 DEF FrameInv, Consecutive, FramesAreConsecutive
<1> QED
  BY <1>1, <1>2, <1>3, InitFrames, PTL DEF SafeSpec
=============================================================================
