------------------------- MODULE DataManagerProofs -------------------------
(***************************************************************************)
(* Proofs about DataManager, for any clients, markers and bounds.          *)
(*                                                                         *)
(* First the threads: which mutexes they hold, and that no thread uses a   *)
(* source that has been erased.  Then the search: sorting, merging and     *)
(* picking out a match neither lose a match nor use one twice.  Then the   *)
(* two together: where every ray is, whatever the threads do.  Last, what  *)
(* the search computes: the erasing loop of mergeMatches groups by first   *)
(* fit, and getResults reports the oldest match that is complete.          *)
(***************************************************************************)
EXTENDS DataManager, SequenceLemmas, FiniteSetTheorems

(* A client's id is neither of the two other values of `mutex', nor the    *)
(* start value of `cur'.                                                   *)
LEMMA Holders == /\ Server \notin Clients /\ Free \notin Clients /\ Server # Free
                 /\ \A c \in Clients : c \in Nat /\ c > -1
BY DataAssumption DEF Server, Free

(* A source starts with empty deques. *)
LEMMA NewSourceType == NewSource \in Sources /\ NewSource.dead = FALSE
BY EmptySeq DEF NewSource, Sources

(* Marking a source dead or alive, or pushing a ray, leaves it a source.   *)
LEMMA MarkType ==
  ASSUME NEW s \in Sources, NEW b \in BOOLEAN
  PROVE  LET t == [s EXCEPT !.dead = b] IN t \in Sources /\ t.dead = b
BY DEF Sources

(* A source with its deques replaced is a source.                          *)
LEMMA ClearType ==
  ASSUME NEW s \in Sources, NEW queues \in [Markers -> Seq(Rays)]
  PROVE  LET t == [s EXCEPT !.rays = queues] IN t \in Sources /\ t.dead = s.dead
BY DEF Sources

(* A source with a ray appended to a deque is a source, and alive.         *)
LEMMA PushType ==
  ASSUME NEW s \in Sources, NEW r \in Rays
  PROVE  LET t == [s EXCEPT !.dead = FALSE, !.rays[r.marker] = Append(@, r)]
         IN  t \in Sources /\ t.dead = FALSE
<1>1. r.marker \in Markers /\ s.rays \in [Markers -> Seq(Rays)]
  BY DEF Sources, Rays
<1>2. Append(s.rays[r.marker], r) \in Seq(Rays)
  BY <1>1, AppendProperties
<1>3. [s.rays EXCEPT ![r.marker] = Append(@, r)] \in [Markers -> Seq(Rays)]
  BY <1>1, <1>2
<1> QED
  BY <1>3 DEF Sources

(* The rays accepted are finitely many, so that their number is a number.  *)
FinitelyMany == IsFiniteSet(added)

(* Only finitely many rays have been sent.                                 *)
LEMMA Finite == SafeSpec => []FinitelyMany
<1>1. Init => FinitelyMany
  BY FS_EmptySet DEF Init, FinitelyMany
<1>2. FinitelyMany /\ [Next]_vars => FinitelyMany'
  <2> SUFFICES ASSUME FinitelyMany, [Next]_vars PROVE FinitelyMany'
    OBVIOUS
  <2>1. ASSUME NEW c \in Clients, ClientStep(c)
        PROVE  added' = added \/ added' = added \cup {ray[c]}
    BY <2>1 DEF ClientStep, NewRay, AddRayLock, AddRayLookup, AddRayPush, Disconnect,
                RemoveClient, RemoveClientRaced
  <2>2. CASE UNCHANGED added
    BY <2>2 DEF FinitelyMany
  <2>3. CASE \E c \in Clients : added' = added \cup {ray[c]}
    BY <2>3, FS_AddElement DEF FinitelyMany
  <2> QED
    BY <2>1, <2>2, <2>3 DEF Next, ServerStep, Tick, Crashed, vars
<1> QED
  BY <1>1, <1>2, PTL DEF SafeSpec

(* Looking a client up leaves the map well typed and only adds an entry.   *)
LEMMA WithEntryType ==
  ASSUME NEW c \in Clients, ThreadTypeOK
  PROVE  /\ DOMAIN WithEntry(c) = (DOMAIN data) \cup {c}
         /\ WithEntry(c) \in [(DOMAIN data) \cup {c} -> Sources]
         /\ \A d \in DOMAIN data : WithEntry(c)[d] = data[d]
         /\ c \notin DOMAIN data => WithEntry(c)[c] = NewSource
BY NewSourceType DEF WithEntry, ThreadTypeOK

(* The invariant holds before any thread has moved. *)
LEMMA InitThreads == Init => ThreadInv
BY Holders DEF Init, ThreadInv, ThreadTypeOK, MutexHeld, NoDanglingSource, DeadIsGone,
               LockedAhead, HoldsRay, Server, Free

-----------------------------------------------------------------------------
(* The steps of a client thread preserve the invariant. *)
LEMMA ClientKeepsThreads ==
  ASSUME NEW c \in Clients, ThreadInv, FinitelyMany, ClientStep(c)
  PROVE  ThreadInv'
<1> USE DEF ThreadInv
<1>1. CASE NewRay(c)
  <2>1. PICK r \in Rays : ray' = [ray EXCEPT ![c] = r]
    <3>1. Cardinality({r \in added : r.client = c}) \in Nat
      BY FS_Subset, FS_CardinalityType DEF FinitelyMany
    <3> DEFINE n == Cardinality({r \in added : r.client = c})
    <3>2. PICK m \in Markers, t \in now - MaxLag .. now, f \in 0 .. n :
             /\ t >= 0
             /\ ray' = [ray EXCEPT ![c] =
                  [client |-> c, id |-> f, nr |-> n, marker |-> m, time |-> t]]
      BY <1>1 DEF NewRay
    <3>3. t \in Nat /\ f \in Nat /\ n \in Nat
      BY <3>1, <3>2
    <3> QED
      BY <3>1, <3>2, <3>3 DEF Rays
  <2>2. /\ cpc[c] = "running"
        /\ cpc' = [cpc EXCEPT ![c] = "lookup"]
        /\ UNCHANGED <<mutex, data, locked, spc, cur>>
    BY <1>1 DEF NewRay
  <2>3. ThreadTypeOK'
    BY <2>1, <2>2 DEF ThreadTypeOK
  <2>4. MutexHeld' /\ NoDanglingSource'
    BY <2>2 DEF ThreadTypeOK, MutexHeld, NoDanglingSource
  <2>5. DeadIsGone' /\ LockedAhead' /\ HoldsRay'
    BY <2>1, <2>2 DEF ThreadTypeOK, DeadIsGone, LockedAhead, HoldsRay
  <2> QED
    BY <2>3, <2>4, <2>5
<1>2. CASE AddRayLock(c)
  BY <1>2, Holders DEF AddRayLock, ThreadTypeOK, MutexHeld, NoDanglingSource, DeadIsGone,
                       LockedAhead, HoldsRay
<1>3. CASE AddRayLookup(c)
  <2>1. /\ cpc[c] = "inserting"
        /\ data' = WithEntry(c)
        /\ mutex' = Free
        /\ cpc' = [cpc EXCEPT ![c] = "pushing"]
        /\ UNCHANGED <<locked, spc, cur, ray>>
    BY <1>3 DEF AddRayLookup
  <2>2. DOMAIN data' = (DOMAIN data) \cup {c}
    BY <2>1, WithEntryType
  <2>3. ThreadTypeOK'
    BY <2>1, <2>2, WithEntryType DEF ThreadTypeOK
  <2>4. MutexHeld' /\ NoDanglingSource' /\ LockedAhead'
    BY <2>1, <2>2, Holders DEF ThreadTypeOK, MutexHeld, NoDanglingSource, LockedAhead
  <2>5. ASSUME NEW d \in DOMAIN data', data'[d].dead PROVE cpc'[d] = "gone"
    <3>1. CASE d \in DOMAIN data
      BY <2>1, <2>5, <3>1, WithEntryType DEF ThreadTypeOK, DeadIsGone
    <3>2. CASE d \notin DOMAIN data
      BY <2>1, <2>2, <2>5, <3>2, WithEntryType, NewSourceType
    <3> QED
      BY <3>1, <3>2
  <2>6. HoldsRay'
    BY <2>1 DEF ThreadTypeOK, HoldsRay
  <2> QED
    BY <2>3, <2>4, <2>5, <2>6 DEF DeadIsGone
<1>4. CASE AddRayPush(c)
  <2>1. /\ cpc[c] = "pushing" /\ c \in DOMAIN data
        /\ cpc' = [cpc EXCEPT ![c] = "running"]
        /\ ray' = [ray EXCEPT ![c] = NoRay]
        /\ UNCHANGED <<mutex, locked, spc, cur>>
    BY <1>4 DEF AddRayPush, NoDanglingSource
  <2>2. PICK source : /\ data' = [data EXCEPT ![c] = source]
                      /\ source = [data[c] EXCEPT !.dead = FALSE,
                                     !.rays[ray[c].marker] = Append(@, ray[c])]
    BY <1>4 DEF AddRayPush
  <2>3. source \in Sources /\ source.dead = FALSE
    <3>1. data[c] \in Sources
      BY <2>1 DEF ThreadTypeOK
    <3>2. CASE ray[c] \in Rays
      BY <2>2, <3>1, <3>2, PushType
    <3> QED
      BY <2>1, <3>2 DEF HoldsRay
  <2>4. ThreadTypeOK'
    BY <2>1, <2>2, <2>3 DEF ThreadTypeOK
  <2>5. MutexHeld' /\ NoDanglingSource' /\ LockedAhead'
    BY <2>1, <2>2 DEF ThreadTypeOK, MutexHeld, NoDanglingSource, LockedAhead
  <2>6. DeadIsGone' /\ HoldsRay'
    BY <2>1, <2>2, <2>3 DEF ThreadTypeOK, DeadIsGone, HoldsRay
  <2> QED
    BY <2>4, <2>5, <2>6
<1>5. CASE Disconnect(c)
  BY <1>5, Holders DEF Disconnect, ThreadTypeOK, MutexHeld, NoDanglingSource, DeadIsGone,
                       LockedAhead, HoldsRay
<1>6. CASE RemoveClient(c)
  <2>1. /\ cpc[c] = "removing"
        /\ cpc' = [cpc EXCEPT ![c] = "gone"]
        /\ UNCHANGED <<mutex, locked, spc, cur, ray>>
    BY <1>6 DEF RemoveClient
  <2>2. data' = [WithEntry(c) EXCEPT ![c] = [WithEntry(c)[c] EXCEPT !.dead = TRUE]]
    BY <1>6 DEF RemoveClient
  <2>3. [WithEntry(c)[c] EXCEPT !.dead = TRUE] \in Sources
    <3>1. WithEntry(c)[c] \in Sources
      BY WithEntryType
    <3> QED
      BY <3>1, MarkType
  <2>4. /\ DOMAIN data' = (DOMAIN data) \cup {c}
        /\ data' \in [DOMAIN data' -> Sources]
        /\ \A d \in (DOMAIN data) \ {c} : data'[d] = data[d]
    BY <2>2, <2>3, WithEntryType
  <2>5. ThreadTypeOK'
    BY <2>1, <2>4 DEF ThreadTypeOK
  <2>6. MutexHeld' /\ NoDanglingSource' /\ LockedAhead'
    BY <2>1, <2>4 DEF ThreadTypeOK, MutexHeld, NoDanglingSource, LockedAhead
  <2>7. DeadIsGone' /\ HoldsRay'
    BY <2>1, <2>4 DEF ThreadTypeOK, DeadIsGone, HoldsRay
  <2> QED
    BY <2>5, <2>6, <2>7
<1>7. CASE RemoveClientRaced(c)
  BY <1>7, Holders DEF RemoveClientRaced, ThreadTypeOK, MutexHeld, NoDanglingSource, DeadIsGone,
                       LockedAhead, HoldsRay
<1> QED
  BY <1>1, <1>2, <1>3, <1>4, <1>5, <1>6, <1>7 DEF ClientStep

-----------------------------------------------------------------------------
(* The steps of the server thread preserve the invariant. *)
LEMMA ServerKeepsThreads ==
  ASSUME ThreadInv, ServerStep
  PROVE  ThreadInv'
<1> USE DEF ThreadInv, ThreadTypeOK, MutexHeld, NoDanglingSource, DeadIsGone, LockedAhead, HoldsRay
<1>0. UNCHANGED <<cpc, ray>>
  BY DEF ServerStep
<1>1. CASE SyncStart
  BY <1>0, <1>1, Holders DEF SyncStart
<1>2. CASE SyncMatch
  <2>1. /\ spc = "locking" /\ spc' = "unlocking" /\ cur' = -1
        /\ data' = Cleared
        /\ UNCHANGED <<mutex, locked>>
    BY <1>2 DEF SyncMatch
  <2> HIDE DEF MutexHeld, NoDanglingSource, DeadIsGone, LockedAhead, HoldsRay
  <2>2. ASSUME NEW d \in DOMAIN data
        PROVE  data'[d] \in Sources /\ data'[d].dead = data[d].dead
    <3> DEFINE queues == [m \in Markers |->
                            IF d \in DrainedSources(m) THEN <<>> ELSE data[d].rays[m]]
    <3>1. data[d] \in Sources
      OBVIOUS
    <3>2. data[d].rays \in [Markers -> Seq(Rays)]
      BY <3>1 DEF Sources
    <3>3. queues \in [Markers -> Seq(Rays)]
      BY <3>2, EmptySeq
    <3>4. data'[d] = [data[d] EXCEPT !.rays = queues]
      BY <2>1 DEF Cleared
    <3> HIDE DEF queues
    <3> QED
      BY <3>1, <3>3, <3>4, ClearType
  <2>3. DOMAIN data' = DOMAIN data /\ data' = [d \in DOMAIN data' |-> data'[d]]
    BY <2>1 DEF Cleared
  <2> HIDE DEF ThreadTypeOK
  <2>4. ThreadTypeOK'
    BY <1>0, <2>1, <2>2, <2>3 DEF ThreadTypeOK
  <2>5. MutexHeld' /\ NoDanglingSource' /\ HoldsRay'
    BY <1>0, <2>1, <2>3 DEF MutexHeld, NoDanglingSource, HoldsRay
  <2>6. DeadIsGone' /\ LockedAhead'
    BY <1>0, <2>1, <2>2, <2>3, Holders DEF ThreadTypeOK, DeadIsGone, LockedAhead
  <2> QED
    BY <2>4, <2>5, <2>6
<1>3. CASE SyncReap
  BY <1>0, <1>3, Holders DEF SyncReap
<1>4. CASE SyncEnd
  BY <1>0, <1>4, Holders DEF SyncEnd, AtEnd
<1>5. ASSUME NEW d \in Clients, SyncLock(d) PROVE ThreadInv'
  BY <1>0, <1>5, Holders DEF SyncLock, IsNext
<1>6. ASSUME NEW d \in Clients, SyncUnlock(d) PROVE ThreadInv'
  BY <1>0, <1>6, Holders DEF SyncUnlock, IsNext
<1> QED
  BY <1>1, <1>2, <1>3, <1>4, <1>5, <1>6 DEF ServerStep

-----------------------------------------------------------------------------
(* The mutexes are held where the code holds them; a client thread never   *)
(* pushes through a reference to an erased source, and the server never    *)
(* reaches for one.                                                        *)
THEOREM ThreadsSafe == SafeSpec => []ThreadInv
<1>1. ThreadInv /\ FinitelyMany /\ [Next]_vars => ThreadInv'
  <2> SUFFICES ASSUME ThreadInv, FinitelyMany, [Next]_vars PROVE ThreadInv'
    OBVIOUS
  <2>1. CASE ServerStep
    BY <2>1, ServerKeepsThreads
  <2>2. ASSUME NEW c \in Clients, ClientStep(c) PROVE ThreadInv'
    BY <2>2, ClientKeepsThreads
  <2>3. CASE UNCHANGED threadVars
    BY <2>3 DEF threadVars, ThreadInv, ThreadTypeOK, MutexHeld, NoDanglingSource,
                DeadIsGone, LockedAhead, HoldsRay
  <2> QED
    BY <2>1, <2>2, <2>3 DEF Next, Tick, Crashed, vars
<1> QED
  BY <1>1, InitThreads, Finite, PTL DEF SafeSpec

-----------------------------------------------------------------------------
(* Whether and where Place finds a younger match.                          *)
LEMMA PlaceCases ==
  ASSUME NEW S, NEW s \in Seq(S), NEW m
  PROVE  \/ Place(s, m) = Append(s, m)
         \/ \E i \in DOMAIN s : Place(s, m) = InsertAt(s, i, m)
<1> DEFINE I == {i \in 1 .. Len(s) : s[i].time > m.time}
           k == SelectInSeq(s, LAMBDA x : x.time > m.time)
<1>1. k = IF I # {} THEN Min(I) ELSE 0
  BY DEF SelectInSeq
<1>2. Place(s, m) = IF k = 0 THEN Append(s, m) ELSE InsertAt(s, k, m)
  BY DEF Place
<1>3. I # {} => Min(I) \in DOMAIN s
  <2> SUFFICES ASSUME I # {} PROVE Min(I) \in DOMAIN s
    OBVIOUS
  <2>1. I \subseteq Nat /\ I \subseteq DOMAIN s
    OBVIOUS
  <2> HIDE DEF I
  <2>2. \E i \in I : \A j \in I : i <= j
    BY <2>1, LeastNumber
  <2>3. Min(I) \in I
    BY <2>2 DEF Min
  <2> QED
    BY <2>1, <2>3
<1> HIDE DEF k, I
<1> QED
  BY <1>1, <1>2, <1>3

(* Sorting puts a match somewhere between the others.                      *)
LEMMA PlaceType ==
  ASSUME NEW S, NEW s \in Seq(S), NEW m \in S
  PROVE  Place(s, m) \in Seq(S)
<1>1. Append(s, m) \in Seq(S)
  OBVIOUS
<1>2. ASSUME NEW i \in DOMAIN s PROVE InsertAt(s, i, m) \in Seq(S)
  <2>1. /\ SubSeq(s, 1, i - 1) \in Seq(S) /\ SubSeq(s, i, Len(s)) \in Seq(S) /\ <<m>> \in Seq(S)
    OBVIOUS
  <2> QED
    BY <2>1, ConcatProperties DEF InsertAt
<1> QED
  BY <1>1, <1>2, PlaceCases

(* Placing a new match lists it with the others.                           *)
LEMMA PlaceLists ==
  ASSUME NEW S, NEW s, Lists(s, S), NEW m, m \notin S
  PROVE  Lists(Place(s, m), S \cup {m})
<1>1. s \in Seq(S)
  BY DEF Lists
<1>2. Lists(Append(s, m), S \cup {m})
  BY ListsAppend
<1>3. ASSUME NEW i \in DOMAIN s PROVE Lists(InsertAt(s, i, m), S \cup {m})
  BY ListsInsert
<1> QED
  BY <1>1, <1>2, <1>3, PlaceCases

(* The vector while it is sorted, match by match.                          *)
LEMMA SortSteps ==
  ASSUME NEW S, NEW ms \in Seq(S)
  PROVE  \E r \in [0 .. Len(ms) -> Seq(S)] :
            /\ r[0] = <<>> /\ SortByTime(ms) = r[Len(ms)]
            /\ \A k \in 1 .. Len(ms) : r[k] = Place(r[k - 1], ms[k])
<1> DEFINE n == Len(ms)
           h == [i \in 1 .. n |-> [v \in Seq(S) |-> Place(v, ms[i])]]
<1>1. n \in Nat /\ DOMAIN ms = 1 .. n /\ \A i \in 1 .. n : ms[i] \in S
  BY LenProperties, ElementOfSeq
<1>2. h \in [1 .. n -> [Seq(S) -> Seq(S)]]
  BY <1>1, PlaceType
<1>3. \A i \in 1 .. n, v \in Seq(S) : h[i][v] = Place(v, ms[i])
  OBVIOUS
<1>4. <<>> \in Seq(S)
  OBVIOUS
<1> HIDE DEF h, n
<1>5. PICK g \in [SUBSET (1 .. n) -> Seq(S)] : IsFold(g, n, <<>>, h)
  BY <1>1, <1>2, <1>4, FoldExists DEF HasFold
<1> DEFINE iter == CHOOSE f : f = [t \in SUBSET (1 .. n) |->
               IF t = {} THEN <<>> ELSE Place(f[t \ {Max(t)}], ms[Max(t)])]
<1>6. g = [t \in SUBSET (1 .. n) |->
               IF t = {} THEN <<>> ELSE Place(g[t \ {Max(t)}], ms[Max(t)])]
  <2>1. ASSUME NEW t \in SUBSET (1 .. n)
        PROVE  g[t] = IF t = {} THEN <<>> ELSE Place(g[t \ {Max(t)}], ms[Max(t)])
    <3>1. CASE t = {}
      BY <1>5, <3>1 DEF IsFold
    <3>2. CASE t # {}
      <4>1. Max(t) \in 1 .. n
        BY <1>1, <3>2, GreatestNumber
      <4>2. g[t \ {Max(t)}] \in Seq(S)
        BY <1>5
      <4>3. g[t] = h[Max(t)][g[t \ {Max(t)}]]
        BY <1>5, <3>2 DEF IsFold
      <4> QED
        BY <1>3, <3>2, <4>1, <4>2, <4>3
    <3> QED
      BY <3>1, <3>2
  <2> QED
    BY <2>1
<1>7. iter = [t \in SUBSET (1 .. n) |->
               IF t = {} THEN <<>> ELSE Place(iter[t \ {Max(t)}], ms[Max(t)])]
  BY <1>6, Zenon
<1>8. SortByTime(ms) = iter[1 .. n]
  BY <1>1, Zenon DEF SortByTime, FoldLeft, MapThenFoldSet
<1> HIDE DEF iter
<1> DEFINE r == [k \in 0 .. n |-> iter[1 .. k]]
<1>9. r[0] = <<>> /\ SortByTime(ms) = r[n]
  <2>1. iter[{}] = <<>>
    BY <1>7
  <2>2. 1 .. 0 = {} /\ 0 \in 0 .. n /\ n \in 0 .. n
    BY <1>1
  <2> QED
    BY <1>8, <2>1, <2>2
<1>10. ASSUME NEW k \in 1 .. n PROVE r[k] = Place(r[k - 1], ms[k])
  <2>1. /\ 1 .. k \in SUBSET (1 .. n) /\ 1 .. k # {} /\ Max(1 .. k) = k
        /\ (1 .. k) \ {k} = 1 .. k - 1
    BY <1>1, FirstPositions
  <2>2. iter[1 .. k] = Place(iter[1 .. k - 1], ms[k])
    BY <1>7, <2>1
  <2>3. k \in 0 .. n /\ k - 1 \in 0 .. n
    BY <1>1
  <2> QED
    BY <2>2, <2>3
<1>11. r = [k \in 0 .. n |-> r[k]]
  OBVIOUS
<1> HIDE DEF r
<1>12. r \in [0 .. n -> Seq(S)]
  <2>1. ASSUME NEW k \in 1 .. n, r[k - 1] \in Seq(S) PROVE r[k] \in Seq(S)
    <3>1. Place(r[k - 1], ms[k]) \in Seq(S)
      BY <1>1, <2>1, PlaceType
    <3> QED
      BY <1>10, <3>1, Zenon
  <2> QED
    BY <1>1, <1>4, <1>9, <1>11, <2>1, StepsType
<1> QED
  BY <1>9, <1>10, <1>12 DEF n

(* Sorting neither loses a match nor adds one.                             *)
LEMMA SortLists ==
  ASSUME NEW S, NEW ms, Lists(ms, S)
  PROVE  Lists(SortByTime(ms), S)
<1>1. PICK n \in Nat : n = Len(ms) /\ DOMAIN ms = 1 .. n /\ ms \in Seq(S)
  BY LenProperties DEF Lists
<1>a. PICK r \in [0 .. Len(ms) -> Seq(S)] :
            /\ r[0] = <<>> /\ SortByTime(ms) = r[Len(ms)]
            /\ \A k \in 1 .. Len(ms) : r[k] = Place(r[k - 1], ms[k])
  BY <1>1, SortSteps
<1>2. /\ r[0] = <<>> /\ SortByTime(ms) = r[n]
      /\ \A k \in 1 .. n : r[k] = Place(r[k - 1], ms[k])
  BY <1>1, <1>a
<1> DEFINE Up(k) == {ms[i] : i \in 1 .. k}
           T == {k \in Nat : Lists(r[k], Up(k))}
<1>3. 0 \in T
  <2>1. Up(0) = {}
    OBVIOUS
  <2>2. Lists(<<>>, {})
    BY DEF Lists
  <2> QED
    BY <1>2, <2>1, <2>2
<1>4. ASSUME NEW k \in 1 .. n, k - 1 \in T PROVE k \in T
  <2>1. ms[k] \notin Up(k - 1)
    <3>1. ASSUME NEW i \in 1 .. k - 1 PROVE ms[i] # ms[k]
      <4>1. i \in DOMAIN ms /\ k \in DOMAIN ms /\ i # k
        BY <1>1
      <4> QED
        BY <4>1 DEF Lists
    <3> QED
      BY <3>1
  <2>2. Up(k) = Up(k - 1) \cup {ms[k]}
    <3>1. 1 .. k = (1 .. k - 1) \cup {k}
      OBVIOUS
    <3> QED
      BY <3>1
  <2>3. Lists(r[k - 1], Up(k - 1))
    BY <1>4
  <2>4. r[k] = Place(r[k - 1], ms[k])
    BY <1>2
  <2> HIDE DEF Up
  <2>5. Lists(Place(r[k - 1], ms[k]), Up(k - 1) \cup {ms[k]})
    BY <2>1, <2>3, PlaceLists
  <2>6. Lists(r[k], Up(k))
    BY <2>2, <2>4, <2>5, Zenon
  <2> QED
    BY <2>6
<1>5. n \in T
  <2> HIDE DEF T
  <2>1. \A k \in 0 .. n : k \in T
    BY <1>1, <1>3, <1>4, BoundedInduction
  <2> QED
    BY <1>1, <2>1
<1>6. Up(n) = S
  <2>1. \A i \in 1 .. n : ms[i] \in S
    BY <1>1
  <2>2. \A x \in S : \E i \in 1 .. n : ms[i] = x
    BY <1>1 DEF Lists
  <2> QED
    BY <2>1, <2>2
<1> QED
  BY <1>2, <1>5, <1>6

-----------------------------------------------------------------------------
(* What getResults sorts out.                                              *)
Outcomes(S) == [reported : Seq(S), expired : Seq(S), left : Seq(S)]
Nothing == [reported |-> <<>>, expired |-> <<>>, left |-> <<>>]

(* The scan keeps the type of its three lists.                             *)
LEMMA ScanType ==
  ASSUME NEW S, NEW o \in Outcomes(S), NEW m \in S, NEW time
  PROVE  Scan(o, m, time) \in Outcomes(S)
BY AppendProperties DEF Outcomes, Scan

(* The scan of getResults, match by match.                                 *)
LEMMA ScanSteps ==
  ASSUME NEW S, NEW all \in Seq(S), NEW time, NEW ms \in Seq(S), ms = SortByTime(all)
  PROVE  \E r \in [0 .. Len(ms) -> Outcomes(S)] :
            /\ r[0] = Nothing /\ GetResults(all, time) = r[Len(ms)]
            /\ \A k \in 1 .. Len(ms) : r[k] = Scan(r[k - 1], ms[k], time)
<1> DEFINE n == Len(ms)
           h == [i \in 1 .. n |-> [v \in Outcomes(S) |-> Scan(v, ms[i], time)]]
<1>1. n \in Nat /\ DOMAIN ms = 1 .. n /\ \A i \in 1 .. n : ms[i] \in S
  BY LenProperties, ElementOfSeq
<1>2. h \in [1 .. n -> [Outcomes(S) -> Outcomes(S)]]
  BY <1>1, ScanType
<1>3. \A i \in 1 .. n, v \in Outcomes(S) : h[i][v] = Scan(v, ms[i], time)
  OBVIOUS
<1>4. Nothing \in Outcomes(S)
  BY DEF Nothing, Outcomes
<1> HIDE DEF h, n
<1>5. PICK g \in [SUBSET (1 .. n) -> Outcomes(S)] : IsFold(g, n, Nothing, h)
  BY <1>1, <1>2, <1>4, FoldExists DEF HasFold
<1> DEFINE iter == CHOOSE f : f = [t \in SUBSET (1 .. n) |->
               IF t = {} THEN Nothing ELSE Scan(f[t \ {Max(t)}], ms[Max(t)], time)]
<1>6. g = [t \in SUBSET (1 .. n) |->
               IF t = {} THEN Nothing ELSE Scan(g[t \ {Max(t)}], ms[Max(t)], time)]
  <2>1. ASSUME NEW t \in SUBSET (1 .. n)
        PROVE  g[t] = IF t = {} THEN Nothing ELSE Scan(g[t \ {Max(t)}], ms[Max(t)], time)
    <3>1. CASE t = {}
      BY <1>5, <3>1 DEF IsFold
    <3>2. CASE t # {}
      <4>1. Max(t) \in 1 .. n
        BY <1>1, <3>2, GreatestNumber
      <4>2. g[t \ {Max(t)}] \in Outcomes(S)
        BY <1>5
      <4>3. g[t] = h[Max(t)][g[t \ {Max(t)}]]
        BY <1>5, <3>2 DEF IsFold
      <4> QED
        BY <1>3, <3>2, <4>1, <4>2, <4>3
    <3> QED
      BY <3>1, <3>2
  <2> QED
    BY <2>1
<1>7. iter = [t \in SUBSET (1 .. n) |->
               IF t = {} THEN Nothing ELSE Scan(iter[t \ {Max(t)}], ms[Max(t)], time)]
  BY <1>6, Zenon
<1>8. GetResults(all, time) = iter[1 .. n]
  BY <1>1, Zenon DEF Nothing, GetResults, FoldLeft, MapThenFoldSet
<1> HIDE DEF iter
<1> DEFINE r == [k \in 0 .. n |-> iter[1 .. k]]
<1>9. r[0] = Nothing /\ GetResults(all, time) = r[n]
  <2>1. iter[{}] = Nothing
    BY <1>7
  <2>2. 1 .. 0 = {} /\ 0 \in 0 .. n /\ n \in 0 .. n
    BY <1>1
  <2> QED
    BY <1>8, <2>1, <2>2
<1>10. ASSUME NEW k \in 1 .. n PROVE r[k] = Scan(r[k - 1], ms[k], time)
  <2>1. /\ 1 .. k \in SUBSET (1 .. n) /\ 1 .. k # {} /\ Max(1 .. k) = k
        /\ (1 .. k) \ {k} = 1 .. k - 1
    BY <1>1, FirstPositions
  <2>2. iter[1 .. k] = Scan(iter[1 .. k - 1], ms[k], time)
    BY <1>7, <2>1
  <2>3. k \in 0 .. n /\ k - 1 \in 0 .. n
    BY <1>1
  <2> QED
    BY <2>2, <2>3
<1>11. r = [k \in 0 .. n |-> r[k]]
  OBVIOUS
<1> HIDE DEF r
<1>12. r \in [0 .. n -> Outcomes(S)]
  <2>1. ASSUME NEW k \in 1 .. n, r[k - 1] \in Outcomes(S) PROVE r[k] \in Outcomes(S)
    <3>1. Scan(r[k - 1], ms[k], time) \in Outcomes(S)
      BY <1>1, <2>1, ScanType
    <3> QED
      BY <1>10, <3>1, Zenon
  <2> QED
    BY <1>1, <1>4, <1>9, <1>11, <2>1, StepsType
<1> QED
  BY <1>9, <1>10, <1>12 DEF n


(* The outcome sorts out the matches in S: each goes into one of the three *)
(* vectors, and only complete ones are reported.                           *)
Sorts(o, S, time) ==
    \E R, X, L :
        /\ Lists(o.reported, R) /\ Lists(o.expired, X) /\ Lists(o.left, L)
        /\ S = R \cup X \cup L
        /\ R \cap X = {} /\ R \cap L = {} /\ X \cap L = {}
        /\ \A m \in R : Complete(m, time)

(* A scanned match joins exactly one of the three lists.                   *)
LEMMA ScanSorts ==
  ASSUME NEW S, NEW V, NEW o \in Outcomes(V), NEW m, m \notin S, NEW time, Sorts(o, S, time)
  PROVE  Sorts(Scan(o, m, time), S \cup {m}, time)
<1>1. PICK R, X, L :
        /\ Lists(o.reported, R) /\ Lists(o.expired, X) /\ Lists(o.left, L)
        /\ S = R \cup X \cup L
        /\ R \cap X = {} /\ R \cap L = {} /\ X \cap L = {}
        /\ \A x \in R : Complete(x, time)
  BY DEF Sorts
<1>2. m \notin R /\ m \notin X /\ m \notin L
  BY <1>1
<1> DEFINE p == Scan(o, m, time)
<1>3. CASE p = [o EXCEPT !.expired = Append(@, m)]
  <2>1. p.reported = o.reported /\ p.expired = Append(o.expired, m) /\ p.left = o.left
    BY <1>3 DEF Outcomes
  <2> HIDE DEF p
  <2>2. Lists(p.expired, X \cup {m})
    BY <1>1, <1>2, <2>1, ListsAppend
  <2>3. /\ Lists(p.reported, R) /\ Lists(p.expired, X \cup {m}) /\ Lists(p.left, L)
        /\ S \cup {m} = R \cup (X \cup {m}) \cup L
        /\ R \cap (X \cup {m}) = {} /\ R \cap L = {} /\ (X \cup {m}) \cap L = {}
        /\ \A x \in R : Complete(x, time)
    BY <1>1, <1>2, <2>1, <2>2
  <2>4. Sorts(p, S \cup {m}, time)
    BY <2>3, ZenonT(30) DEF Sorts
  <2> QED
    BY <2>4 DEF p
<1>4. CASE p = [o EXCEPT !.reported = Append(@, m)] /\ Complete(m, time)
  <2>1. p.reported = Append(o.reported, m) /\ p.expired = o.expired /\ p.left = o.left
    BY <1>4 DEF Outcomes
  <2> HIDE DEF p
  <2>2. Lists(p.reported, R \cup {m})
    BY <1>1, <1>2, <2>1, ListsAppend
  <2>3. /\ Lists(p.reported, R \cup {m}) /\ Lists(p.expired, X) /\ Lists(p.left, L)
        /\ S \cup {m} = (R \cup {m}) \cup X \cup L
        /\ (R \cup {m}) \cap X = {} /\ (R \cup {m}) \cap L = {} /\ X \cap L = {}
        /\ \A x \in R \cup {m} : Complete(x, time)
    BY <1>1, <1>2, <1>4, <2>1, <2>2
  <2>4. Sorts(p, S \cup {m}, time)
    BY <2>3, ZenonT(30) DEF Sorts
  <2> QED
    BY <2>4 DEF p
<1>5. CASE p = [o EXCEPT !.left = Append(@, m)]
  <2>1. p.reported = o.reported /\ p.expired = o.expired /\ p.left = Append(o.left, m)
    BY <1>5 DEF Outcomes
  <2> HIDE DEF p
  <2>2. Lists(p.left, L \cup {m})
    BY <1>1, <1>2, <2>1, ListsAppend
  <2>3. /\ Lists(p.reported, R) /\ Lists(p.expired, X) /\ Lists(p.left, L \cup {m})
        /\ S \cup {m} = R \cup X \cup (L \cup {m})
        /\ R \cap X = {} /\ R \cap (L \cup {m}) = {} /\ X \cap (L \cup {m}) = {}
        /\ \A x \in R : Complete(x, time)
    BY <1>1, <1>2, <2>1, <2>2
  <2>4. Sorts(p, S \cup {m}, time)
    BY <2>3, ZenonT(30) DEF Sorts
  <2> QED
    BY <2>4 DEF p
<1>6. \/ p = [o EXCEPT !.expired = Append(@, m)]
      \/ p = [o EXCEPT !.reported = Append(@, m)] /\ Complete(m, time)
      \/ p = [o EXCEPT !.left = Append(@, m)]
  BY Zenon DEF Scan
<1> QED
  BY <1>3, <1>4, <1>5, <1>6

(* getResults neither loses a match nor uses one twice.                    *)
THEOREM ResultsSort ==
  ASSUME NEW S, NEW ms, Lists(ms, S), NEW time
  PROVE  Sorts(GetResults(ms, time), S, time)
<1> DEFINE ss == SortByTime(ms)
<1>1. ms \in Seq(S) /\ Lists(ss, S)
  BY SortLists DEF Lists
<1>2. PICK n \in Nat : n = Len(ss) /\ DOMAIN ss = 1 .. n /\ ss \in Seq(S)
  BY <1>1, LenProperties DEF Lists
<1>a. PICK r \in [0 .. Len(ss) -> Outcomes(S)] :
            /\ r[0] = Nothing /\ GetResults(ms, time) = r[Len(ss)]
            /\ \A k \in 1 .. Len(ss) : r[k] = Scan(r[k - 1], ss[k], time)
  BY <1>1, <1>2, ScanSteps
<1>3. /\ r[0] = Nothing /\ GetResults(ms, time) = r[n]
      /\ \A k \in 1 .. n : r[k] = Scan(r[k - 1], ss[k], time)
  BY <1>2, <1>a
<1>b. \A k \in 1 .. n : r[k - 1] \in Outcomes(S)
  BY <1>2, <1>a
<1> HIDE DEF ss
<1> DEFINE Up(k) == {ss[i] : i \in 1 .. k}
           T == {k \in Nat : Sorts(r[k], Up(k), time)}
<1>4. 0 \in T
  <2>1. Up(0) = {}
    OBVIOUS
  <2>2. Lists(<<>>, {})
    BY DEF Lists
  <2>3. /\ Lists(Nothing.reported, {}) /\ Lists(Nothing.expired, {}) /\ Lists(Nothing.left, {})
        /\ {} = {} \cup {} \cup {}
        /\ {} \cap {} = {}
        /\ \A m \in {} : Complete(m, time)
    BY <2>2 DEF Nothing
  <2>4. Sorts(Nothing, {}, time)
    BY <2>3, ZenonT(30) DEF Sorts
  <2> QED
    BY <1>3, <2>1, <2>4
<1>5. ASSUME NEW k \in 1 .. n, k - 1 \in T PROVE k \in T
  <2>1. ss[k] \notin Up(k - 1)
    <3>1. ASSUME NEW i \in 1 .. k - 1 PROVE ss[i] # ss[k]
      <4>1. i \in DOMAIN ss /\ k \in DOMAIN ss /\ i # k
        BY <1>2
      <4> QED
        BY <1>1, <4>1 DEF Lists
    <3> QED
      BY <3>1
  <2>2. Up(k) = Up(k - 1) \cup {ss[k]}
    <3>1. 1 .. k = (1 .. k - 1) \cup {k}
      OBVIOUS
    <3> QED
      BY <3>1
  <2>3. Sorts(r[k - 1], Up(k - 1), time)
    BY <1>5
  <2>4. r[k] = Scan(r[k - 1], ss[k], time) /\ r[k - 1] \in Outcomes(S)
    BY <1>3, <1>b
  <2> HIDE DEF Up
  <2>5. Sorts(Scan(r[k - 1], ss[k], time), Up(k - 1) \cup {ss[k]}, time)
    BY <2>1, <2>3, <2>4, ScanSorts
  <2>6. Sorts(r[k], Up(k), time)
    BY <2>2, <2>4, <2>5, Zenon
  <2> QED
    BY <2>6
<1>6. n \in T
  <2> HIDE DEF T
  <2>1. \A k \in 0 .. n : k \in T
    BY <1>2, <1>4, <1>5, BoundedInduction
  <2> QED
    BY <1>2, <2>1
<1>7. Up(n) = S
  <2>1. \A i \in 1 .. n : ss[i] \in S
    BY <1>2
  <2>2. \A x \in S : \E i \in 1 .. n : ss[i] = x
    BY <1>1, <1>2 DEF Lists
  <2> QED
    BY <2>1, <2>2
<1> QED
  BY <1>3, <1>6, <1>7

-----------------------------------------------------------------------------
(* Matches of rays in A; what the loops of mergeMatches hold.              *)
Group(A) == [rays : SUBSET A, time : Nat, n : Nat]
Gathers(A) == [m : Group(A), skipped : Seq(Group(A))]
Start(x) == [m |-> x, skipped |-> <<>>]
GatherAll(x, s) == FoldLeft(Gather, Start(x), s)

(* Gathering keeps the type of the match and of those skipped.             *)
LEMMA GatherType ==
  ASSUME NEW A, NEW acc \in Gathers(A), NEW y \in Group(A)
  PROVE  Gather(acc, y) \in Gathers(A)
<1>1. acc.m \in Group(A) /\ acc.skipped \in Seq(Group(A))
  BY DEF Gathers
<1>2. Insert(acc.m.rays, y.rays) \in SUBSET A
  BY <1>1 DEF Group, Insert
<1>3. [acc.m EXCEPT !.rays = Insert(@, y.rays)] \in Group(A)
  BY <1>1, <1>2 DEF Group
<1>4. Append(acc.skipped, y) \in Seq(Group(A))
  BY <1>1, AppendProperties
<1>5. Gather(acc, y) = IF Compatible(acc.m, y)
                       THEN [acc EXCEPT !.m = [acc.m EXCEPT !.rays = Insert(@, y.rays)]]
                       ELSE [acc EXCEPT !.skipped = Append(acc.skipped, y)]
  BY DEF Gather, Gathers
<1> QED
  BY <1>3, <1>4, <1>5 DEF Gathers

(* The inner loop of mergeMatches, match by match.                          *)
LEMMA GatherSteps ==
  ASSUME NEW A, NEW x \in Group(A), NEW s \in Seq(Group(A))
  PROVE  \E r \in [0 .. Len(s) -> Gathers(A)] :
            /\ r[0] = Start(x) /\ GatherAll(x, s) = r[Len(s)]
            /\ \A k \in 1 .. Len(s) : r[k] = Gather(r[k - 1], s[k])
<1> DEFINE n == Len(s)
           h == [i \in 1 .. n |-> [v \in Gathers(A) |-> Gather(v, s[i])]]
<1>1. n \in Nat /\ DOMAIN s = 1 .. n /\ \A i \in 1 .. n : s[i] \in Group(A)
  BY LenProperties, ElementOfSeq
<1>2. h \in [1 .. n -> [Gathers(A) -> Gathers(A)]]
  BY <1>1, GatherType
<1>3. \A i \in 1 .. n, v \in Gathers(A) : h[i][v] = Gather(v, s[i])
  OBVIOUS
<1>4. Start(x) \in Gathers(A)
  BY EmptySeq DEF Start, Gathers
<1> HIDE DEF h, n
<1>5. PICK g \in [SUBSET (1 .. n) -> Gathers(A)] : IsFold(g, n, Start(x), h)
  BY <1>1, <1>2, <1>4, FoldExists DEF HasFold
<1> DEFINE iter == CHOOSE f : f = [t \in SUBSET (1 .. n) |->
               IF t = {} THEN Start(x) ELSE Gather(f[t \ {Max(t)}], s[Max(t)])]
<1>6. g = [t \in SUBSET (1 .. n) |->
               IF t = {} THEN Start(x) ELSE Gather(g[t \ {Max(t)}], s[Max(t)])]
  <2>1. ASSUME NEW t \in SUBSET (1 .. n)
        PROVE  g[t] = IF t = {} THEN Start(x) ELSE Gather(g[t \ {Max(t)}], s[Max(t)])
    <3>1. CASE t = {}
      BY <1>5, <3>1 DEF IsFold
    <3>2. CASE t # {}
      <4>1. Max(t) \in 1 .. n
        BY <1>1, <3>2, GreatestNumber
      <4>2. g[t \ {Max(t)}] \in Gathers(A)
        BY <1>5
      <4>3. g[t] = h[Max(t)][g[t \ {Max(t)}]]
        BY <1>5, <3>2 DEF IsFold
      <4> QED
        BY <1>3, <3>2, <4>1, <4>2, <4>3
    <3> QED
      BY <3>1, <3>2
  <2> QED
    BY <2>1
<1>7. iter = [t \in SUBSET (1 .. n) |->
               IF t = {} THEN Start(x) ELSE Gather(iter[t \ {Max(t)}], s[Max(t)])]
  BY <1>6, Zenon
<1>8. GatherAll(x, s) = iter[1 .. n]
  BY <1>1, Zenon DEF GatherAll, FoldLeft, MapThenFoldSet
<1> HIDE DEF iter
<1> DEFINE r == [k \in 0 .. n |-> iter[1 .. k]]
<1>9. r[0] = Start(x) /\ GatherAll(x, s) = r[n]
  <2>1. iter[{}] = Start(x)
    BY <1>7
  <2>2. 1 .. 0 = {} /\ 0 \in 0 .. n /\ n \in 0 .. n
    BY <1>1
  <2> QED
    BY <1>8, <2>1, <2>2
<1>10. ASSUME NEW k \in 1 .. n PROVE r[k] = Gather(r[k - 1], s[k])
  <2>1. /\ 1 .. k \in SUBSET (1 .. n) /\ 1 .. k # {} /\ Max(1 .. k) = k
        /\ (1 .. k) \ {k} = 1 .. k - 1
    BY <1>1, FirstPositions
  <2>2. iter[1 .. k] = Gather(iter[1 .. k - 1], s[k])
    BY <1>7, <2>1
  <2>3. k \in 0 .. n /\ k - 1 \in 0 .. n
    BY <1>1
  <2> QED
    BY <2>2, <2>3
<1>11. r = [k \in 0 .. n |-> r[k]]
  OBVIOUS
<1> HIDE DEF r
<1>12. r \in [0 .. n -> Gathers(A)]
  <2>1. ASSUME NEW k \in 1 .. n, r[k - 1] \in Gathers(A) PROVE r[k] \in Gathers(A)
    <3>1. Gather(r[k - 1], s[k]) \in Gathers(A)
      BY <1>1, <2>1, GatherType
    <3> QED
      BY <1>10, <3>1, Zenon
  <2> QED
    BY <1>1, <1>4, <1>9, <1>11, <2>1, StepsType
<1> QED
  BY <1>9, <1>10, <1>12 DEF n

(* What the inner loop ends with.                                          *)
LEMMA GatherAllType ==
  ASSUME NEW A, NEW x \in Group(A), NEW s \in Seq(Group(A))
  PROVE  GatherAll(x, s) \in Gathers(A)
<1>1. PICK r \in [0 .. Len(s) -> Gathers(A)] :
         /\ r[0] = Start(x) /\ GatherAll(x, s) = r[Len(s)]
         /\ \A k \in 1 .. Len(s) : r[k] = Gather(r[k - 1], s[k])
  BY GatherSteps
<1>2. Len(s) \in 0 .. Len(s)
  OBVIOUS
<1> QED
  BY <1>1, <1>2

(* One run of the inner loop.                                              *)
LEMMA AbsorbType ==
  ASSUME NEW A, NEW ms \in Seq(Group(A)), NEW i \in Nat \ {0}
  PROVE  AbsorbAt(ms, i) \in Seq(Group(A))
<1>1. CASE i <= Len(ms)
  <2> DEFINE s == SubSeq(ms, i + 1, Len(ms))
             end == GatherAll(ms[i], s)
  <2>1. ms[i] \in Group(A) /\ s \in Seq(Group(A)) /\ SubSeq(ms, 1, i - 1) \in Seq(Group(A))
    BY <1>1
  <2>2. AbsorbAt(ms, i) = SubSeq(ms, 1, i - 1) \o <<end.m>> \o end.skipped
    BY <1>1 DEF AbsorbAt, Absorb, Start, GatherAll
  <2>3. end \in Gathers(A)
    <3> HIDE DEF s
    <3> QED
      BY <2>1, GatherAllType
  <2> HIDE DEF s, end
  <2>4. <<end.m>> \in Seq(Group(A)) /\ end.skipped \in Seq(Group(A))
    BY <2>3 DEF Gathers
  <2> QED
    BY <2>1, <2>2, <2>4, ConcatProperties
<1> QED
  BY <1>1 DEF AbsorbAt

(* The outer loop of mergeMatches, place by place.                          *)
Positions(ms) == [i \in DOMAIN ms |-> i]

(* The loop of mergeMatches, index by index.                               *)
LEMMA MergeSteps ==
  ASSUME NEW A, NEW ms \in Seq(Group(A))
  PROVE  \E r \in [0 .. Len(ms) -> Seq(Group(A))] :
            /\ r[0] = ms /\ MergeMatches(ms) = r[Len(ms)]
            /\ \A k \in 1 .. Len(ms) : r[k] = AbsorbAt(r[k - 1], k)
<1> DEFINE n == Len(ms)
           h == [i \in 1 .. n |-> [v \in Seq(Group(A)) |-> AbsorbAt(v, i)]]
<1>1. n \in Nat /\ DOMAIN ms = 1 .. n /\ \A i \in 1 .. n : ms[i] \in Group(A)
  BY LenProperties, ElementOfSeq
<1>a. DOMAIN Positions(ms) = 1 .. n /\ \A i \in 1 .. n : Positions(ms)[i] = i
  BY <1>1 DEF Positions
<1>2. h \in [1 .. n -> [Seq(Group(A)) -> Seq(Group(A))]]
  BY <1>1, AbsorbType
<1>3. \A i \in 1 .. n, v \in Seq(Group(A)) : h[i][v] = AbsorbAt(v, i)
  OBVIOUS
<1>4. ms \in Seq(Group(A))
  OBVIOUS
<1> HIDE DEF h, n
<1>5. PICK g \in [SUBSET (1 .. n) -> Seq(Group(A))] : IsFold(g, n, ms, h)
  BY <1>1, <1>2, <1>4, FoldExists DEF HasFold
<1> DEFINE iter == CHOOSE f : f = [t \in SUBSET (1 .. n) |->
               IF t = {} THEN ms ELSE AbsorbAt(f[t \ {Max(t)}], Positions(ms)[Max(t)])]
<1>6. g = [t \in SUBSET (1 .. n) |->
               IF t = {} THEN ms ELSE AbsorbAt(g[t \ {Max(t)}], Positions(ms)[Max(t)])]
  <2>1. ASSUME NEW t \in SUBSET (1 .. n)
        PROVE  g[t] = IF t = {} THEN ms ELSE AbsorbAt(g[t \ {Max(t)}], Positions(ms)[Max(t)])
    <3>1. CASE t = {}
      BY <1>5, <3>1 DEF IsFold
    <3>2. CASE t # {}
      <4>1. Max(t) \in 1 .. n
        BY <1>1, <3>2, GreatestNumber
      <4>2. g[t \ {Max(t)}] \in Seq(Group(A))
        BY <1>5
      <4>3. g[t] = h[Max(t)][g[t \ {Max(t)}]]
        BY <1>5, <3>2 DEF IsFold
      <4> QED
        BY <1>3, <1>a, <3>2, <4>1, <4>2, <4>3
    <3> QED
      BY <3>1, <3>2
  <2> QED
    BY <2>1
<1>7. iter = [t \in SUBSET (1 .. n) |->
               IF t = {} THEN ms ELSE AbsorbAt(iter[t \ {Max(t)}], Positions(ms)[Max(t)])]
  BY <1>6, Zenon
<1>8. MergeMatches(ms) = iter[1 .. n]
  <2>1. MergeMatches(ms) = FoldLeft(AbsorbAt, ms, Positions(ms))
    BY Zenon DEF MergeMatches, FoldLeftDomain, Positions
  <2>2. FoldLeft(AbsorbAt, ms, Positions(ms)) = iter[1 .. n]
    BY <1>a, Zenon DEF FoldLeft, MapThenFoldSet
  <2> QED
    BY <2>1, <2>2, Zenon
<1> HIDE DEF iter
<1> DEFINE r == [k \in 0 .. n |-> iter[1 .. k]]
<1>9. r[0] = ms /\ MergeMatches(ms) = r[n]
  <2>1. iter[{}] = ms
    BY <1>7
  <2>2. 1 .. 0 = {} /\ 0 \in 0 .. n /\ n \in 0 .. n
    BY <1>1
  <2> QED
    BY <1>8, <2>1, <2>2
<1>10. ASSUME NEW k \in 1 .. n PROVE r[k] = AbsorbAt(r[k - 1], k)
  <2>1. /\ 1 .. k \in SUBSET (1 .. n) /\ 1 .. k # {} /\ Max(1 .. k) = k
        /\ (1 .. k) \ {k} = 1 .. k - 1
    BY <1>1, FirstPositions
  <2>a. iter[1 .. k] = AbsorbAt(iter[1 .. k - 1], Positions(ms)[k])
    BY <1>7, <2>1
  <2>2. iter[1 .. k] = AbsorbAt(iter[1 .. k - 1], k)
    BY <1>a, <2>a
  <2>3. k \in 0 .. n /\ k - 1 \in 0 .. n
    BY <1>1
  <2> QED
    BY <2>2, <2>3
<1>11. r = [k \in 0 .. n |-> r[k]]
  OBVIOUS
<1> HIDE DEF r
<1>12. r \in [0 .. n -> Seq(Group(A))]
  <2>1. ASSUME NEW k \in 1 .. n, r[k - 1] \in Seq(Group(A)) PROVE r[k] \in Seq(Group(A))
    <3>a. k \in Nat \ {0}
      BY <1>1
    <3>1. AbsorbAt(r[k - 1], k) \in Seq(Group(A))
      BY <3>a, <2>1, AbsorbType
    <3> QED
      BY <1>10, <3>1, Zenon
  <2> QED
    BY <1>1, <1>4, <1>9, <1>11, <2>1, StepsType
<1> QED
  BY <1>9, <1>10, <1>12 DEF n

-----------------------------------------------------------------------------
(* std::set<Ray> tells the rays of A apart.                                *)
Distinct(A) == \A r, s \in A : SameRay(r, s) => r = s

(* The rays of a match are close to each other and told apart, and there   *)
(* are some.                                                               *)
Close(rays) == \A r1, r2 \in rays : r1.time - r2.time < MaxTimeDiff
Fit(x) == x.rays # {} /\ Close(x.rays) /\ Distinct(x.rays)

(* Matches that have no ray in common.                                     *)
Tidy(S) == \A x, y \in S : x # y => x.rays \cap y.rays = {}
Good(S, A) == S \subseteq Group(A) /\ (\A x \in S : Fit(x)) /\ Tidy(S)

(* What is left of the rays in A once some were lost to twins among those  *)
(* that are left.                                                          *)
LeftOf(B, A) == B \subseteq A /\ \A r \in A \ B : \E twin \in B : SameRay(twin, r)

(* Losing rays to twins in two goes, or in two places.                     *)
LEMMA LeftAgain ==
  ASSUME NEW A, NEW B, NEW C, LeftOf(B, A), LeftOf(C, B)
  PROVE  LeftOf(C, A)
<1>1. ASSUME NEW r \in A \ C PROVE \E twin \in C : SameRay(twin, r)
  <2>1. CASE r \in B
    BY <2>1 DEF LeftOf
  <2>2. CASE r \notin B
    <3>1. PICK s \in B : SameRay(s, r)
      BY <2>2 DEF LeftOf
    <3>2. CASE s \in C
      BY <3>1, <3>2
    <3>3. CASE s \notin C
      <4>1. PICK t \in C : SameRay(t, s)
        BY <3>3 DEF LeftOf
      <4>2. SameRay(t, r)
        BY <3>1, <4>1 DEF SameRay
      <4> QED
        BY <4>2
    <3> QED
      BY <3>2, <3>3
  <2> QED
    BY <2>1, <2>2
<1> QED
  BY <1>1 DEF LeftOf

LEMMA LeftBoth ==
  ASSUME NEW A, NEW B, LeftOf(B, A), NEW C, NEW D, LeftOf(D, C)
  PROVE  LeftOf(B \cup D, A \cup C)
BY DEF LeftOf

(* What a set that inserts rays is left with.                              *)
LEMMA InsertLeaves ==
  ASSUME NEW rays, NEW more
  PROVE  LeftOf(Insert(rays, more), rays \cup more) /\ rays \subseteq Insert(rays, more)
<1>1. rays \subseteq Insert(rays, more) /\ Insert(rays, more) \subseteq rays \cup more
  BY DEF Insert
<1>2. ASSUME NEW r \in (rays \cup more) \ Insert(rays, more)
      PROVE  \E twin \in Insert(rays, more) : SameRay(twin, r)
  <2>1. PICK old \in rays : SameRay(r, old)
    BY <1>2 DEF Insert
  <2>2. old \in Insert(rays, more) /\ SameRay(old, r)
    BY <1>1, <2>1 DEF SameRay
  <2> QED
    BY <2>2
<1> QED
  BY <1>1, <1>2 DEF LeftOf

(* Two fit matches that are compatible are fit together.                   *)
LEMMA CloseJoins ==
  ASSUME NEW x, NEW y, Fit(x), Fit(y), Compatible(x, y),
         NEW z, z.rays = Insert(x.rays, y.rays)
  PROVE  Fit(z)
<1>1. x.rays \subseteq z.rays /\ z.rays \subseteq x.rays \cup y.rays
  BY InsertLeaves DEF LeftOf
<1>2. Close(z.rays)
  BY <1>1 DEF Fit, Close, Compatible
<1>3. ASSUME NEW r \in z.rays, NEW s \in z.rays, SameRay(r, s) PROVE r = s
  <2>1. SameRay(s, r)
    BY <1>3 DEF SameRay
  <2>2. CASE r \in x.rays /\ s \in x.rays
    BY <1>3, <2>2 DEF Fit, Distinct
  <2>3. CASE r \notin x.rays /\ s \notin x.rays
    BY <1>1, <1>3, <2>3 DEF Fit, Distinct
  <2>4. \A t \in z.rays \ x.rays : \A old \in x.rays : ~SameRay(t, old)
    BY DEF Insert
  <2> QED
    BY <1>3, <2>1, <2>2, <2>3, <2>4
<1> QED
  BY <1>1, <1>2, <1>3 DEF Fit, Distinct

(* A match that gathers rays stays incompatible with what it was           *)
(* incompatible with.                                                      *)
LEMMA StaysApart ==
  ASSUME NEW x, NEW y, NEW z, z.rays \subseteq x.rays, ~Compatible(z, y)
  PROVE  ~Compatible(x, y) /\ ~Compatible(y, x)
BY DEF Compatible

(* Compatibility is symmetric.                                             *)
LEMMA Symmetric ==
  ASSUME NEW x, NEW y, ~Compatible(x, y)
  PROVE  ~Compatible(y, x)
BY DEF Compatible

(* A match has gathered those of S it did not skip, but for rays lost to   *)
(* twins, and is incompatible with those it skipped.                       *)
Gathered(acc, x, S, A) ==
    \E J \in SUBSET S :
        /\ Lists(acc.skipped, J)
        /\ acc.m \in Group(A) /\ Fit(acc.m)
        /\ LeftOf(acc.m.rays, x.rays \cup RaysOf(S \ J)) /\ x.rays \subseteq acc.m.rays
        /\ \A y \in J : ~Compatible(acc.m, y)

(* One more match is gathered or skipped.                                  *)
LEMMA GatherJoins ==
  ASSUME NEW A, NEW S, NEW x, NEW acc \in Gathers(A), NEW y \in Group(A), Fit(y),
         y \notin S, Gathered(acc, x, S, A)
  PROVE  Gathered(Gather(acc, y), x, S \cup {y}, A)
<1>1. PICK J \in SUBSET S :
        /\ Lists(acc.skipped, J)
        /\ acc.m \in Group(A) /\ Fit(acc.m)
        /\ LeftOf(acc.m.rays, x.rays \cup RaysOf(S \ J)) /\ x.rays \subseteq acc.m.rays
        /\ \A z \in J : ~Compatible(acc.m, z)
  BY DEF Gathered
<1> DEFINE p == Gather(acc, y)
<1>2. CASE Compatible(acc.m, y)
  <2>1. acc.m.rays \in SUBSET A /\ y.rays \in SUBSET A
    BY <1>1 DEF Group
  <2> DEFINE joint == Insert(acc.m.rays, y.rays)
  <2>2. LeftOf(joint, acc.m.rays \cup y.rays) /\ acc.m.rays \subseteq joint
    BY InsertLeaves
  <2>a. p.skipped = acc.skipped /\ p.m = [acc.m EXCEPT !.rays = Insert(acc.m.rays, y.rays)]
    BY <1>2 DEF Gather, Gathers
  <2>b. joint = Insert(acc.m.rays, y.rays)
    OBVIOUS
  <2> HIDE DEF p, joint
  <2>3. p.skipped = acc.skipped /\ p.m = [acc.m EXCEPT !.rays = joint]
    BY <2>a, <2>b
  <2>c. joint \in SUBSET A
    BY <2>1, <2>2 DEF LeftOf
  <2>4. p.m \in Group(A) /\ p.m.rays = joint
    BY <1>1, <2>3, <2>c DEF Group
  <2>5. Fit(p.m)
    BY <1>1, <1>2, <2>4, <2>b, CloseJoins
  <2>6. LeftOf(p.m.rays, x.rays \cup RaysOf((S \cup {y}) \ J)) /\ x.rays \subseteq p.m.rays
    <3>1. (S \cup {y}) \ J = (S \ J) \cup {y}
      BY <1>1
    <3>2. RaysOf((S \ J) \cup {y}) = RaysOf(S \ J) \cup y.rays
      BY DEF RaysOf
    <3>3. LeftOf(y.rays, y.rays)
      BY DEF LeftOf
    <3>4. LeftOf(acc.m.rays \cup y.rays, (x.rays \cup RaysOf(S \ J)) \cup y.rays)
      BY <1>1, <3>3, LeftBoth
    <3>5. LeftOf(joint, (x.rays \cup RaysOf(S \ J)) \cup y.rays)
      BY <2>2, <3>4, LeftAgain
    <3>6. (x.rays \cup RaysOf(S \ J)) \cup y.rays = x.rays \cup RaysOf((S \cup {y}) \ J)
      BY <3>1, <3>2
    <3> QED
      BY <1>1, <2>2, <2>4, <3>5, <3>6
  <2>7. \A z \in J : ~Compatible(p.m, z)
    <3>1. acc.m.rays \subseteq p.m.rays
      BY <2>2, <2>4
    <3> QED
      BY <1>1, <3>1, StaysApart
  <2>8. J \in SUBSET (S \cup {y})
    BY <1>1
  <2>9. Lists(p.skipped, J)
    BY <1>1, <2>3
  <2>10. Gathered(p, x, S \cup {y}, A)
    BY <2>4, <2>5, <2>6, <2>7, <2>8, <2>9 DEF Gathered
  <2> QED
    BY <2>10 DEF p
<1>3. CASE ~Compatible(acc.m, y)
  <2>1. p.skipped = Append(acc.skipped, y) /\ p.m = acc.m
    BY <1>3 DEF Gather, Gathers
  <2> HIDE DEF p
  <2>2. Lists(p.skipped, J \cup {y})
    <3>1. y \notin J
      BY <1>1
    <3> QED
      BY <1>1, <2>1, <3>1, ListsAppend
  <2>3. (S \cup {y}) \ (J \cup {y}) = S \ J
    OBVIOUS
  <2>4. J \cup {y} \in SUBSET (S \cup {y})
    BY <1>1
  <2>5. \A z \in J \cup {y} : ~Compatible(p.m, z)
    BY <1>1, <1>3, <2>1
  <2>6. p.m \in Group(A) /\ Fit(p.m)
    BY <1>1, <2>1
  <2>7. /\ LeftOf(p.m.rays, x.rays \cup RaysOf((S \cup {y}) \ (J \cup {y})))
        /\ x.rays \subseteq p.m.rays
    BY <1>1, <2>1, <2>3
  <2>8. Gathered(p, x, S \cup {y}, A)
    BY <2>2, <2>4, <2>5, <2>6, <2>7 DEF Gathered
  <2> QED
    BY <2>8 DEF p
<1> QED
  BY <1>2, <1>3

(* What the inner loop gathers and skips.                                  *)
LEMMA GatherAllJoins ==
  ASSUME NEW A, NEW x \in Group(A), Fit(x),
         NEW S \in SUBSET Group(A), \A y \in S : Fit(y), NEW s, Lists(s, S)
  PROVE  Gathered(GatherAll(x, s), x, S, A)
<1>1. PICK n \in Nat : n = Len(s) /\ DOMAIN s = 1 .. n /\ s \in Seq(S)
  BY LenProperties DEF Lists
<1>a. s \in Seq(Group(A))
  BY <1>1
<1>b. PICK r \in [0 .. Len(s) -> Gathers(A)] :
         /\ r[0] = Start(x) /\ GatherAll(x, s) = r[Len(s)]
         /\ \A k \in 1 .. Len(s) : r[k] = Gather(r[k - 1], s[k])
  BY <1>a, GatherSteps
<1>2. /\ r[0] = Start(x) /\ GatherAll(x, s) = r[n]
      /\ \A k \in 1 .. n : r[k] = Gather(r[k - 1], s[k]) /\ r[k - 1] \in Gathers(A)
  BY <1>1, <1>b
<1>3. \A k \in 1 .. n : s[k] \in S
  BY <1>1
<1> DEFINE Up(k) == {s[i] : i \in 1 .. k}
           T == {k \in Nat : Gathered(r[k], x, Up(k), A)}
<1>4. 0 \in T
  <2>1. Up(0) = {} /\ RaysOf({}) = {}
    BY DEF RaysOf
  <2>2. /\ {} \in SUBSET {} /\ Lists(Start(x).skipped, {})
        /\ Start(x).m = x
        /\ LeftOf(Start(x).m.rays, x.rays \cup RaysOf({} \ {})) /\ x.rays \subseteq Start(x).m.rays
        /\ \A y \in {} : ~Compatible(Start(x).m, y)
    <3>1. Lists(<<>>, {}) /\ {} \ {} = {}
      BY DEF Lists
    <3>2. LeftOf(x.rays, x.rays \cup {})
      BY DEF LeftOf
    <3> QED
      BY <2>1, <3>1, <3>2 DEF Start
  <2>3. Gathered(Start(x), x, {}, A)
    BY <2>2 DEF Gathered
  <2> QED
    BY <1>2, <2>1, <2>3
<1>5. ASSUME NEW k \in 1 .. n, k - 1 \in T PROVE k \in T
  <2>1. s[k] \notin Up(k - 1)
    <3>1. ASSUME NEW i \in 1 .. k - 1 PROVE s[i] # s[k]
      <4>1. i \in DOMAIN s /\ k \in DOMAIN s /\ i # k
        BY <1>1
      <4> QED
        BY <4>1 DEF Lists
    <3> QED
      BY <3>1
  <2>2. Up(k) = Up(k - 1) \cup {s[k]}
    <3>1. 1 .. k = (1 .. k - 1) \cup {k}
      OBVIOUS
    <3> QED
      BY <3>1
  <2>3. Gathered(r[k - 1], x, Up(k - 1), A)
    BY <1>5
  <2>4. r[k] = Gather(r[k - 1], s[k]) /\ r[k - 1] \in Gathers(A)
    BY <1>2
  <2>5. s[k] \in Group(A) /\ Fit(s[k])
    BY <1>3
  <2> HIDE DEF Up
  <2>6. Gathered(Gather(r[k - 1], s[k]), x, Up(k - 1) \cup {s[k]}, A)
    BY <2>1, <2>3, <2>4, <2>5, GatherJoins
  <2>7. Gathered(r[k], x, Up(k), A)
    BY <2>2, <2>4, <2>6, Zenon
  <2> QED
    BY <2>7
<1>6. n \in T
  <2> HIDE DEF T
  <2>1. \A k \in 0 .. n : k \in T
    BY <1>1, <1>4, <1>5, BoundedInduction
  <2> QED
    BY <1>1, <2>1
<1>7. Up(n) = S
  <2>2. \A y \in S : \E i \in 1 .. n : s[i] = y
    BY <1>1 DEF Lists
  <2> QED
    BY <1>3, <2>2
<1> QED
  BY <1>2, <1>6, <1>7

(* A stretch of a sequence.                                                *)
LEMMA ListsSubSeq ==
  ASSUME NEW S, NEW s, Lists(s, S), NEW a \in Nat \ {0}, NEW b \in Nat, a <= b + 1, b <= Len(s)
  PROVE  Lists(SubSeq(s, a, b), {s[i] : i \in a .. b})
<1>1. PICK n \in Nat : n = Len(s) /\ DOMAIN s = 1 .. n /\ s \in Seq(S)
  BY LenProperties DEF Lists
<1> DEFINE t == SubSeq(s, a, b)
           U == {s[i] : i \in a .. b}
<1>2. /\ t \in Seq(U) /\ Len(t) = b - a + 1
      /\ \A i \in 1 .. b - a + 1 : t[i] = s[a + i - 1]
  <2>1. \A i \in a .. b : s[i] \in U
    OBVIOUS
  <2> HIDE DEF U
  <2>2. /\ t \in Seq(U) /\ Len(t) = IF a <= b THEN b - a + 1 ELSE 0
        /\ \A i \in 1 .. b - a + 1 : t[i] = s[a + i - 1]
    BY <2>1, SubSeqProperties
  <2>3. (IF a <= b THEN b - a + 1 ELSE 0) = b - a + 1
    OBVIOUS
  <2> QED
    BY <2>2, <2>3
<1> HIDE DEF t
<1>3. DOMAIN t = 1 .. b - a + 1
  BY <1>2
<1>4. ASSUME NEW x \in U PROVE \E i \in DOMAIN t : t[i] = x
  <2>1. PICK i \in a .. b : x = s[i]
    OBVIOUS
  <2>2. i - a + 1 \in 1 .. b - a + 1 /\ a + (i - a + 1) - 1 = i
    OBVIOUS
  <2>3. t[i - a + 1] = s[a + (i - a + 1) - 1]
    BY <1>2, <2>2
  <2>4. t[i - a + 1] = x
    BY <2>1, <2>2, <2>3
  <2> QED
    BY <1>3, <2>2, <2>4
<1>5. ASSUME NEW i \in DOMAIN t, NEW j \in DOMAIN t, t[i] = t[j] PROVE i = j
  <2>1. i \in 1 .. b - a + 1 /\ j \in 1 .. b - a + 1
    BY <1>3
  <2>2. a + i - 1 \in DOMAIN s /\ a + j - 1 \in DOMAIN s
    BY <1>1, <2>1
  <2>3. s[a + i - 1] = s[a + j - 1]
    BY <1>2, <1>5, <2>1
  <2>4. a + i - 1 = a + j - 1
    BY <2>2, <2>3 DEF Lists
  <2> QED
    BY <2>1, <2>4
<1>6. t \in Seq(U)
  BY <1>2
<1> HIDE DEF U
<1>7. Lists(t, U)
  BY <1>4, <1>5, <1>6 DEF Lists
<1> QED
  BY <1>7 DEF t, U

(* A sequence is as long as the set it lists is large.                     *)
LEMMA ListsLength ==
  ASSUME NEW S, NEW s, Lists(s, S)
  PROVE  IsFiniteSet(S) /\ Cardinality(S) = Len(s)
<1>1. PICK n \in Nat : n = Len(s) /\ DOMAIN s = 1 .. n /\ s \in Seq(S)
  BY LenProperties DEF Lists
<1>2. s \in [1 .. n -> S]
  BY <1>1
<1>3. \A x \in S : \E i \in 1 .. n : s[i] = x
  BY <1>1 DEF Lists
<1>4. \A i, j \in 1 .. n : s[i] = s[j] => i = j
  BY <1>1 DEF Lists
<1>5. s \in Bijection(1 .. n, S)
  BY <1>2, <1>3, <1>4 DEF Bijection, Injection, Surjection, IsInjective
<1>6. ExistsBijection(1 .. n, S)
  BY <1>5 DEF ExistsBijection
<1>7. IsFiniteSet(1 .. n) /\ Cardinality(1 .. n) = n
  BY FS_Interval
<1> QED
  BY <1>1, <1>6, <1>7, FS_Bijection

(* A shorter list.                                                         *)
LEMMA ListsShorter ==
  ASSUME NEW S, NEW s, Lists(s, S), NEW J \in SUBSET S, NEW t, Lists(t, J)
  PROVE  Len(t) <= Len(s)
BY ListsLength, FS_Subset

-----------------------------------------------------------------------------
(* The first k matches of the vector are incompatible with all later ones. *)
Separated(ms, k) ==
    \A a, b \in DOMAIN ms : a <= k /\ a < b => ~Compatible(ms[a], ms[b])

(* The vector when the outer loop has passed its first k places: it has    *)
(* the rays of the matches in S, but for those lost to twins.              *)
MergedUpTo(ms, S, A, k) ==
    /\ \E J : Lists(ms, J) /\ Good(J, A) /\ LeftOf(RaysOf(J), RaysOf(S))
    /\ Separated(ms, k)

(* One run of the inner loop: one more match is merged for good.           *)
LEMMA AbsorbJoins ==
  ASSUME NEW A, NEW S, NEW ms \in Seq(Group(A)), NEW k \in Nat \ {0},
         MergedUpTo(ms, S, A, k - 1)
  PROVE  MergedUpTo(AbsorbAt(ms, k), S, A, k) /\ Len(AbsorbAt(ms, k)) <= Len(ms)
<1>1. PICK n \in Nat : n = Len(ms) /\ DOMAIN ms = 1 .. n
  BY LenProperties
<1>2. PICK J : Lists(ms, J) /\ Good(J, A) /\ LeftOf(RaysOf(J), RaysOf(S))
  BY DEF MergedUpTo
<1>s. Separated(ms, k - 1)
  BY DEF MergedUpTo
<1>3. CASE k > n
  <2>1. AbsorbAt(ms, k) = ms
    BY <1>1, <1>3 DEF AbsorbAt
  <2>2. Separated(ms, k)
    <3>1. ASSUME NEW a \in 1 .. n, NEW b \in 1 .. n, a <= k, a < b PROVE a <= k - 1
      BY <1>3, <3>1
    <3> QED
      BY <1>1, <1>s, <3>1 DEF Separated
  <2>3. Len(ms) <= Len(ms)
    BY <1>1
  <2> QED
    BY <1>2, <2>1, <2>2, <2>3 DEF MergedUpTo
<1>4. CASE k \in 1 .. n
  <2> DEFINE x == ms[k]
             P == {ms[i] : i \in 1 .. k - 1}
             Q == {ms[i] : i \in k + 1 .. n}
             p == SubSeq(ms, 1, k - 1)
             q == SubSeq(ms, k + 1, n)
             end == GatherAll(x, q)
             t == AbsorbAt(ms, k)
  <2>1. t = p \o <<end.m>> \o end.skipped
    <3>1. k <= Len(ms)
      BY <1>1, <1>4
    <3>2. AbsorbAt(ms, k) = Absorb(ms, k)
      BY <3>1 DEF AbsorbAt
    <3>3. Absorb(ms, k) = SubSeq(ms, 1, k - 1)
              \o <<GatherAll(ms[k], SubSeq(ms, k + 1, Len(ms))).m>>
              \o GatherAll(ms[k], SubSeq(ms, k + 1, Len(ms))).skipped
      BY Zenon DEF Absorb, Start, GatherAll
    <3> QED
      BY <1>1, <3>2, <3>3, Zenon
  <2>2. Lists(p, P)
    <3>1. 1 \in Nat \ {0} /\ k - 1 \in Nat /\ 1 <= (k - 1) + 1 /\ k - 1 <= Len(ms)
      BY <1>1, <1>4
    <3> QED
      BY <1>2, <3>1, ListsSubSeq
  <2>3. Lists(q, Q)
    <3>1. k + 1 \in Nat \ {0} /\ n \in Nat /\ k + 1 <= n + 1 /\ n <= Len(ms)
      BY <1>1, <1>4
    <3> QED
      BY <1>2, <3>1, ListsSubSeq
  <2>4. /\ J = P \cup {x} \cup Q /\ P \cap Q = {} /\ x \notin P /\ x \notin Q
    <3>1. \A y \in J : \E i \in 1 .. n : ms[i] = y
      BY <1>1, <1>2 DEF Lists
    <3>2. \A i \in 1 .. n : ms[i] \in J
      BY <1>1, <1>2 DEF Lists
    <3>3. \A i, j \in 1 .. n : ms[i] = ms[j] => i = j
      BY <1>1, <1>2 DEF Lists
    <3>4. \A i \in 1 .. n : i \in 1 .. k - 1 \/ i = k \/ i \in k + 1 .. n
      BY <1>4
    <3>5. \A i \in 1 .. k - 1 : i \in 1 .. n /\ i # k /\ i \notin k + 1 .. n
      BY <1>4
    <3>6. \A i \in k + 1 .. n : i \in 1 .. n /\ i # k
      BY <1>4
    <3>7. J \subseteq P \cup {x} \cup Q
      BY <3>1, <3>4
    <3>8. P \cup {x} \cup Q \subseteq J
      BY <1>4, <3>2, <3>5, <3>6
    <3>9. P \cap Q = {}
      BY <3>3, <3>5, <3>6
    <3>10. x \notin P /\ x \notin Q
      BY <1>4, <3>3, <3>5, <3>6
    <3> QED
      BY <3>7, <3>8, <3>9, <3>10
  <2>p. p \in Seq(Group(A)) /\ Len(p) = k - 1 /\ \A i \in 1 .. k - 1 : p[i] = ms[i]
    <3>1. \A i \in 1 .. k - 1 : ms[i] \in Group(A)
      BY <1>1, <1>4
    <3>2. /\ p \in Seq(Group(A)) /\ Len(p) = IF 1 <= k - 1 THEN k - 1 - 1 + 1 ELSE 0
          /\ \A i \in 1 .. k - 1 - 1 + 1 : p[i] = ms[1 + i - 1]
      BY <3>1, SubSeqProperties
    <3> HIDE DEF p
    <3> QED
      BY <3>2
  <2>q. Len(q) = n - k
    <3>1. \A i \in k + 1 .. n : ms[i] \in Group(A)
      BY <1>1, <1>4
    <3>2. Len(q) = IF k + 1 <= n THEN n - (k + 1) + 1 ELSE 0
      BY <3>1, SubSeqProperties
    <3> HIDE DEF q
    <3> QED
      BY <1>4, <3>2
  <2>after. \A y \in Q : \E i \in k + 1 .. n : y = ms[i]
    OBVIOUS
  <2>before. \A y \in P : \E i \in 1 .. k - 1 : y = ms[i]
    OBVIOUS
  <2>good. P \in SUBSET J /\ Q \in SUBSET J /\ x \in J
    BY <2>4
  <2>5. x \in Group(A) /\ Fit(x) /\ Q \in SUBSET Group(A) /\ \A y \in Q : Fit(y)
    BY <1>2, <2>good DEF Good
  <2> HIDE DEF P, Q, x, p, q
  <2>6. PICK K \in SUBSET Q :
        /\ Lists(end.skipped, K)
        /\ end.m \in Group(A) /\ Fit(end.m)
        /\ LeftOf(end.m.rays, x.rays \cup RaysOf(Q \ K)) /\ x.rays \subseteq end.m.rays
        /\ \A y \in K : ~Compatible(end.m, y)
    <3>1. Gathered(end, x, Q, A)
      BY <2>3, <2>5, GatherAllJoins
    <3> QED
      BY <3>1 DEF Gathered
  <2> HIDE DEF end
  <2> DEFINE e == end.m
             U == P \cup {e} \cup K
  <2>7. \A y \in P \cup K : y.rays \cap e.rays = {} /\ y.rays # {} /\ e.rays # {}
    <3> SUFFICES ASSUME NEW y \in P \cup K PROVE y.rays \cap e.rays = {} /\ y.rays # {} /\ e.rays # {}
      OBVIOUS
    <3>1. y \in J /\ y # x /\ y \notin Q \ K
      BY <2>4, <2>6
    <3>2. y.rays \cap x.rays = {}
      BY <1>2, <2>good, <3>1 DEF Good, Tidy
    <3>3. \A z \in Q \ K : y.rays \cap z.rays = {}
      BY <1>2, <2>good, <3>1 DEF Good, Tidy
    <3>4. y.rays \cap RaysOf(Q \ K) = {}
      BY <3>3 DEF RaysOf
    <3>5. y.rays # {} /\ e.rays # {}
      BY <1>2, <2>6, <3>1 DEF Good, Fit
    <3>6. e.rays \subseteq x.rays \cup RaysOf(Q \ K)
      BY <2>6 DEF LeftOf
    <3> QED
      BY <3>2, <3>4, <3>5, <3>6
  <2>8. e \notin P /\ e \notin K
    BY <2>7
  <2>9. Lists(t, U)
    <3>1. Lists(<<e>>, {e})
      BY DEF Lists
    <3>2. Lists(p \o <<e>>, P \cup {e})
      BY <2>2, <2>8, <3>1, ListsConcat
    <3>3. (P \cup {e}) \cap K = {}
      BY <2>4, <2>6, <2>8
    <3>4. Lists((p \o <<e>>) \o end.skipped, P \cup {e} \cup K)
      BY <2>6, <3>2, <3>3, ListsConcat
    <3> QED
      BY <2>1, <3>4, Zenon
  <2>10. Good(U, A)
    <3>1. U \subseteq Group(A) /\ \A y \in U : Fit(y)
      BY <1>2, <2>good, <2>6 DEF Good
    <3>2. Tidy(U)
      <4>1. ASSUME NEW y \in P \cup K, NEW z \in P \cup K, y # z PROVE y.rays \cap z.rays = {}
        BY <1>2, <2>good, <2>6, <4>1 DEF Good, Tidy
      <4> QED
        BY <2>7, <4>1 DEF Tidy
    <3> QED
      BY <3>1, <3>2 DEF Good
  <2>11. LeftOf(RaysOf(U), RaysOf(S))
    <3>1. RaysOf(U) = RaysOf(P) \cup e.rays \cup RaysOf(K)
      BY DEF RaysOf
    <3>2. RaysOf(J) = RaysOf(P) \cup x.rays \cup RaysOf(Q)
      BY <2>4 DEF RaysOf
    <3>3. RaysOf(Q) = RaysOf(Q \ K) \cup RaysOf(K)
      <4>1. Q = (Q \ K) \cup K
        OBVIOUS
      <4>2. RaysOf((Q \ K) \cup K) = RaysOf(Q \ K) \cup RaysOf(K)
        BY DEF RaysOf
      <4> QED
        BY <4>1, <4>2
    <3>4. LeftOf(RaysOf(P) \cup RaysOf(K), RaysOf(P) \cup RaysOf(K))
      BY DEF LeftOf
    <3>5. LeftOf(e.rays \cup (RaysOf(P) \cup RaysOf(K)),
                 (x.rays \cup RaysOf(Q \ K)) \cup (RaysOf(P) \cup RaysOf(K)))
      BY <2>6, <3>4, LeftBoth
    <3>6. /\ e.rays \cup (RaysOf(P) \cup RaysOf(K)) = RaysOf(U)
          /\ (x.rays \cup RaysOf(Q \ K)) \cup (RaysOf(P) \cup RaysOf(K)) = RaysOf(J)
      BY <3>1, <3>2, <3>3
    <3>7. LeftOf(RaysOf(U), RaysOf(J))
      BY <3>5, <3>6
    <3> QED
      BY <1>2, <3>7, LeftAgain
  <2>12. PICK l \in Nat : l = Len(end.skipped) /\ l <= n - k
    <3>1. Len(end.skipped) <= Len(q)
      BY <2>3, <2>6, ListsShorter
    <3>2. end.skipped \in Seq(K)
      BY <2>6 DEF Lists
    <3>3. Len(end.skipped) \in Nat
      BY <3>2, LenProperties
    <3> QED
      BY <2>q, <3>1, <3>3
  <2>13. /\ DOMAIN t = 1 .. k + l /\ Len(t) = k + l
         /\ \A i \in 1 .. k - 1 : t[i] = ms[i]
         /\ t[k] = e
         /\ \A i \in k + 1 .. k + l : t[i] \in K
    <3> DEFINE u == p \o <<e>>
    <3>1. end.skipped \in Seq(Group(A)) /\ \A i \in 1 .. l : end.skipped[i] \in K
      <4>1. end.skipped \in Seq(K) /\ K \subseteq Group(A)
        BY <2>5, <2>6 DEF Lists
      <4> QED
        BY <2>12, <4>1
    <3>2. <<e>> \in Seq(Group(A)) /\ Len(<<e>>) = 1 /\ <<e>>[1] = e
      BY <2>6
    <3> HIDE DEF e
    <3>3. /\ u \in Seq(Group(A)) /\ Len(u) = Len(p) + 1
          /\ \A i \in 1 .. Len(p) + 1 : u[i] = IF i <= Len(p) THEN p[i] ELSE <<e>>[i - Len(p)]
      BY <2>p, <3>2, ConcatProperties
    <3> HIDE DEF u
    <3>4. Len(u) = k /\ u[k] = e /\ \A i \in 1 .. k - 1 : u[i] = ms[i]
      BY <1>4, <2>p, <3>2, <3>3
    <3>5. t = u \o end.skipped
      BY <2>1 DEF u, e
    <3>6. /\ u \o end.skipped \in Seq(Group(A)) /\ Len(u \o end.skipped) = Len(u) + Len(end.skipped)
          /\ \A i \in 1 .. Len(u) + Len(end.skipped) :
                (u \o end.skipped)[i] = IF i <= Len(u) THEN u[i] ELSE end.skipped[i - Len(u)]
      BY <3>1, <3>3, ConcatProperties
    <3> HIDE DEF t
    <3>7. /\ t \in Seq(Group(A)) /\ Len(t) = k + l
          /\ \A i \in 1 .. k + l : t[i] = IF i <= k THEN u[i] ELSE end.skipped[i - k]
      BY <2>12, <3>4, <3>5, <3>6
    <3>8. DOMAIN t = 1 .. k + l
      BY <3>7
    <3>9. \A i \in 1 .. k - 1 : t[i] = ms[i]
      BY <2>12, <3>4, <3>7
    <3>10. t[k] = e
      BY <1>4, <2>12, <3>4, <3>7
    <3>11. ASSUME NEW i \in k + 1 .. k + l PROVE t[i] \in K
      <4>1. i \in 1 .. k + l /\ ~(i <= k) /\ i - k \in 1 .. l
        OBVIOUS
      <4> QED
        BY <3>1, <3>7, <4>1
    <3> QED
      BY <3>7, <3>8, <3>9, <3>10, <3>11
  <2>14. Separated(t, k)
    <3> SUFFICES ASSUME NEW a \in 1 .. k + l, NEW b \in 1 .. k + l, a <= k, a < b
                 PROVE  ~Compatible(t[a], t[b])
      BY <2>13 DEF Separated
    <3>0. a \in Int /\ b \in Int /\ k \in Int /\ l \in Int
      OBVIOUS
    <3>1. CASE a = k
      <4>1. b \in k + 1 .. k + l
        BY <3>1
      <4> QED
        BY <2>6, <2>13, <3>1, <4>1
    <3>2. CASE a # k
      <4>1. a \in 1 .. k - 1 /\ a \in 1 .. n /\ a <= k - 1 /\ t[a] = ms[a]
        BY <1>4, <2>13, <3>2
      <4>2. ASSUME NEW i \in 1 .. n, a < i PROVE ~Compatible(ms[a], ms[i])
        BY <1>1, <1>s, <4>1, <4>2 DEF Separated
      <4>3. CASE b \in 1 .. k - 1
        <5>1. b \in 1 .. n /\ t[b] = ms[b]
          BY <1>4, <2>13, <4>3
        <5> QED
          BY <4>1, <4>2, <5>1
      <4>4. CASE b = k
        <5>1. ~Compatible(ms[a], x)
          BY <1>4, <4>1, <4>2, <4>4 DEF x
        <5>2. ~Compatible(x, ms[a])
          BY <5>1, Symmetric
        <5>3. x.rays \subseteq e.rays
          BY <2>6
        <5>4. ~Compatible(ms[a], e)
          BY <5>2, <5>3, StaysApart
        <5> QED
          BY <2>13, <4>1, <4>4, <5>4
      <4>5. CASE b \in k + 1 .. k + l
        <5>1. PICK i \in k + 1 .. n : t[b] = ms[i]
          BY <2>6, <2>13, <2>after, <4>5
        <5>2. i \in 1 .. n /\ a < i
          BY <1>4, <4>1
        <5> QED
          BY <4>1, <4>2, <5>1, <5>2
      <4> QED
        BY <3>0, <4>3, <4>4, <4>5
    <3> QED
      BY <3>1, <3>2
  <2>15. Len(t) <= Len(ms)
    BY <1>1, <1>4, <2>12, <2>13
  <2> HIDE DEF t, U
  <2>16. MergedUpTo(t, S, A, k)
    BY <2>9, <2>10, <2>11, <2>14 DEF MergedUpTo
  <2> QED
    BY <2>15, <2>16 DEF t
<1> QED
  BY <1>1, <1>3, <1>4

(* mergeMatches: the matches it leaves have the rays of those it found,    *)
(* but for rays lost to twins, and no two of them could still be merged.   *)
Merges(ms, S, A) ==
    \E J : /\ Lists(ms, J) /\ Good(J, A) /\ LeftOf(RaysOf(J), RaysOf(S))
           /\ \A x, y \in J : x # y => ~Compatible(x, y)

(* mergeMatches loses no ray but to a twin and leaves nothing that could   *)
(* be merged.                                                              *)
THEOREM MergeJoins ==
  ASSUME NEW A, NEW S, Good(S, A), NEW ms, Lists(ms, S)
  PROVE  Merges(MergeMatches(ms), S, A)
<1>1. PICK n \in Nat : n = Len(ms) /\ DOMAIN ms = 1 .. n /\ ms \in Seq(S)
  BY LenProperties DEF Lists
<1>2. ms \in Seq(Group(A))
  BY <1>1 DEF Good
<1>a. PICK r \in [0 .. Len(ms) -> Seq(Group(A))] :
            /\ r[0] = ms /\ MergeMatches(ms) = r[Len(ms)]
            /\ \A k \in 1 .. Len(ms) : r[k] = AbsorbAt(r[k - 1], k)
  BY <1>2, MergeSteps
<1>3. /\ r[0] = ms /\ MergeMatches(ms) = r[n]
      /\ \A k \in 0 .. n : r[k] \in Seq(Group(A)) /\ Len(r[k]) \in Nat
      /\ \A k \in 1 .. n : r[k] = AbsorbAt(r[k - 1], k)
  BY <1>1, <1>a, LenProperties
<1> DEFINE T == {k \in Nat : MergedUpTo(r[k], S, A, k) /\ Len(r[k]) <= n}
<1>4. 0 \in T
  <2>1. Separated(ms, 0)
    BY <1>1 DEF Separated
  <2>a. LeftOf(RaysOf(S), RaysOf(S))
    BY DEF LeftOf
  <2>2. MergedUpTo(ms, S, A, 0)
    BY <2>1, <2>a DEF MergedUpTo
  <2> QED
    BY <1>1, <1>3, <2>2
<1>5. ASSUME NEW k \in 1 .. n, k - 1 \in T PROVE k \in T
  <2>1. /\ MergedUpTo(r[k - 1], S, A, k - 1) /\ Len(r[k - 1]) <= n
        /\ r[k - 1] \in Seq(Group(A)) /\ k \in Nat \ {0}
        /\ r[k] = AbsorbAt(r[k - 1], k)
        /\ Len(r[k - 1]) \in Nat /\ Len(r[k]) \in Nat
    BY <1>3, <1>5
  <2>2. MergedUpTo(AbsorbAt(r[k - 1], k), S, A, k) /\ Len(AbsorbAt(r[k - 1], k)) <= Len(r[k - 1])
    BY <2>1, AbsorbJoins
  <2>3. MergedUpTo(r[k], S, A, k) /\ Len(r[k]) <= Len(r[k - 1])
    BY <2>1, <2>2
  <2> QED
    BY <2>1, <2>3
<1>6. n \in T
  <2> HIDE DEF T
  <2>1. \A k \in 0 .. n : k \in T
    BY <1>1, <1>4, <1>5, BoundedInduction
  <2> QED
    BY <1>1, <2>1
<1> DEFINE t == MergeMatches(ms)
<1>7. /\ Separated(t, n) /\ Len(t) \in Nat /\ Len(t) <= n /\ t \in Seq(Group(A))
      /\ \E J : Lists(t, J) /\ Good(J, A) /\ LeftOf(RaysOf(J), RaysOf(S))
  BY <1>1, <1>3, <1>6 DEF MergedUpTo
<1> HIDE DEF t
<1>8. PICK J : Lists(t, J) /\ Good(J, A) /\ LeftOf(RaysOf(J), RaysOf(S))
  BY <1>7
<1>9. ASSUME NEW x \in J, NEW y \in J, x # y PROVE ~Compatible(x, y)
  <2>1. PICK i \in DOMAIN t, j \in DOMAIN t : t[i] = x /\ t[j] = y
    BY <1>8 DEF Lists
  <2>2. i \in 1 .. Len(t) /\ j \in 1 .. Len(t) /\ i # j
    BY <1>7, <1>9, <2>1
  <2>3. CASE i < j
    BY <1>1, <1>7, <2>1, <2>2, <2>3 DEF Separated
  <2>4. CASE j < i
    <3>1. ~Compatible(y, x)
      BY <1>1, <1>7, <2>1, <2>2, <2>4 DEF Separated
    <3> QED
      BY <3>1, Symmetric
  <2> QED
    BY <2>2, <2>3, <2>4
<1> QED
  BY <1>8, <1>9 DEF Merges, t

-----------------------------------------------------------------------------
(* A finite set of numbers can be put in order.                            *)
Increasing(s) == \A i, j \in DOMAIN s : i < j => s[i] < s[j]

(* A finite set of ids can be listed in increasing order.                  *)
LEMMA OrderExists ==
  ASSUME NEW S \in SUBSET Nat, IsFiniteSet(S)
  PROVE  \E s \in [1 .. Cardinality(S) -> S] : Increasing(s)
<1> DEFINE T == {n \in Nat : \A U \in SUBSET Nat :
                   IsFiniteSet(U) /\ Cardinality(U) = n => \E s \in [1 .. n -> U] : Increasing(s)}
<1>1. 0 \in T
  <2> SUFFICES ASSUME NEW U \in SUBSET Nat PROVE \E s \in [1 .. 0 -> U] : Increasing(s)
    OBVIOUS
  <2>1. <<>> \in [1 .. 0 -> U] /\ Increasing(<<>>)
    BY DEF Increasing
  <2> QED
    BY <2>1
<1>2. ASSUME NEW n \in Nat, n \in T PROVE n + 1 \in T
  <2> SUFFICES ASSUME NEW U \in SUBSET Nat, IsFiniteSet(U), Cardinality(U) = n + 1
               PROVE  \E s \in [1 .. n + 1 -> U] : Increasing(s)
    OBVIOUS
  <2>1. U # {}
    BY FS_EmptySet
  <2>2. PICK x \in U : \A y \in U : x <= y
    BY <2>1, LeastNumber
  <2>3. IsFiniteSet(U \ {x}) /\ Cardinality(U \ {x}) = n
    <3>1. IsFiniteSet(U \ {x}) /\ Cardinality(U \ {x}) = Cardinality(U) - 1
      BY FS_RemoveElement
    <3> QED
      BY <3>1
  <2>4. PICK s \in [1 .. n -> U \ {x}] : Increasing(s)
    <3>1. U \ {x} \in SUBSET Nat
      OBVIOUS
    <3> QED
      BY <1>2, <2>3, <3>1
  <2> DEFINE t == [i \in 1 .. n + 1 |-> IF i = 1 THEN x ELSE s[i - 1]]
  <2>5. t \in [1 .. n + 1 -> U]
    <3>1. \A i \in 1 .. n + 1 : i # 1 => i - 1 \in 1 .. n
      OBVIOUS
    <3> QED
      BY <3>1
  <2>6. ASSUME NEW i \in 1 .. n + 1, NEW j \in 1 .. n + 1, i < j PROVE t[i] < t[j]
    <3>1. j - 1 \in 1 .. n /\ t[j] = s[j - 1] /\ s[j - 1] \in U /\ s[j - 1] # x
      BY <2>6
    <3>2. CASE i = 1
      <4>1. t[i] = x /\ x <= s[j - 1] /\ x \in Nat /\ s[j - 1] \in Nat
        BY <2>2, <3>1, <3>2
      <4> HIDE DEF t
      <4> QED
        BY <3>1, <4>1
    <3>3. CASE i # 1
      <4>1. i - 1 \in 1 .. n /\ i - 1 < j - 1 /\ t[i] = s[i - 1]
        BY <2>6, <3>3
      <4> QED
        BY <2>4, <3>1, <4>1 DEF Increasing
    <3> QED
      BY <3>2, <3>3
  <2>7. Increasing(t)
    BY <2>5, <2>6 DEF Increasing
  <2> QED
    BY <2>5, <2>7
<1>3. Nat \subseteq T
  <2> HIDE DEF T
  <2> QED
    BY <1>1, <1>2, Induction
<1>4. Cardinality(S) \in Nat
  BY FS_CardinalityType
<1> QED
  BY <1>3, <1>4

(* The iterator of std::map meets each source once.                        *)
LEMMA InOrderLists ==
  ASSUME NEW S \in SUBSET Nat, IsFiniteSet(S)
  PROVE  Lists(InOrder(S), S)
<1> DEFINE n == Cardinality(S)
           s == InOrder(S)
<1>1. n \in Nat
  BY FS_CardinalityType
<1>2. s \in [1 .. n -> S] /\ \A i, j \in 1 .. n : i < j => s[i] < s[j]
  <2>1. PICK u \in [1 .. n -> S] : Increasing(u)
    BY OrderExists
  <2>2. u \in [1 .. n -> S] /\ \A i, j \in DOMAIN u : i < j => u[i] < u[j]
    BY <2>1 DEF Increasing
  <2>3. s \in [1 .. n -> S] /\ \A i, j \in DOMAIN s : i < j => s[i] < s[j]
    BY <2>2, Zenon DEF InOrder
  <2> HIDE DEF s, n
  <2> QED
    BY <2>3
<1> HIDE DEF s
<1>3. \A i, j \in 1 .. n : s[i] = s[j] => i = j
  <2> SUFFICES ASSUME NEW i \in 1 .. n, NEW j \in 1 .. n, s[i] = s[j], i # j PROVE FALSE
    OBVIOUS
  <2>1. s[i] \in Nat /\ s[j] \in Nat /\ ~(s[i] < s[j]) /\ ~(s[j] < s[i])
    <3>1. s[i] \in S /\ s[j] \in S
      BY <1>2
    <3>2. s[i] \in Nat
      BY <3>1
    <3> QED
      BY <3>2
  <2>2. i < j \/ j < i
    BY <1>1
  <2> QED
    BY <1>2, <2>1, <2>2
<1>4. s \in Injection(1 .. n, S)
  BY <1>2, <1>3 DEF Injection, IsInjective
<1>5. s \in Surjection(1 .. n, S)
  <2>1. IsFiniteSet(1 .. n) /\ Cardinality(1 .. n) = n
    BY <1>1, FS_Interval
  <2> QED
    BY <1>4, <2>1, FS_Injection
<1>6. \A x \in S : \E i \in 1 .. n : s[i] = x
  BY <1>5 DEF Surjection
<1>7. s \in Seq(S) /\ DOMAIN s = 1 .. n
  BY <1>1, <1>2
<1>8. Lists(s, S)
  BY <1>3, <1>6, <1>7 DEF Lists
<1> QED
  BY <1>8 DEF s

-----------------------------------------------------------------------------
(* The rays a client has sent are numbered and come from frames that are   *)
(* apart in time; a client thread in addRay holds the next one.            *)
Mine(c) == {r \in added : r.client = c}

Sent ==
    /\ added \in SUBSET Rays /\ IsFiniteSet(added)
    /\ \A r \in added : r.nr < Cardinality(Mine(r.client))

Spaced ==
    \A r, s \in added :
        r.client = s.client /\ r.id # s.id =>
            r.time + MinFrameGap <= s.time \/ s.time + MinFrameGap <= r.time

HoldsNext ==
    \A c \in Clients : cpc[c] \in {"lookup", "inserting", "pushing"} =>
        /\ ray[c].client = c
        /\ ray[c].nr = Cardinality(Mine(c))
        /\ \A r \in Mine(c) : r.id # ray[c].id => r.time + MinFrameGap <= ray[c].time

SentInv == Sent /\ Spaced /\ HoldsNext

(* Steps that add no ray.                                                  *)
LEMMA SentStays ==
  ASSUME SentInv, UNCHANGED added,
         \A c \in Clients : cpc'[c] \in {"lookup", "inserting", "pushing"} =>
            cpc[c] \in {"lookup", "inserting", "pushing"} /\ ray'[c] = ray[c]
  PROVE  SentInv'
BY DEF SentInv, Sent, Spaced, HoldsNext, Mine

(* A ray that arrives is spaced from those of its client.                  *)
LEMMA NewRaySent ==
  ASSUME ThreadInv, SentInv, NEW c \in Clients, NewRay(c)
  PROVE  SentInv'
<1>1. /\ cpc' = [cpc EXCEPT ![c] = "lookup"] /\ UNCHANGED added
      /\ cpc \in [Clients -> {"running", "lookup", "inserting", "pushing", "removing", "gone"}]
      /\ ray \in [Clients -> Rays \cup {NoRay}]
  BY DEF NewRay, ThreadInv, ThreadTypeOK
<1>2. PICK m \in Markers, t \in Int, f \in Nat :
         /\ \A r \in Mine(c) : r.id # f => r.time + MinFrameGap <= t
         /\ ray' = [ray EXCEPT ![c] =
              [client |-> c, id |-> f, nr |-> Cardinality(Mine(c)), marker |-> m, time |-> t]]
  <2>1. PICK m \in Markers, t \in now - MaxLag .. now, f \in 0 .. Cardinality(Mine(c)) :
           /\ \A r \in Mine(c) : OfFrame(r, f, t) \/ Before(r, f, t)
           /\ ray' = [ray EXCEPT ![c] =
                [client |-> c, id |-> f, nr |-> Cardinality(Mine(c)), marker |-> m, time |-> t]]
    BY DEF NewRay, Mine
  <2>2. \A r \in Mine(c) : r.id # f => r.time + MinFrameGap <= t
    BY <2>1 DEF OfFrame, Before
  <2>3. t \in Int /\ f \in Nat
    OBVIOUS
  <2> QED
    BY <2>1, <2>2, <2>3
<1>3. Sent' /\ Spaced' /\ \A d : Mine(d)' = Mine(d)
  BY <1>1 DEF SentInv, Sent, Spaced, Mine
<1>4. HoldsNext'
  <2> SUFFICES ASSUME NEW d \in Clients, cpc'[d] \in {"lookup", "inserting", "pushing"}
               PROVE  /\ ray'[d].client = d
                      /\ ray'[d].nr = Cardinality(Mine(d))
                      /\ \A r \in Mine(d) : r.id # ray'[d].id => r.time + MinFrameGap <= ray'[d].time
    BY <1>3 DEF HoldsNext
  <2>1. CASE d = c
    <3>1. ray'[d] = [client |-> c, id |-> f, nr |-> Cardinality(Mine(c)), marker |-> m, time |-> t]
      BY <1>1, <1>2, <2>1
    <3> QED
      BY <1>2, <2>1, <3>1
  <2>2. CASE d # c
    <3>1. ray'[d] = ray[d] /\ cpc'[d] = cpc[d]
      BY <1>1, <1>2, <2>2
    <3> QED
      BY <3>1 DEF SentInv, HoldsNext
  <2> QED
    BY <2>1, <2>2
<1> QED
  BY <1>3, <1>4 DEF SentInv

(* The ray that is pushed is a new one.                                    *)
LEMMA PushIsNew ==
  ASSUME ThreadInv, SentInv, NEW c \in Clients, cpc[c] = "pushing"
  PROVE  /\ ray[c] \in Rays /\ ray[c] \notin added /\ ray[c].client = c
         /\ ray[c].nr = Cardinality(Mine(c)) /\ Cardinality(Mine(c)) \in Nat
<1>1. ray[c] \in Rays /\ ray[c].client = c /\ ray[c].nr = Cardinality(Mine(c))
  BY DEF ThreadInv, HoldsRay, SentInv, HoldsNext
<1>2. Mine(c) \in SUBSET added
  BY DEF Mine
<1>3. Cardinality(Mine(c)) \in Nat
  BY <1>2, FS_Subset, FS_CardinalityType DEF SentInv, Sent
<1>4. ray[c] \notin added
  <2> SUFFICES ASSUME ray[c] \in added PROVE FALSE
    OBVIOUS
  <2>1. ray[c].nr < Cardinality(Mine(c))
    BY <1>1 DEF SentInv, Sent
  <2> QED
    BY <1>1, <1>3, <2>1
<1> QED
  BY <1>1, <1>3, <1>4

(* A ray that is pushed is one that was sent.                              *)
LEMMA PushSent ==
  ASSUME ThreadInv, SentInv, NEW c \in Clients, AddRayPush(c)
  PROVE  SentInv'
<1>1. /\ cpc[c] = "pushing"
      /\ added' = added \cup {ray[c]}
      /\ ray' = [ray EXCEPT ![c] = NoRay]
      /\ cpc' = [cpc EXCEPT ![c] = "running"]
      /\ cpc \in [Clients -> {"running", "lookup", "inserting", "pushing", "removing", "gone"}]
      /\ ray \in [Clients -> Rays \cup {NoRay}]
  BY DEF AddRayPush, ThreadInv, ThreadTypeOK
<1> DEFINE x == ray[c]
           k == Cardinality(Mine(c))
<1>2. /\ x \in Rays /\ x \notin added /\ x.client = c /\ x.nr = k /\ k \in Nat
  BY <1>1, PushIsNew
<1>3. \A r \in Mine(c) : r.id # x.id => r.time + MinFrameGap <= x.time
  BY <1>1 DEF SentInv, HoldsNext
<1>4. Mine(c)' = Mine(c) \cup {x} /\ \A d : d # c => Mine(d)' = Mine(d)
  BY <1>1, <1>2 DEF Mine
<1>5. Cardinality(Mine(c)') = k + 1
  <2>1. IsFiniteSet(Mine(c)) /\ x \notin Mine(c)
    <3>1. Mine(c) \in SUBSET added
      BY DEF Mine
    <3> QED
      BY <1>2, <3>1, FS_Subset DEF SentInv, Sent
  <2> HIDE DEF x, k
  <2>2. Cardinality(Mine(c) \cup {x}) = Cardinality(Mine(c)) + 1
    BY <2>1, FS_AddElement
  <2> QED
    BY <1>4, <2>2 DEF k
<1>r. \A r \in added : r \in Rays
  BY DEF SentInv, Sent
<1> HIDE DEF x
<1>6. Sent'
  <2>1. added' \in SUBSET Rays /\ IsFiniteSet(added')
    BY <1>1, <1>2, <1>r, FS_AddElement DEF SentInv, Sent, x
  <2>2. ASSUME NEW r \in added' PROVE r.nr < Cardinality(Mine(r.client)')
    <3>1. CASE r = x
      <4>1. r.nr = k /\ r.client = c
        BY <1>2, <3>1
      <4>2. Cardinality(Mine(r.client)') = k + 1
        BY <1>5, <4>1
      <4> HIDE DEF k
      <4> QED
        BY <1>2, <4>1, <4>2
    <3>2. CASE r \in added /\ r.client = c
      <4>1. r.nr < k
        BY <3>2 DEF SentInv, Sent
      <4>2. r.nr \in Nat
        BY <1>r, <3>2 DEF Rays
      <4> QED
        BY <1>2, <1>5, <3>2, <4>1, <4>2
    <3>3. CASE r \in added /\ r.client # c
      BY <1>4, <3>3 DEF SentInv, Sent
    <3> QED
      BY <1>1, <3>1, <3>2, <3>3 DEF x
  <2> QED
    BY <2>1, <2>2 DEF Sent
<1>7. Spaced'
  <2>1. ASSUME NEW r \in added, r.client = x.client, r.id # x.id
        PROVE  r.time + MinFrameGap <= x.time
    BY <1>2, <1>3, <2>1 DEF Mine
  <2> QED
    BY <1>1, <2>1 DEF SentInv, Spaced, x
<1>8. HoldsNext'
  <2> SUFFICES ASSUME NEW d \in Clients, cpc'[d] \in {"lookup", "inserting", "pushing"}
               PROVE  /\ ray'[d].client = d
                      /\ ray'[d].nr = Cardinality(Mine(d)')
                      /\ \A r \in Mine(d)' : r.id # ray'[d].id => r.time + MinFrameGap <= ray'[d].time
    BY DEF HoldsNext
  <2>1. d # c
    BY <1>1
  <2>2. ray'[d] = ray[d] /\ cpc'[d] = cpc[d] /\ Mine(d)' = Mine(d)
    BY <1>1, <1>4, <2>1
  <2> QED
    BY <2>2 DEF SentInv, HoldsNext
<1> QED
  BY <1>6, <1>7, <1>8 DEF SentInv

-----------------------------------------------------------------------------
(* Where the rays are, as sets: in the deque of a source, in the matches   *)
(* of a marker that wait, in those that are done with.                     *)
Deque(d, m) == ToSet(data[d].rays[m])
Queued == UNION {Deque(d, m) : d \in DOMAIN data, m \in Markers}
Waiting(m) == ToSet(search[m])
InSearch == UNION {RaysOf(Waiting(m)) : m \in Markers}
Done == results \cup expired

(* What was sent with marker m, by client d.                               *)
Of(m) == {r \in added : r.marker = m}
From(d, m) == {r \in added : r.client = d /\ r.marker = m}

(* A deque holds rays of its client and marker, each of them once.         *)
QueueInv ==
    /\ IsFiniteSet(DOMAIN data)
    /\ \A d \in DOMAIN data, m \in Markers :
          Lists(data[d].rays[m], Deque(d, m)) /\ Deque(d, m) \subseteq From(d, m)

(* The matches of a marker that wait share no ray, each has rays close to  *)
(* each other, and no two of them could be merged.                         *)
Unmergeable(S) == \A x, y \in S : x # y => ~Compatible(x, y)

SearchInv ==
    /\ search = [m \in Markers |-> search[m]]
    /\ \A m \in Markers :
          Lists(search[m], Waiting(m)) /\ Good(Waiting(m), Of(m)) /\ Unmergeable(Waiting(m))

(* So have the matches that are done with, and those reported have enough. *)
DoneInv ==
    /\ \A x \in Done : Fit(x) /\ \E m \in Markers : x \in Group(Of(m))
    /\ Tidy(Done)
    /\ results \cap expired = {}
    /\ \A x \in results : Cardinality(x.rays) >= MinMatches

(* Four sets with nothing in common, which are all of a but for rays lost  *)
(* to twins in the two that matches are made of.                           *)
LostTo(s, l) == \A r \in l : \E twin \in s : SameRay(twin, r)
Parts(a, q, s, g, d) ==
    /\ q \cup s \cup g \cup d \subseteq a
    /\ LostTo(s \cup g, a \ (q \cup s \cup g \cup d))
    /\ q \cap s = {} /\ q \cap g = {} /\ q \cap d = {}
    /\ s \cap g = {} /\ s \cap d = {} /\ g \cap d = {}

PlaceInv == Parts(added, Queued, InSearch, RaysOf(Done), dropped)

RayInv == SentInv /\ QueueInv /\ SearchInv /\ DoneInv /\ PlaceInv

-----------------------------------------------------------------------------
(* The set of the elements of a sequence that lists S.                     *)
LEMMA ListsToSet ==
  ASSUME NEW S, NEW s, Lists(s, S)
  PROVE  ToSet(s) = S
<1>1. s \in Seq(S)
  BY DEF Lists
<1>2. \A i \in DOMAIN s : s[i] \in S
  BY <1>1
<1> QED
  BY <1>2 DEF Lists, ToSet

(* More rays sent leave a group of rays that were sent one.                *)
LEMMA GroupGrows ==
  ASSUME NEW A, NEW B, A \subseteq B
  PROVE  Group(A) \subseteq Group(B)
BY DEF Group

(* The deques hold what they held if the sources there were keep their     *)
(* deques and those that are new start with empty ones.                    *)
LEMMA QueuesStay ==
  ASSUME QueueInv, UNCHANGED added, IsFiniteSet(DOMAIN data'),
         DOMAIN data \subseteq DOMAIN data',
         \A d \in DOMAIN data', m \in Markers :
            data'[d].rays[m] = IF d \in DOMAIN data THEN data[d].rays[m] ELSE <<>>
  PROVE  QueueInv' /\ Queued' = Queued
<1>1. \A d \in DOMAIN data, m \in Markers : Deque(d, m)' = Deque(d, m)
  BY DEF Deque
<1>2. \A d \in (DOMAIN data') \ (DOMAIN data), m \in Markers :
         data'[d].rays[m] = <<>> /\ Deque(d, m)' = {}
  BY DEF Deque, ToSet
<1>3. Lists(<<>>, {})
  BY DEF Lists
<1>4. ASSUME NEW d \in DOMAIN data', NEW m \in Markers
      PROVE  Lists(data'[d].rays[m], Deque(d, m)') /\ Deque(d, m)' \subseteq From(d, m)'
  <2>1. CASE d \in DOMAIN data
    <3>1. data'[d].rays[m] = data[d].rays[m] /\ Deque(d, m)' = Deque(d, m)
      BY <1>1, <2>1
    <3>2. From(d, m)' = From(d, m)
      BY DEF From
    <3>3. Lists(data[d].rays[m], Deque(d, m)) /\ Deque(d, m) \subseteq From(d, m)
      BY <2>1 DEF QueueInv
    <3> QED
      BY <3>1, <3>2, <3>3
  <2>2. CASE d \notin DOMAIN data
    BY <1>2, <1>3, <2>2
  <2> QED
    BY <2>1, <2>2
<1>5. Queued' = Queued
  <2>1. ASSUME NEW r \in Queued PROVE r \in Queued'
    <3>1. PICK d \in DOMAIN data, m \in Markers : r \in Deque(d, m)
      BY DEF Queued
    <3>2. d \in DOMAIN data' /\ r \in Deque(d, m)'
      BY <1>1, <3>1
    <3> QED
      BY <3>2 DEF Queued
  <2>2. ASSUME NEW r \in Queued' PROVE r \in Queued
    <3>1. PICK d \in DOMAIN data', m \in Markers : r \in Deque(d, m)'
      BY DEF Queued
    <3>2. d \in DOMAIN data /\ r \in Deque(d, m)
      BY <1>1, <1>2, <3>1
    <3> QED
      BY <3>2 DEF Queued
  <2> QED
    BY <2>1, <2>2
<1> QED
  BY <1>4, <1>5 DEF QueueInv

(* Steps of the threads that move no ray.                                  *)
LEMMA RaysStay ==
  ASSUME RayInv, SentInv', QueueInv', Queued' = Queued,
         UNCHANGED <<search, results, expired, added, dropped>>
  PROVE  RayInv'
<1>1. /\ \A m : Waiting(m)' = Waiting(m) /\ Of(m)' = Of(m)
      /\ InSearch' = InSearch /\ Done' = Done
  BY DEF Waiting, Of, InSearch, Done
<1>2. SearchInv'
  BY <1>1 DEF RayInv, SearchInv
<1>3. DoneInv'
  BY <1>1 DEF RayInv, DoneInv
<1>4. PlaceInv'
  BY <1>1 DEF RayInv, PlaceInv
<1> QED
  BY <1>2, <1>3, <1>4 DEF RayInv

-----------------------------------------------------------------------------
(* The map with an entry for c.                                            *)
LEMMA EntryStays ==
  ASSUME ThreadInv, RayInv, NEW c \in Clients, NEW e,
         DOMAIN e = DOMAIN WithEntry(c), \A d \in DOMAIN e : e[d].rays = WithEntry(c)[d].rays,
         data' = e, UNCHANGED added
  PROVE  QueueInv' /\ Queued' = Queued
<1>1. DOMAIN data' = (DOMAIN data) \cup {c}
  BY WithEntryType DEF ThreadInv
<1>2. IsFiniteSet(DOMAIN data')
  BY <1>1, FS_AddElement DEF RayInv, QueueInv
<1>3. ASSUME NEW d \in DOMAIN data', NEW m \in Markers
      PROVE  data'[d].rays[m] = IF d \in DOMAIN data THEN data[d].rays[m] ELSE <<>>
  <2>1. data'[d].rays = WithEntry(c)[d].rays
    OBVIOUS
  <2>2. CASE d \in DOMAIN data
    BY <2>1, <2>2, WithEntryType DEF ThreadInv
  <2>3. CASE d \notin DOMAIN data
    <3>1. d = c /\ WithEntry(c)[d] = NewSource
      BY <1>1, <2>3, WithEntryType DEF ThreadInv
    <3> QED
      BY <2>1, <2>3, <3>1 DEF NewSource
  <2> QED
    BY <2>2, <2>3
<1> QED
  BY <1>1, <1>2, <1>3, QueuesStay DEF RayInv

(* The ray a client thread pushes goes into a deque and nowhere else.      *)
LEMMA PushRays ==
  ASSUME ThreadInv, RayInv, NEW c \in Clients, AddRayPush(c),
         UNCHANGED searchVars
  PROVE  RayInv'
<1>a. PICK x, k : x = ray[c] /\ k = x.marker
  OBVIOUS
<1>1. /\ cpc[c] = "pushing" /\ c \in DOMAIN data
      /\ data' = [data EXCEPT ![c] = [data[c] EXCEPT !.dead = FALSE,
                                        !.rays = [data[c].rays EXCEPT ![k] = Append(data[c].rays[k], x)]]]
      /\ added' = added \cup {x}
      /\ UNCHANGED <<search, results, expired, dropped>>
  BY <1>a DEF AddRayPush, searchVars, ThreadInv, NoDanglingSource
<1>2. x \in Rays /\ x \notin added /\ x.client = c
  <2>1. /\ ray[c] \in Rays /\ ray[c] \notin added /\ ray[c].client = c
    BY <1>1, PushIsNew DEF RayInv
  <2> QED
    BY <1>a, <2>1
<1>3. k \in Markers /\ x.marker = k
  BY <1>a, <1>2 DEF Rays
<1>4. data[c] \in Sources /\ data[c].rays \in [Markers -> Seq(Rays)]
  BY <1>1 DEF ThreadInv, ThreadTypeOK, Sources
<1>5. /\ DOMAIN data' = DOMAIN data
      /\ \A d \in (DOMAIN data) \ {c} : data'[d] = data[d]
      /\ data'[c].rays[k] = Append(data[c].rays[k], x)
      /\ \A m \in Markers \ {k} : data'[c].rays[m] = data[c].rays[m]
  <2>1. data'[c].rays = [data[c].rays EXCEPT ![k] = Append(data[c].rays[k], x)]
    BY <1>1, <1>4 DEF Sources
  <2>2. DOMAIN data' = DOMAIN data /\ \A d \in (DOMAIN data) \ {c} : data'[d] = data[d]
    BY <1>1
  <2> QED
    BY <1>3, <1>4, <2>1, <2>2
<1>6. SentInv'
  BY PushSent DEF RayInv
<1>7. x \notin Deque(c, k) /\ Lists(data[c].rays[k], Deque(c, k))
  <2>1. Deque(c, k) \subseteq added /\ Lists(data[c].rays[k], Deque(c, k))
    BY <1>1, <1>3 DEF RayInv, QueueInv, From
  <2> QED
    BY <1>2, <2>1
<1>8. Lists(data'[c].rays[k], Deque(c, k) \cup {x})
  BY <1>5, <1>7, ListsAppend
<1>9. Deque(c, k)' = Deque(c, k) \cup {x}
  BY <1>8, ListsToSet DEF Deque
<1>10. \A d \in DOMAIN data, m \in Markers : d # c \/ m # k => Deque(d, m)' = Deque(d, m)
  BY <1>5 DEF Deque
<1>11. QueueInv'
  <2>1. ASSUME NEW d \in DOMAIN data', NEW m \in Markers
        PROVE  Lists(data'[d].rays[m], Deque(d, m)') /\ Deque(d, m)' \subseteq From(d, m)'
    <3>1. Lists(data[d].rays[m], Deque(d, m)) /\ Deque(d, m) \subseteq From(d, m)
      BY <1>5 DEF RayInv, QueueInv
    <3>2. From(d, m) \subseteq From(d, m)'
      BY <1>1 DEF From
    <3>3. CASE d = c /\ m = k
      <4>1. x \in From(c, k)'
        BY <1>1, <1>2, <1>3 DEF From
      <4> QED
        BY <1>8, <1>9, <3>1, <3>2, <3>3, <4>1
    <3>4. CASE d # c \/ m # k
      <4>1. data'[d].rays[m] = data[d].rays[m] /\ Deque(d, m)' = Deque(d, m)
        BY <1>5, <1>10, <3>4
      <4> QED
        BY <3>1, <3>2, <4>1
    <3> QED
      BY <3>3, <3>4
  <2> QED
    BY <1>5, <2>1 DEF RayInv, QueueInv
<1>12. Queued' = Queued \cup {x}
  <2>1. ASSUME NEW r \in Queued PROVE r \in Queued'
    <3>1. PICK d \in DOMAIN data, m \in Markers : r \in Deque(d, m)
      BY DEF Queued
    <3>2. d \in DOMAIN data' /\ r \in Deque(d, m)'
      BY <1>5, <1>9, <1>10, <3>1
    <3> QED
      BY <3>2 DEF Queued
  <2>2. x \in Queued'
    <3>1. c \in DOMAIN data' /\ x \in Deque(c, k)'
      BY <1>1, <1>5, <1>9
    <3> QED
      BY <1>3, <3>1 DEF Queued
  <2>3. ASSUME NEW r \in Queued', r # x PROVE r \in Queued
    <3>1. PICK d \in DOMAIN data', m \in Markers : r \in Deque(d, m)'
      BY DEF Queued
    <3>2. d \in DOMAIN data /\ r \in Deque(d, m)
      BY <1>5, <1>9, <1>10, <2>3, <3>1
    <3> QED
      BY <3>2 DEF Queued
  <2> QED
    BY <2>1, <2>2, <2>3
<1>13. (\A m : Waiting(m)' = Waiting(m)) /\ InSearch' = InSearch /\ Done' = Done
  BY <1>1 DEF Waiting, InSearch, Done
<1>14. \A m : Of(m) \subseteq Of(m)'
  BY <1>1 DEF Of
<1>15. \A m : Group(Of(m)) \subseteq Group(Of(m)')
  BY <1>14, GroupGrows
<1>16. SearchInv'
  <2>1. ASSUME NEW m \in Markers PROVE Good(Waiting(m)', Of(m)')
    BY <1>13, <1>15 DEF RayInv, SearchInv, Good
  <2> QED
    BY <1>1, <1>13, <2>1 DEF RayInv, SearchInv
<1>17. DoneInv'
  <2>1. ASSUME NEW y \in Done' PROVE Fit(y) /\ \E m \in Markers : y \in Group(Of(m)')
    <3>1. Fit(y) /\ \E m \in Markers : y \in Group(Of(m))
      BY <1>13 DEF RayInv, DoneInv
    <3> QED
      BY <1>15, <3>1
  <2> QED
    BY <1>1, <1>13, <2>1 DEF RayInv, DoneInv
<1>18. PlaceInv'
  <2>1. Parts(added \cup {x}, Queued \cup {x}, InSearch, RaysOf(Done), dropped)
    BY <1>2 DEF RayInv, PlaceInv, Parts, LostTo
  <2> QED
    BY <1>1, <1>12, <1>13, <2>1 DEF PlaceInv
<1> QED
  BY <1>6, <1>11, <1>16, <1>17, <1>18 DEF RayInv

(* The steps of a client thread.                                           *)
LEMMA ClientKeepsRays ==
  ASSUME ThreadInv, RayInv, NEW c \in Clients, ClientStep(c)
  PROVE  RayInv'
<1>0. UNCHANGED searchVars
  BY DEF ClientStep
<1>t. cpc \in [Clients -> {"running", "lookup", "inserting", "pushing", "removing", "gone"}]
  BY DEF ThreadInv, ThreadTypeOK
<1>s. ASSUME UNCHANGED <<data, added, dropped>>, SentInv' PROVE RayInv'
  <2>1. QueueInv' /\ Queued' = Queued
    BY <1>s DEF RayInv, QueueInv, Queued, Deque, From
  <2> QED
    BY <1>0, <1>s, <2>1, RaysStay DEF searchVars
<1>1. CASE NewRay(c)
  <2>1. SentInv'
    BY <1>1, NewRaySent DEF RayInv
  <2> QED
    BY <1>1, <1>s, <2>1 DEF NewRay
<1>2. CASE AddRayLock(c)
  <2>1. SentInv'
    BY <1>2, <1>t, SentStays DEF AddRayLock, RayInv
  <2> QED
    BY <1>2, <1>s, <2>1 DEF AddRayLock
<1>3. CASE AddRayLookup(c)
  <2>1. SentInv'
    BY <1>3, <1>t, SentStays DEF AddRayLookup, RayInv
  <2>2. QueueInv' /\ Queued' = Queued
    BY <1>3, EntryStays DEF AddRayLookup
  <2> QED
    BY <1>0, <1>3, <2>1, <2>2, RaysStay DEF AddRayLookup, searchVars
<1>4. CASE AddRayPush(c)
  BY <1>0, <1>4, PushRays
<1>5. CASE Disconnect(c)
  <2>1. SentInv'
    BY <1>5, <1>t, SentStays DEF Disconnect, RayInv
  <2> QED
    BY <1>5, <1>s, <2>1 DEF Disconnect
<1>6. CASE RemoveClient(c)
  <2>1. SentInv'
    BY <1>6, <1>t, SentStays DEF RemoveClient, RayInv
  <2>2. data' = [WithEntry(c) EXCEPT ![c] = [WithEntry(c)[c] EXCEPT !.dead = TRUE]]
    BY <1>6 DEF RemoveClient
  <2>3. /\ DOMAIN data' = DOMAIN WithEntry(c)
        /\ \A d \in DOMAIN data' : data'[d].rays = WithEntry(c)[d].rays
    <3>1. WithEntry(c)[c] \in Sources /\ DOMAIN data' = DOMAIN WithEntry(c)
      BY <2>2, WithEntryType DEF ThreadInv
    <3>2. [WithEntry(c)[c] EXCEPT !.dead = TRUE].rays = WithEntry(c)[c].rays
      BY <3>1 DEF Sources
    <3> QED
      BY <2>2, <3>1, <3>2
  <2>4. QueueInv' /\ Queued' = Queued
    BY <1>6, <2>3, EntryStays DEF RemoveClient
  <2> QED
    BY <1>0, <1>6, <2>1, <2>4, RaysStay DEF RemoveClient, searchVars
<1>7. CASE RemoveClientRaced(c)
  <2>1. SentInv'
    BY <1>7, <1>t, SentStays DEF RemoveClientRaced, RayInv
  <2> QED
    BY <1>7, <1>s, <2>1 DEF RemoveClientRaced
<1> QED
  BY <1>1, <1>2, <1>3, <1>4, <1>5, <1>6, <1>7 DEF ClientStep

-----------------------------------------------------------------------------
(* A source that is erased takes the rays in its deques with it.           *)
LEMMA ReapRays ==
  ASSUME ThreadInv, RayInv, SyncReap, UNCHANGED <<cpc, ray, added>>
  PROVE  RayInv'
<1>0. UNCHANGED <<search, results, expired>>
  BY DEF SyncReap, searchVars
<1>1. SentInv'
  BY SentStays DEF RayInv
<1>2. CASE UNCHANGED <<data, dropped>>
  <2>1. QueueInv' /\ Queued' = Queued
    BY <1>2 DEF RayInv, QueueInv, Queued, Deque, From
  <2> QED
    BY <1>0, <1>1, <1>2, <2>1, RaysStay
<1>3. CASE data[cur].dead
  <2> DEFINE lost == UNION {Deque(cur, m) : m \in Markers}
  <2>1. /\ cur \in DOMAIN data
        /\ data' = [d \in (DOMAIN data) \ {cur} |-> data[d]]
        /\ dropped' = dropped \cup lost
    BY <1>3 DEF SyncReap, Deque, ThreadInv, NoDanglingSource
  <2>2. /\ DOMAIN data' = (DOMAIN data) \ {cur}
        /\ \A d \in DOMAIN data' : data'[d] = data[d]
        /\ \A d \in DOMAIN data' : \A m : Deque(d, m)' = Deque(d, m)
    BY <2>1 DEF Deque
  <2>3. QueueInv'
    <3>1. IsFiniteSet(DOMAIN data')
      BY <2>2, FS_Subset DEF RayInv, QueueInv
    <3>2. \A d, m : From(d, m)' = From(d, m)
      BY DEF From
    <3> QED
      BY <2>2, <3>1, <3>2 DEF RayInv, QueueInv
  <2>4. \A d \in DOMAIN data, m \in Markers : \A r \in Deque(d, m) : r.client = d
    BY DEF RayInv, QueueInv, From
  <2>5. Queued' = Queued \ lost
    <3>1. ASSUME NEW r \in Queued, r \notin lost PROVE r \in Queued'
      <4>1. PICK d \in DOMAIN data, m \in Markers : r \in Deque(d, m)
        BY DEF Queued
      <4>2. d # cur
        BY <3>1, <4>1
      <4> QED
        BY <2>2, <4>1, <4>2 DEF Queued
    <3>2. ASSUME NEW r \in Queued' PROVE r \in Queued /\ r \notin lost
      <4>1. PICK d \in DOMAIN data', m \in Markers : r \in Deque(d, m)'
        BY DEF Queued
      <4>2. d \in DOMAIN data /\ d # cur /\ r \in Deque(d, m) /\ r.client = d
        BY <2>2, <2>4, <4>1
      <4>3. r \notin lost
        BY <2>1, <2>4, <4>2
      <4> QED
        BY <4>2, <4>3 DEF Queued
    <3> QED
      BY <3>1, <3>2
  <2>6. lost \subseteq Queued
    BY <2>1 DEF Queued
  <2> HIDE DEF lost
  <2>7. (\A m : Waiting(m)' = Waiting(m) /\ Of(m)' = Of(m)) /\ InSearch' = InSearch /\ Done' = Done
    BY <1>0 DEF Waiting, Of, InSearch, Done
  <2>8. SearchInv' /\ DoneInv'
    BY <1>0, <2>7 DEF RayInv, SearchInv, DoneInv
  <2>9. PlaceInv'
    <3>1. Parts(added, Queued \ lost, InSearch, RaysOf(Done), dropped \cup lost)
      BY <2>6 DEF RayInv, PlaceInv, Parts, LostTo
    <3> QED
      BY <2>1, <2>5, <2>7, <3>1 DEF PlaceInv
  <2> QED
    BY <1>1, <2>3, <2>8, <2>9 DEF RayInv
<1> QED
  BY <1>2, <1>3 DEF SyncReap

-----------------------------------------------------------------------------
(* The rays of marker m that a run of syncData drains.                     *)
Fresh(m) == UNION {Deque(d, m) : d \in DrainedSources(m)}

(* What is drained lists the rays of the deques, each once.                *)
LEMMA DrainedLists ==
  ASSUME ThreadInv, RayInv, NEW m \in Markers
  PROVE  Lists(Drained(m), Fresh(m))
<1> DEFINE S == DrainedSources(m)
           order == InOrder(S)
           s == [i \in DOMAIN order |-> data[order[i]].rays[m]]
           R == [i \in DOMAIN order |-> Deque(order[i], m)]
<1>1. S \subseteq DOMAIN data /\ S \in SUBSET Nat /\ IsFiniteSet(S)
  <2>1. S \subseteq DOMAIN data
    BY DEF DrainedSources, ThreadInv, NoDanglingSource
  <2>2. DOMAIN data \subseteq Nat
    BY DataAssumption DEF ThreadInv, ThreadTypeOK
  <2>3. IsFiniteSet(S)
    BY <2>1, FS_Subset DEF RayInv, QueueInv
  <2> HIDE DEF S
  <2> QED
    BY <2>1, <2>2, <2>3
<1> HIDE DEF S
<1>2. Lists(order, S)
  BY <1>1, InOrderLists
<1>3. Drained(m) = FlattenSeq(s)
  BY DEF Drained, S
<1> HIDE DEF order
<1>4. PICK n \in Nat : DOMAIN order = 1 .. n
  <2>1. order \in Seq(S)
    BY <1>2 DEF Lists
  <2> QED
    BY <2>1, LenProperties
<1>5. \A i \in 1 .. n : order[i] \in S
  BY <1>2, <1>4 DEF Lists
<1>6. \A d \in S : data[d].rays[m] \in Seq(Rays)
  BY <1>1 DEF ThreadInv, ThreadTypeOK, Sources
<1>7. s \in Seq(Seq(Rays)) /\ DOMAIN s = 1 .. n
  <2>1. s = [i \in 1 .. n |-> data[order[i]].rays[m]]
    BY <1>4
  <2>2. \A i \in 1 .. n : data[order[i]].rays[m] \in Seq(Rays)
    BY <1>5, <1>6
  <2> HIDE DEF s
  <2> QED
    BY <2>1, <2>2
<1>8. ASSUME NEW i \in DOMAIN s PROVE Lists(s[i], R[i])
  <2>1. i \in 1 .. n /\ order[i] \in DOMAIN data
    BY <1>1, <1>5, <1>7, <1>8
  <2> QED
    BY <1>4, <2>1 DEF RayInv, QueueInv
<1>9. ASSUME NEW i \in DOMAIN s, NEW j \in DOMAIN s, i # j PROVE R[i] \cap R[j] = {}
  <2>1. i \in 1 .. n /\ j \in 1 .. n
    BY <1>7
  <2>2. order[i] # order[j]
    BY <1>2, <1>4, <1>9, <2>1 DEF Lists
  <2>3. order[i] \in DOMAIN data /\ order[j] \in DOMAIN data
    BY <1>1, <1>5, <2>1
  <2>4. R[i] = Deque(order[i], m) /\ R[j] = Deque(order[j], m)
    BY <1>4, <2>1
  <2>5. \A d \in DOMAIN data : \A r \in Deque(d, m) : r.client = d
    BY DEF RayInv, QueueInv, From
  <2> HIDE DEF R
  <2> QED
    BY <2>2, <2>3, <2>4, <2>5
<1>10. /\ \A i \in DOMAIN s : R[i] \subseteq Fresh(m)
       /\ \A r \in Fresh(m) : \E i \in DOMAIN s : r \in R[i]
  <2>1. \A i \in 1 .. n : R[i] = Deque(order[i], m) /\ order[i] \in S
    BY <1>4, <1>5
  <2>2. \A d \in S : \E i \in 1 .. n : order[i] = d
    BY <1>2, <1>4 DEF Lists
  <2>3. Fresh(m) = UNION {Deque(d, m) : d \in S}
    BY DEF Fresh, S
  <2>4. DOMAIN s = 1 .. n
    BY <1>7
  <2> HIDE DEF R, s
  <2>5. ASSUME NEW r \in Fresh(m) PROVE \E i \in 1 .. n : r \in R[i]
    <3>1. PICK d \in S : r \in Deque(d, m)
      BY <2>3
    <3> QED
      BY <2>1, <2>2, <3>1
  <2>6. ASSUME NEW i \in 1 .. n PROVE R[i] \subseteq Fresh(m)
    BY <2>1, <2>3
  <2> QED
    BY <2>4, <2>5, <2>6
<1> HIDE DEF s, R
<1>11. Lists(FlattenSeq(s), Fresh(m))
  BY <1>7, <1>8, <1>9, <1>10, ListsFlatten
<1> QED
  BY <1>3, <1>11

(* Each drained ray becomes a match of its own.                            *)
Singles(m) == {NewMatch(r, now, Cardinality(locked)) : r \in Fresh(m)}

(* A sequence of images lists the images, if they differ.                  *)
LEMMA ListsImage ==
  ASSUME NEW S, NEW s, Lists(s, S), NEW f, \A x, y \in S : f[x] = f[y] => x = y
  PROVE  Lists([i \in DOMAIN s |-> f[s[i]]], {f[x] : x \in S})
<1>1. PICK n \in Nat : DOMAIN s = 1 .. n /\ s \in Seq(S)
  BY LenProperties DEF Lists
<1>2. \A i \in 1 .. n : s[i] \in S
  BY <1>1
<1> DEFINE U == {f[x] : x \in S}
           t == [i \in 1 .. n |-> f[s[i]]]
<1>3. t \in Seq(U)
  <2>1. \A i \in 1 .. n : f[s[i]] \in U
    BY <1>2
  <2> HIDE DEF U
  <2> QED
    BY <2>1
<1>4. ASSUME NEW u \in U PROVE \E i \in 1 .. n : t[i] = u
  <2>1. PICK x \in S : u = f[x]
    OBVIOUS
  <2>2. PICK i \in 1 .. n : s[i] = x
    BY <1>1 DEF Lists
  <2> QED
    BY <2>1, <2>2
<1>5. ASSUME NEW i \in 1 .. n, NEW j \in 1 .. n, t[i] = t[j] PROVE i = j
  <2>1. s[i] = s[j]
    BY <1>2, <1>5
  <2> QED
    BY <1>1, <2>1 DEF Lists
<1>6. DOMAIN t = 1 .. n
  OBVIOUS
<1> HIDE DEF t, U
<1>7. Lists(t, U)
  BY <1>3, <1>4, <1>5, <1>6 DEF Lists
<1> QED
  BY <1>1, <1>7 DEF t, U

-----------------------------------------------------------------------------
(* What syncData merges: the matches that wait and the drained rays.       *)
LEMMA CollectedGood ==
  ASSUME ThreadInv, RayInv, now \in Nat, NEW m \in Markers
  PROVE  /\ Lists(Collected(m), Waiting(m) \cup Singles(m))
         /\ Good(Waiting(m) \cup Singles(m), Of(m))
         /\ RaysOf(Waiting(m) \cup Singles(m)) = RaysOf(Waiting(m)) \cup Fresh(m)
<1> DEFINE n == Cardinality(locked)
           f == [r \in Fresh(m) |-> NewMatch(r, now, n)]
           N == Singles(m)
           W == Waiting(m)
<1>1. n \in Nat
  <2>1. IsFiniteSet(locked)
    BY FS_Subset DEF ThreadInv, NoDanglingSource, RayInv, QueueInv
  <2> QED
    BY <2>1, FS_CardinalityType
<1>2. Fresh(m) \subseteq Queued /\ Fresh(m) \subseteq Of(m)
  <2>1. ASSUME NEW r \in Fresh(m) PROVE r \in Queued /\ r \in Of(m)
    <3>1. PICK d \in DrainedSources(m) : r \in Deque(d, m)
      BY DEF Fresh
    <3>2. d \in DOMAIN data
      BY DEF DrainedSources, ThreadInv, NoDanglingSource
    <3>3. r \in Queued
      BY <3>1, <3>2 DEF Queued
    <3>4. r \in Of(m)
      BY <3>1, <3>2 DEF RayInv, QueueInv, From, Of
    <3> QED
      BY <3>3, <3>4
  <2> QED
    BY <2>1
<1>3. \A r \in Of(m) : r \in Rays /\ r.time \in Nat
  BY DEF Of, RayInv, SentInv, Sent, Rays
<1>4. \A r \in Fresh(m) : f[r] = [rays |-> {r}, time |-> now, n |-> n]
  BY DEF NewMatch
<1>5. N = {f[r] : r \in Fresh(m)}
  BY DEF Singles
<1>6. \A r, s \in Fresh(m) : f[r] = f[s] => r = s
  <2> SUFFICES ASSUME NEW r \in Fresh(m), NEW s \in Fresh(m), f[r] = f[s] PROVE r = s
    OBVIOUS
  <2>1. f[r].rays = {r} /\ f[s].rays = {s}
    BY <1>4
  <2> HIDE DEF f
  <2>2. {r} = {s}
    BY <2>1
  <2> QED
    BY <2>2
<1>7. \A x \in N : \E r \in Fresh(m) : x = f[r] /\ x.rays = {r} /\ x \in Group(Of(m)) /\ Fit(x)
  <2>1. ASSUME NEW r \in Fresh(m)
        PROVE  f[r].rays = {r} /\ f[r] \in Group(Of(m)) /\ Fit(f[r])
    <3>1. f[r] = [rays |-> {r}, time |-> now, n |-> n] /\ r \in Of(m)
      BY <1>2, <1>4
    <3> HIDE DEF f, n
    <3>2. f[r].rays = {r} /\ f[r] \in Group(Of(m))
      BY <1>1, <3>1 DEF Group
    <3>3. r.time - r.time < MaxTimeDiff
      BY <1>3, <3>1, SearchAssumption
    <3>4. Close({r}) /\ Distinct({r})
      BY <3>3 DEF Close, Distinct
    <3> QED
      BY <3>2, <3>4 DEF Fit
  <2> HIDE DEF f
  <2> QED
    BY <1>5, <2>1
<1>8. Lists(search[m], W) /\ Good(W, Of(m))
  BY DEF RayInv, SearchInv
<1>9. \A x \in W, y \in N : x.rays \cap y.rays = {}
  <2>1. \A x \in W : x.rays \subseteq InSearch
    BY DEF InSearch, RaysOf
  <2>2. \A y \in N : y.rays \subseteq Queued
    BY <1>2, <1>7
  <2>3. InSearch \cap Queued = {}
    BY DEF RayInv, PlaceInv, Parts
  <2> HIDE DEF N, W
  <2> QED
    BY <2>1, <2>2, <2>3
<1>10. W \cap N = {}
  <2>1. \A x \in N : x.rays # {}
    BY <1>7 DEF Fit
  <2> QED
    BY <1>9, <2>1
<1>11. Lists([i \in DOMAIN Drained(m) |-> NewMatch(Drained(m)[i], now, n)], N)
  <2>1. Lists(Drained(m), Fresh(m))
    BY DrainedLists
  <2>2. Lists([i \in DOMAIN Drained(m) |-> f[Drained(m)[i]]], N)
    <3>1. \A s : s = Drained(m) => Lists([i \in DOMAIN s |-> f[s[i]]], {f[r] : r \in Fresh(m)})
      <4> HIDE DEF f
      <4> QED
        BY <1>6, <2>1, ListsImage
    <3> HIDE DEF f
    <3> QED
      BY <1>5, <3>1
  <2>3. \A i \in DOMAIN Drained(m) : Drained(m)[i] \in Fresh(m)
    BY <2>1 DEF Lists
  <2>4. \A i \in DOMAIN Drained(m) : f[Drained(m)[i]] = NewMatch(Drained(m)[i], now, n)
    BY <2>3
  <2>5. [i \in DOMAIN Drained(m) |-> f[Drained(m)[i]]]
            = [i \in DOMAIN Drained(m) |-> NewMatch(Drained(m)[i], now, n)]
    <3> HIDE DEF f, n
    <3> QED
      BY <2>4
  <2> HIDE DEF f, n, N
  <2> QED
    BY <2>2, <2>5
<1>12. Lists(Collected(m), W \cup N)
  <2> HIDE DEF W, N
  <2> QED
    BY <1>8, <1>10, <1>11, ListsConcat DEF Collected
<1>13. Good(W \cup N, Of(m))
  <2>1. W \cup N \subseteq Group(Of(m)) /\ \A x \in W \cup N : Fit(x)
    BY <1>7, <1>8 DEF Good
  <2>2. ASSUME NEW x \in N, NEW y \in N, x # y PROVE x.rays \cap y.rays = {}
    <3>1. PICK r \in Fresh(m) : x = f[r] /\ x.rays = {r}
      BY <1>7
    <3>2. PICK s \in Fresh(m) : y = f[s] /\ y.rays = {s}
      BY <1>7
    <3>3. r # s
      BY <2>2, <3>1, <3>2
    <3> QED
      BY <3>1, <3>2, <3>3
  <2>3. Tidy(W \cup N)
    <3> HIDE DEF W, N
    <3> QED
      BY <1>8, <1>9, <2>2 DEF Tidy, Good
  <2> QED
    BY <2>1, <2>3 DEF Good
<1>14. RaysOf(W \cup N) = RaysOf(W) \cup Fresh(m)
  <2>1. RaysOf(W \cup N) = RaysOf(W) \cup RaysOf(N)
    BY DEF RaysOf
  <2>2. RaysOf(N) = Fresh(m)
    <3>1. \A r \in Fresh(m) : f[r] \in N /\ f[r].rays = {r}
      BY <1>4, <1>5
    <3> HIDE DEF N, f
    <3>2. ASSUME NEW r \in Fresh(m) PROVE r \in RaysOf(N)
      BY <3>1 DEF RaysOf
    <3>3. ASSUME NEW r \in RaysOf(N) PROVE r \in Fresh(m)
      <4>1. PICK x \in N : r \in x.rays
        BY DEF RaysOf
      <4> QED
        BY <1>7, <4>1
    <3> QED
      BY <3>2, <3>3
  <2> QED
    BY <2>1, <2>2
<1> QED
  BY <1>12, <1>13, <1>14

-----------------------------------------------------------------------------
(* What a run of syncData makes of marker m.                               *)
Outcome(m) == GetResults(Merged(m), now)
Given(m) == ToSet(Outcome(m).reported)
Lapsed(m) == ToSet(Outcome(m).expired)
Kept(m) == ToSet(Outcome(m).left)

(* What a run of syncData reports, gives up and keeps of a marker.         *)
LEMMA OutcomeGood ==
  ASSUME ThreadInv, RayInv, now \in Nat, NEW m \in Markers
  PROVE  /\ Lists(Outcome(m).left, Kept(m))
         /\ Good(Given(m) \cup Lapsed(m) \cup Kept(m), Of(m))
         /\ Unmergeable(Kept(m))
         /\ LeftOf(RaysOf(Given(m) \cup Lapsed(m) \cup Kept(m)), RaysOf(Waiting(m)) \cup Fresh(m))
         /\ Given(m) \cap Lapsed(m) = {} /\ Given(m) \cap Kept(m) = {} /\ Lapsed(m) \cap Kept(m) = {}
         /\ \A x \in Given(m) : Cardinality(x.rays) >= MinMatches
<1>2. PICK S : /\ Lists(Collected(m), S) /\ Good(S, Of(m))
               /\ RaysOf(S) = RaysOf(Waiting(m)) \cup Fresh(m)
  BY CollectedGood
<1>3. Merges(MergeMatches(Collected(m)), S, Of(m))
  BY <1>2, MergeJoins
<1>4. Merged(m) = MergeMatches(Collected(m))
  BY DEF Merged
<1>5. PICK J : /\ Lists(Merged(m), J) /\ Good(J, Of(m)) /\ LeftOf(RaysOf(J), RaysOf(S))
               /\ \A x, y \in J : x # y => ~Compatible(x, y)
  BY <1>3, <1>4 DEF Merges
<1>6. Sorts(Outcome(m), J, now)
  BY <1>5, ResultsSort DEF Outcome
<1>7. PICK R, X, L :
        /\ Lists(Outcome(m).reported, R) /\ Lists(Outcome(m).expired, X) /\ Lists(Outcome(m).left, L)
        /\ J = R \cup X \cup L
        /\ R \cap X = {} /\ R \cap L = {} /\ X \cap L = {}
        /\ \A x \in R : Complete(x, now)
  BY <1>6 DEF Sorts
<1>8. Given(m) = R /\ Lapsed(m) = X /\ Kept(m) = L
  BY <1>7, ListsToSet DEF Given, Lapsed, Kept
<1>9. \A x \in R : Cardinality(x.rays) >= MinMatches
  BY <1>7 DEF Complete
<1>10. Unmergeable(L)
  BY <1>5, <1>7 DEF Unmergeable
<1> QED
  BY <1>2, <1>5, <1>7, <1>8, <1>9, <1>10

-----------------------------------------------------------------------------
(* The deques that were drained are cleared.                               *)
LEMMA ClearedQueues ==
  ASSUME ThreadInv, RayInv, data' = Cleared, UNCHANGED added
  PROVE  QueueInv' /\ Queued' = Queued \ UNION {Fresh(m) : m \in Markers}
<1>1. DOMAIN data' = DOMAIN data
  BY DEF Cleared
<1>2. ASSUME NEW d \in DOMAIN data, NEW m \in Markers
      PROVE  data'[d].rays[m] = IF d \in DrainedSources(m) THEN <<>> ELSE data[d].rays[m]
  <2>1. data[d] \in Sources
    BY DEF ThreadInv, ThreadTypeOK
  <2>2. data'[d] = [data[d] EXCEPT !.rays = [k \in Markers |->
                      IF d \in DrainedSources(k) THEN <<>> ELSE data[d].rays[k]]]
    BY DEF Cleared
  <2>3. data'[d].rays = [k \in Markers |-> IF d \in DrainedSources(k) THEN <<>> ELSE data[d].rays[k]]
    BY <2>1, <2>2 DEF Sources
  <2> QED
    BY <2>3
<1>3. ASSUME NEW d \in DOMAIN data, NEW m \in Markers
      PROVE  /\ d \in DrainedSources(m) => data'[d].rays[m] = <<>> /\ Deque(d, m)' = {}
             /\ d \notin DrainedSources(m) =>
                  data'[d].rays[m] = data[d].rays[m] /\ Deque(d, m)' = Deque(d, m)
  BY <1>2 DEF Deque, ToSet
<1>4. QueueInv'
  <2>1. ASSUME NEW d \in DOMAIN data, NEW m \in Markers
        PROVE  Lists(data'[d].rays[m], Deque(d, m)') /\ Deque(d, m)' \subseteq From(d, m)
    <3>1. Lists(<<>>, {})
      BY DEF Lists
    <3>2. Lists(data[d].rays[m], Deque(d, m)) /\ Deque(d, m) \subseteq From(d, m)
      BY DEF RayInv, QueueInv
    <3> QED
      BY <1>3, <3>1, <3>2
  <2>2. \A d, m : From(d, m)' = From(d, m)
    BY DEF From
  <2>3. IsFiniteSet(DOMAIN data')
    BY <1>1 DEF RayInv, QueueInv
  <2> QED
    BY <1>1, <2>1, <2>2, <2>3 DEF QueueInv
<1>5. \A d \in DOMAIN data, m \in Markers : \A r \in Deque(d, m) : r.client = d /\ r.marker = m
  BY DEF RayInv, QueueInv, From
<1>6. \A m \in Markers : DrainedSources(m) \subseteq DOMAIN data
  BY DEF DrainedSources, ThreadInv, NoDanglingSource
<1>7. ASSUME NEW r \in Queued, \A m \in Markers : r \notin Fresh(m) PROVE r \in Queued'
  <2>1. PICK d \in DOMAIN data, m \in Markers : r \in Deque(d, m)
    BY DEF Queued
  <2>2. d \notin DrainedSources(m)
    BY <1>7, <2>1 DEF Fresh
  <2>3. d \in DOMAIN data' /\ r \in Deque(d, m)'
    BY <1>1, <1>3, <2>1, <2>2
  <2> QED
    BY <2>3 DEF Queued
<1>8. ASSUME NEW r \in Queued' PROVE r \in Queued /\ \A m \in Markers : r \notin Fresh(m)
  <2>1. PICK d \in DOMAIN data', m \in Markers : r \in Deque(d, m)'
    BY DEF Queued
  <2>2. d \in DOMAIN data /\ d \notin DrainedSources(m) /\ r \in Deque(d, m)
    BY <1>1, <1>3, <2>1
  <2>3. ASSUME NEW k \in Markers, r \in Fresh(k) PROVE FALSE
    <3>1. PICK e \in DrainedSources(k) : r \in Deque(e, k)
      BY <2>3 DEF Fresh
    <3>2. e = d /\ k = m
      BY <1>5, <1>6, <2>2, <3>1
    <3> QED
      BY <2>2, <3>1, <3>2
  <2> QED
    BY <2>2, <2>3 DEF Queued
<1> QED
  BY <1>4, <1>7, <1>8

(* The matches a run of syncData makes are new.                            *)
LEMMA OutcomeApart ==
  ASSUME ThreadInv, RayInv, now \in Nat, NEW m \in Markers,
         NEW x \in Given(m) \cup Lapsed(m) \cup Kept(m)
  PROVE  /\ x \in Group(Of(m)) /\ Fit(x) /\ x.rays \subseteq InSearch \cup Fresh(m)
         /\ \A y \in Done : x.rays \cap y.rays = {} /\ x # y
         /\ \A k \in Markers \ {m} : \A y \in Given(k) \cup Lapsed(k) \cup Kept(k) :
               x.rays \cap y.rays = {} /\ x # y
<1>1. x \in Group(Of(m)) /\ Fit(x)
  BY OutcomeGood DEF Good
<1>2. x.rays \subseteq InSearch \cup Fresh(m)
  <2>a. RaysOf(Given(m) \cup Lapsed(m) \cup Kept(m)) \subseteq RaysOf(Waiting(m)) \cup Fresh(m)
    BY OutcomeGood DEF LeftOf
  <2>1. x.rays \subseteq RaysOf(Waiting(m)) \cup Fresh(m)
    BY <2>a DEF RaysOf
  <2>2. RaysOf(Waiting(m)) \subseteq InSearch
    BY DEF InSearch
  <2> QED
    BY <2>1, <2>2
<1>3. Fresh(m) \subseteq Queued
  BY DEF Fresh, DrainedSources, Queued, ThreadInv, NoDanglingSource
<1>4. ASSUME NEW y \in Done PROVE x.rays \cap y.rays = {}
  <2>1. y.rays \subseteq RaysOf(Done)
    BY DEF RaysOf
  <2>2. RaysOf(Done) \cap (InSearch \cup Queued) = {}
    BY DEF RayInv, PlaceInv, Parts
  <2> QED
    BY <1>2, <1>3, <2>1, <2>2
<1>5. ASSUME NEW k \in Markers \ {m}, NEW y \in Given(k) \cup Lapsed(k) \cup Kept(k)
      PROVE  x.rays \cap y.rays = {}
  <2>1. y \in Group(Of(k))
    BY OutcomeGood DEF Good
  <2>2. x.rays \subseteq Of(m) /\ y.rays \subseteq Of(k)
    BY <1>1, <2>1 DEF Group
  <2>3. Of(m) \cap Of(k) = {}
    BY DEF Of
  <2> QED
    BY <2>2, <2>3
<1>6. x.rays # {}
  BY <1>1 DEF Fit
<1> QED
  BY <1>1, <1>2, <1>4, <1>5, <1>6

(* A run of syncData moves rays on, and loses none and uses none twice.    *)
LEMMA MatchRays ==
  ASSUME ThreadInv, RayInv, now \in Nat, SyncMatch, UNCHANGED <<cpc, ray, added>>
  PROVE  RayInv'
<1> DEFINE fresh == UNION {Fresh(m) : m \in Markers}
           Ended(m) == Given(m) \cup Lapsed(m)
           new == UNION {RaysOf(Ended(m)) : m \in Markers}
           kept == UNION {RaysOf(Kept(m)) : m \in Markers}
<1>1. /\ search' = [m \in Markers |-> Outcome(m).left]
      /\ results' = results \cup UNION {Given(m) : m \in Markers}
      /\ expired' = expired \cup UNION {Lapsed(m) : m \in Markers}
      /\ data' = Cleared
      /\ UNCHANGED dropped
  <2> DEFINE o == [m \in Markers |-> GetResults(Merged(m), now)]
  <2>1. /\ search' = [m \in Markers |-> o[m].left]
        /\ results' = results \cup UNION {ToSet(o[m].reported) : m \in Markers}
        /\ expired' = expired \cup UNION {ToSet(o[m].expired) : m \in Markers}
        /\ data' = Cleared
        /\ UNCHANGED dropped
    BY DEF SyncMatch
  <2>2. \A m \in Markers : o[m] = Outcome(m)
    BY DEF Outcome
  <2> HIDE DEF o
  <2> QED
    BY <2>1, <2>2 DEF Given, Lapsed
<1>2. SentInv'
  BY SentStays DEF RayInv
<1>3. QueueInv' /\ Queued' = Queued \ fresh
  BY <1>1, ClearedQueues
<1>4. \A m \in Markers : Waiting(m)' = Kept(m)
  BY <1>1 DEF Waiting, Kept
<1>5. \A m : Of(m)' = Of(m)
  BY DEF Of
<1>6. SearchInv'
  <2>1. ASSUME NEW m \in Markers
        PROVE  Lists(search'[m], Kept(m)) /\ Good(Kept(m), Of(m)) /\ Unmergeable(Kept(m))
    <3>1. Lists(Outcome(m).left, Kept(m)) /\ Unmergeable(Kept(m))
      BY OutcomeGood
    <3>2. Good(Given(m) \cup Lapsed(m) \cup Kept(m), Of(m))
      BY OutcomeGood
    <3>3. Good(Kept(m), Of(m))
      BY <3>2 DEF Good, Tidy
    <3> QED
      BY <1>1, <3>1, <3>3
  <2> QED
    BY <1>1, <1>4, <1>5, <2>1 DEF SearchInv
<1>7. Done' = Done \cup UNION {Ended(m) : m \in Markers}
  BY <1>1 DEF Done
<1>8. \A y \in Done' : y \in Done \/ \E m \in Markers : y \in Ended(m)
  BY <1>7
<1>9. DoneInv'
  <2>1. ASSUME NEW x \in Done' PROVE Fit(x) /\ \E m \in Markers : x \in Group(Of(m))
    <3>1. CASE x \in Done
      BY <3>1 DEF RayInv, DoneInv
    <3>2. ASSUME NEW m \in Markers, x \in Ended(m) PROVE Fit(x) /\ x \in Group(Of(m))
      BY <3>2, OutcomeApart
    <3> QED
      BY <1>8, <3>1, <3>2
  <2>2. ASSUME NEW x \in Done', NEW y \in Done', x # y PROVE x.rays \cap y.rays = {}
    <3>1. CASE x \in Done /\ y \in Done
      BY <2>2, <3>1 DEF RayInv, DoneInv, Tidy
    <3>2. ASSUME NEW m \in Markers, x \in Ended(m), y \in Done PROVE x.rays \cap y.rays = {}
      BY <3>2, OutcomeApart
    <3>3. ASSUME NEW m \in Markers, y \in Ended(m), x \in Done PROVE x.rays \cap y.rays = {}
      <4>1. y.rays \cap x.rays = {}
        BY <3>3, OutcomeApart
      <4> QED
        BY <4>1
    <3>4. ASSUME NEW m \in Markers, NEW k \in Markers, x \in Ended(m), y \in Ended(k)
          PROVE  x.rays \cap y.rays = {}
      <4>1. CASE m = k
        <5>1. Tidy(Given(m) \cup Lapsed(m) \cup Kept(m))
          BY OutcomeGood DEF Good
        <5> QED
          BY <2>2, <3>4, <4>1, <5>1 DEF Tidy
      <4>2. CASE m # k
        <5>1. y \in Given(k) \cup Lapsed(k) \cup Kept(k) /\ k \in Markers \ {m}
          BY <3>4, <4>2
        <5> QED
          BY <3>4, <5>1, OutcomeApart
      <4> QED
        BY <4>1, <4>2
    <3> QED
      BY <1>8, <3>1, <3>2, <3>3, <3>4
  <2>3. ASSUME NEW x \in results', x \in expired' PROVE FALSE
    <3>1. x \in results \/ \E m \in Markers : x \in Given(m)
      BY <1>1
    <3>2. x \in expired \/ \E m \in Markers : x \in Lapsed(m)
      BY <1>1, <2>3
    <3>3. CASE x \in results /\ x \in expired
      BY <3>3 DEF RayInv, DoneInv
    <3>4. ASSUME NEW m \in Markers, x \in Given(m) \cup Lapsed(m), x \in Done PROVE FALSE
      BY <3>4, OutcomeApart
    <3>5. ASSUME NEW m \in Markers, NEW k \in Markers, x \in Given(m), x \in Lapsed(k) PROVE FALSE
      <4>1. m = k
        <5> SUFFICES ASSUME m # k PROVE FALSE
          OBVIOUS
        <5>1. x \in Given(m) \cup Lapsed(m) \cup Kept(m) /\ x \in Given(k) \cup Lapsed(k) \cup Kept(k)
              /\ k \in Markers \ {m}
          BY <3>5
        <5>2. x # x
          BY <5>1, OutcomeApart
        <5> QED
          BY <5>2
      <4>2. Given(m) \cap Lapsed(m) = {}
        BY OutcomeGood
      <4> QED
        BY <3>5, <4>1, <4>2
    <3> QED
      BY <3>1, <3>2, <3>3, <3>4, <3>5 DEF Done
  <2>4. ASSUME NEW x \in results' PROVE Cardinality(x.rays) >= MinMatches
    <3>1. CASE x \in results
      BY <3>1 DEF RayInv, DoneInv
    <3>2. ASSUME NEW m \in Markers, x \in Given(m) PROVE Cardinality(x.rays) >= MinMatches
      BY <3>2, OutcomeGood
    <3> QED
      BY <1>1, <3>1, <3>2
  <2>5. results' \cap expired' = {}
    BY <2>3
  <2> QED
    BY <1>5, <2>1, <2>2, <2>4, <2>5 DEF DoneInv, Tidy
<1>10. PlaceInv'
  <2>1. RaysOf(Done') = RaysOf(Done) \cup new
    BY <1>7 DEF RaysOf
  <2>2. InSearch' = kept
    BY <1>4 DEF InSearch
  <2>3. ASSUME NEW m \in Markers
        PROVE  LeftOf(RaysOf(Ended(m)) \cup RaysOf(Kept(m)), RaysOf(Waiting(m)) \cup Fresh(m))
    <3>1. LeftOf(RaysOf(Given(m) \cup Lapsed(m) \cup Kept(m)), RaysOf(Waiting(m)) \cup Fresh(m))
      BY OutcomeGood
    <3>2. RaysOf(Ended(m) \cup Kept(m)) = RaysOf(Ended(m)) \cup RaysOf(Kept(m))
      BY DEF RaysOf
    <3> QED
      BY <3>1, <3>2
  <2>4. LeftOf(new \cup kept, InSearch \cup fresh)
    <3>1. ASSUME NEW r \in new \cup kept PROVE r \in InSearch \cup fresh
      <4>1. PICK m \in Markers : r \in RaysOf(Ended(m)) \cup RaysOf(Kept(m))
        OBVIOUS
      <4>2. r \in RaysOf(Waiting(m)) \cup Fresh(m)
        BY <2>3, <4>1 DEF LeftOf
      <4> QED
        BY <4>2 DEF InSearch
    <3>2. ASSUME NEW r \in InSearch \cup fresh, r \notin new \cup kept
          PROVE  \E twin \in new \cup kept : SameRay(twin, r)
      <4>1. PICK m \in Markers : r \in RaysOf(Waiting(m)) \cup Fresh(m)
        BY DEF InSearch
      <4>2. r \notin RaysOf(Ended(m)) \cup RaysOf(Kept(m))
        BY <3>2
      <4>3. \E twin \in RaysOf(Ended(m)) \cup RaysOf(Kept(m)) : SameRay(twin, r)
        BY <2>3, <4>1, <4>2 DEF LeftOf
      <4> QED
        BY <4>3
    <3> QED
      BY <3>1, <3>2 DEF LeftOf
  <2>5. ASSUME NEW r \in new, r \in kept PROVE FALSE
    <3>a. PICK m \in Markers : r \in RaysOf(Ended(m))
      OBVIOUS
    <3>1. PICK x \in Ended(m) : r \in x.rays
      BY <3>a DEF RaysOf
    <3>b. PICK k \in Markers : r \in RaysOf(Kept(k))
      BY <2>5
    <3>2. PICK y \in Kept(k) : r \in y.rays
      BY <3>b DEF RaysOf
    <3>3. CASE m # k
      <4>1. /\ x \in Given(m) \cup Lapsed(m) \cup Kept(m) /\ y \in Given(k) \cup Lapsed(k) \cup Kept(k)
            /\ k \in Markers \ {m}
        BY <3>3
      <4>2. x.rays \cap y.rays = {}
        BY <4>1, OutcomeApart
      <4> QED
        BY <3>1, <3>2, <4>2
    <3>4. CASE m = k
      <4>1. /\ Good(Given(m) \cup Lapsed(m) \cup Kept(m), Of(m))
            /\ Given(m) \cap Kept(m) = {} /\ Lapsed(m) \cap Kept(m) = {}
        BY OutcomeGood
      <4>2. x # y
        BY <3>4, <4>1
      <4>3. x.rays \cap y.rays = {}
        BY <3>4, <4>1, <4>2 DEF Good, Tidy
      <4> QED
        BY <3>1, <3>2, <4>3
    <3> QED
      BY <3>3, <3>4
  <2>6. fresh \subseteq Queued
    BY DEF Fresh, DrainedSources, Queued, ThreadInv, NoDanglingSource
  <2> HIDE DEF fresh, new, kept
  <2>7. Parts(added, Queued \ fresh, kept, RaysOf(Done) \cup new, dropped)
    <3> DEFINE g == RaysOf(Done)
               found == Queued \cup InSearch \cup g \cup dropped
               after == (Queued \ fresh) \cup kept \cup (g \cup new) \cup dropped
    <3>1. Parts(added, Queued, InSearch, g, dropped)
      BY DEF RayInv, PlaceInv
    <3>2. new \cup kept \subseteq InSearch \cup fresh
      BY <2>4 DEF LeftOf
    <3> HIDE DEF g
    <3>3. ASSUME NEW r \in added \ after
          PROVE  \E twin \in kept \cup (g \cup new) : SameRay(twin, r)
      <4>1. CASE r \in found
        <5>1. r \in InSearch \cup fresh /\ r \notin new \cup kept
          BY <3>3, <4>1
        <5> QED
          BY <2>4, <5>1 DEF LeftOf
      <4>2. CASE r \notin found
        <5>1. PICK s \in InSearch \cup g : SameRay(s, r)
          BY <3>1, <4>2 DEF Parts, LostTo
        <5>2. CASE s \in kept \cup (g \cup new)
          BY <5>1, <5>2
        <5>3. CASE s \notin kept \cup (g \cup new)
          <6>1. s \in InSearch \cup fresh /\ s \notin new \cup kept
            BY <5>1, <5>3
          <6>2. PICK t \in new \cup kept : SameRay(t, s)
            BY <2>4, <6>1 DEF LeftOf
          <6>3. SameRay(t, r)
            BY <5>1, <6>2 DEF SameRay
          <6> QED
            BY <6>2, <6>3
        <5> QED
          BY <5>2, <5>3
      <4> QED
        BY <4>1, <4>2
    <3>4. LostTo(kept \cup (g \cup new), added \ after)
      BY <3>3 DEF LostTo
    <3>5. Parts(added, Queued \ fresh, kept, g \cup new, dropped)
      BY <2>5, <2>6, <3>1, <3>2, <3>4 DEF Parts
    <3> QED
      BY <3>5 DEF g
  <2> QED
    BY <1>1, <1>3, <2>1, <2>2, <2>7 DEF PlaceInv
<1> QED
  BY <1>2, <1>3, <1>6, <1>9, <1>10 DEF RayInv

-----------------------------------------------------------------------------
(* The clock, and the two histories of a data race.                        *)
ClockInv ==
    /\ now \in 0 .. MaxTime /\ stall \in 0 .. MaxStall
    /\ unmarked \subseteq Clients /\ crashed \in BOOLEAN

(* The steps of the server thread.                                         *)
LEMMA ServerKeepsRays ==
  ASSUME ThreadInv, RayInv, ClockInv, ServerStep
  PROVE  RayInv'
<1>0. UNCHANGED <<cpc, ray, added>>
  BY DEF ServerStep
<1>s. ASSUME UNCHANGED <<data, dropped, searchVars>> PROVE RayInv'
  <2>1. SentInv'
    BY <1>0, SentStays DEF RayInv
  <2>2. QueueInv' /\ Queued' = Queued
    BY <1>0, <1>s DEF RayInv, QueueInv, Queued, Deque, From
  <2> QED
    BY <1>0, <1>s, <2>1, <2>2, RaysStay DEF searchVars
<1>1. CASE SyncStart
  BY <1>1, <1>s DEF SyncStart
<1>2. CASE SyncMatch
  <2>1. now \in Nat
    BY DEF ClockInv
  <2> QED
    BY <1>0, <1>2, <2>1, MatchRays
<1>3. CASE SyncReap
  BY <1>0, <1>3, ReapRays
<1>4. CASE SyncEnd
  BY <1>4, <1>s DEF SyncEnd
<1>5. ASSUME NEW d \in Clients, SyncLock(d) PROVE RayInv'
  BY <1>5, <1>s DEF SyncLock
<1>6. ASSUME NEW d \in Clients, SyncUnlock(d) PROVE RayInv'
  BY <1>6, <1>s DEF SyncUnlock
<1> QED
  BY <1>1, <1>2, <1>3, <1>4, <1>5, <1>6 DEF ServerStep

(* No ray anywhere before any thread has moved.                            *)
LEMMA InitRays == Init => RayInv /\ ClockInv
<1> SUFFICES ASSUME Init PROVE RayInv /\ ClockInv
  OBVIOUS
<1>1. /\ now = 0 /\ stall = 0 /\ DOMAIN data = {} /\ added = {} /\ results = {} /\ expired = {}
      /\ dropped = {} /\ unmarked = {} /\ crashed = FALSE
      /\ search = [m \in Markers |-> <<>>]
      /\ \A c \in Clients : cpc[c] = "running"
  BY DEF Init
<1>2. SentInv
  <2>1. IsFiniteSet(added)
    BY <1>1, FS_EmptySet
  <2> QED
    BY <1>1, <2>1 DEF SentInv, Sent, Spaced, HoldsNext
<1>3. QueueInv
  BY <1>1, FS_EmptySet DEF QueueInv
<1>4. \A m \in Markers : search[m] = <<>> /\ Waiting(m) = {}
  BY <1>1 DEF Waiting, ToSet
<1>5. SearchInv
  <2>1. Lists(<<>>, {})
    BY DEF Lists
  <2>2. Unmergeable({}) /\ \A m : Good({}, Of(m))
    BY DEF Unmergeable, Good, Tidy
  <2> QED
    BY <1>1, <1>4, <2>1, <2>2 DEF SearchInv
<1>6. DoneInv
  BY <1>1 DEF DoneInv, Done, Tidy
<1>7. PlaceInv
  <2>1. Queued = {}
    BY <1>1 DEF Queued
  <2>2. InSearch = {}
    BY <1>4 DEF InSearch, RaysOf
  <2>3. RaysOf(Done) = {}
    BY <1>1 DEF Done, RaysOf
  <2> QED
    BY <1>1, <2>1, <2>2, <2>3 DEF PlaceInv, Parts, LostTo
<1>8. ClockInv
  <2>1. 0 \in 0 .. MaxTime /\ 0 \in 0 .. MaxStall
    BY DataAssumption
  <2> QED
    BY <1>1, <2>1 DEF ClockInv
<1> QED
  BY <1>2, <1>3, <1>5, <1>6, <1>7, <1>8 DEF RayInv

(* The clock.                                                              *)
LEMMA ClockRuns ==
  ASSUME ClockInv, [Next]_vars
  PROVE  ClockInv'
<1>1. CASE ServerStep
  <2>1. UNCHANGED <<now, unmarked, crashed>> /\ (stall' = stall \/ stall' = 0)
    BY <1>1 DEF ServerStep, SyncStart, SyncLock, SyncMatch, SyncUnlock, SyncReap, SyncEnd
  <2> QED
    BY <2>1, DataAssumption DEF ClockInv
<1>2. CASE Tick
  BY <1>2, DataAssumption DEF Tick, ClockInv
<1>3. ASSUME NEW c \in Clients, ClientStep(c) PROVE ClockInv'
  BY <1>3 DEF ClientStep, NewRay, AddRayLock, AddRayLookup, AddRayPush, Disconnect,
              RemoveClient, RemoveClientRaced, ClockInv
<1>4. CASE UNCHANGED vars
  BY <1>4 DEF vars, ClockInv
<1> QED
  BY <1>1, <1>2, <1>3, <1>4 DEF Next, Crashed

(* Where the rays are, whatever the threads do.                            *)
LEMMA RaysKept == SafeSpec => [](ThreadInv /\ RayInv /\ ClockInv)
<1>1. ASSUME ThreadInv, RayInv, ClockInv, [Next]_vars PROVE RayInv' /\ ClockInv'
  <2>1. ClockInv'
    BY <1>1, ClockRuns
  <2>2. CASE ServerStep
    BY <1>1, <2>1, <2>2, ServerKeepsRays
  <2>3. ASSUME NEW c \in Clients, ClientStep(c) PROVE RayInv'
    BY <1>1, <2>3, ClientKeepsRays
  <2>4. CASE UNCHANGED <<threadVars, searchVars, added, dropped>>
    <3>1. SentInv'
      BY <1>1, <2>4, SentStays DEF threadVars, RayInv
    <3>2. QueueInv' /\ Queued' = Queued
      BY <1>1, <2>4 DEF threadVars, RayInv, QueueInv, Queued, Deque, From
    <3> QED
      BY <1>1, <2>1, <2>4, <3>1, <3>2, RaysStay DEF searchVars
  <2> QED
    BY <1>1, <2>1, <2>2, <2>3, <2>4 DEF Next, Tick, Crashed, vars
<1>2. ThreadInv /\ RayInv /\ ClockInv /\ [Next]_vars => RayInv' /\ ClockInv'
  BY <1>1
<1> QED
  BY <1>2, InitRays, ThreadsSafe, PTL DEF SafeSpec

-----------------------------------------------------------------------------
(* Every variable has its type.                                            *)
THEOREM ManagerTyped == SafeSpec => []TypeOK
<1>1. ThreadInv /\ RayInv /\ ClockInv => TypeOK
  <2> SUFFICES ASSUME ThreadInv, RayInv, ClockInv PROVE TypeOK
    OBVIOUS
  <2>1. added \subseteq Rays /\ dropped \subseteq Rays
    BY DEF RayInv, SentInv, Sent, PlaceInv, Parts
  <2>2. \A m : Group(Of(m)) \subseteq Matches
    BY <2>1 DEF Group, Matches, Of
  <2>3. search \in [Markers -> Seq(Matches)]
    <3>1. ASSUME NEW m \in Markers PROVE search[m] \in Seq(Matches)
      <4>1. search[m] \in Seq(Waiting(m)) /\ Waiting(m) \subseteq Matches
        BY <2>2 DEF RayInv, SearchInv, Lists, Good
      <4> QED
        BY <4>1
    <3> QED
      BY <3>1 DEF RayInv, SearchInv
  <2>4. Done \subseteq Matches
    BY <2>2 DEF RayInv, DoneInv
  <2>5. results \subseteq Matches /\ expired \subseteq Matches
    BY <2>4 DEF Done
  <2> QED
    BY <2>1, <2>3, <2>5 DEF TypeOK, ThreadInv, ClockInv
<1> QED
  BY <1>1, RaysKept, PTL

(* No two matches that wait could be merged.                               *)
THEOREM PendingMerged == SafeSpec => []PendingIsMerged
<1>1. RayInv => PendingIsMerged
  <2> SUFFICES ASSUME RayInv, NEW m \in Markers, NEW i \in DOMAIN search[m],
                      NEW j \in DOMAIN search[m], i # j
               PROVE  ~Compatible(search[m][i], search[m][j])
    BY DEF PendingIsMerged, IsMerged
  <2>1. Lists(search[m], Waiting(m)) /\ Unmergeable(Waiting(m))
    BY DEF RayInv, SearchInv
  <2>2. search[m][i] # search[m][j]
    BY <2>1 DEF Lists
  <2> QED
    BY <2>1, <2>2 DEF Unmergeable, Waiting, ToSet
<1> QED
  BY <1>1, RaysKept, PTL

(* A reported match is one marker, seen at about the same time, by at      *)
(* least two cameras.                                                      *)
THEOREM Consistent ==
  ASSUME MinFrameGap >= MaxTimeDiff, MinMatches >= 2
  PROVE  SafeSpec => []ResultsConsistent
<1>1. RayInv => ResultsConsistent
  <2> SUFFICES ASSUME RayInv, NEW x \in results
               PROVE  /\ Cardinality({r.client : r \in x.rays}) >= 2
                      /\ \A r1, r2 \in x.rays :
                            /\ r1.marker = r2.marker
                            /\ r1.time - r2.time < MaxTimeDiff
                            /\ r1 # r2 => r1.client # r2.client
    BY DEF ResultsConsistent
  <2>1. PICK m \in Markers : x \in Group(Of(m))
    BY DEF RayInv, DoneInv, Done
  <2>2. Close(x.rays) /\ Distinct(x.rays) /\ Cardinality(x.rays) >= MinMatches
    BY DEF RayInv, DoneInv, Done, Fit
  <2>3. x.rays \in SUBSET added /\ \A r \in x.rays : r.marker = m /\ r.time \in Nat
    BY <2>1 DEF Group, Of, RayInv, SentInv, Sent, Rays
  <2>4. ASSUME NEW r \in x.rays, NEW s \in x.rays, r # s PROVE r.client # s.client
    <3> SUFFICES ASSUME r.client = s.client PROVE FALSE
      OBVIOUS
    <3>a. r.id # s.id
      BY <2>2, <2>3, <2>4 DEF Distinct, SameRay
    <3>1. r.time + MinFrameGap <= s.time \/ s.time + MinFrameGap <= r.time
      BY <2>3, <3>a DEF RayInv, SentInv, Spaced
    <3>2. r.time - s.time < MaxTimeDiff /\ s.time - r.time < MaxTimeDiff
      BY <2>2 DEF Close
    <3>3. r.time \in Int /\ s.time \in Int /\ MinFrameGap \in Int /\ MaxTimeDiff \in Int
      BY <2>3, DataAssumption, SearchAssumption
    <3> QED
      BY <3>1, <3>2, <3>3
  <2>5. Cardinality({r.client : r \in x.rays}) >= 2
    <3> DEFINE C == {r.client : r \in x.rays}
               f == [r \in x.rays |-> r.client]
    <3>1. IsFiniteSet(x.rays)
      BY <2>3, FS_Subset DEF RayInv, SentInv, Sent
    <3>2. f \in Bijection(x.rays, C)
      BY <2>4 DEF Bijection, Injection, Surjection, IsInjective
    <3>3. ExistsBijection(x.rays, C)
      BY <3>2 DEF ExistsBijection
    <3> HIDE DEF C
    <3>4. Cardinality(C) = Cardinality(x.rays)
      BY <3>1, <3>3, FS_Bijection
    <3>5. Cardinality(x.rays) \in Nat /\ MinMatches \in Nat
      BY <3>1, FS_CardinalityType, SearchAssumption
    <3>6. Cardinality(C) >= 2
      BY <2>2, <3>4, <3>5
    <3> QED
      BY <3>6 DEF C
  <2>6. \A r, s \in x.rays : r.marker = s.marker /\ r.time - s.time < MaxTimeDiff
    BY <2>2, <2>3 DEF Close
  <2> QED
    BY <2>4, <2>5, <2>6
<1> QED
  BY <1>1, RaysKept, PTL

(* What is at a place: a ray in a deque, the rays of a match that waits,   *)
(* those of one that is done with, the rays lost with erased sources.      *)
QueuedAt(p) ==
    \E d \in DOMAIN data, m \in Markers : \E i \in DOMAIN data[d].rays[m] :
        p = <<"queued", d, m, i>> /\ RaysAt(p) = {data[d].rays[m][i]}
WaitingAt(p) ==
    \E m \in Markers : \E i \in DOMAIN search[m] :
        p = <<"pending", m, i>> /\ RaysAt(p) = search[m][i].rays
DoneAt(p) ==
    \/ \E x \in results : p = <<"reported", x>> /\ RaysAt(p) = x.rays
    \/ \E x \in expired : p = <<"expired", x>> /\ RaysAt(p) = x.rays
LostAt(p) == p = <<"dropped">> /\ RaysAt(p) = dropped

(* The places, and what is at each.                                        *)
LEMMA PlacesAre ==
  /\ \A p \in Places : QueuedAt(p) \/ WaitingAt(p) \/ DoneAt(p) \/ LostAt(p)
  /\ \A d \in DOMAIN data, m \in Markers : \A i \in DOMAIN data[d].rays[m] :
        LET p == <<"queued", d, m, i>> IN p \in Places /\ RaysAt(p) = {data[d].rays[m][i]}
  /\ \A m \in Markers : \A i \in DOMAIN search[m] :
        LET p == <<"pending", m, i>> IN p \in Places /\ RaysAt(p) = search[m][i].rays
  /\ \A x \in results :
        LET p == <<"reported", x>> IN p \in Places /\ RaysAt(p) = x.rays
  /\ \A x \in expired :
        LET p == <<"expired", x>> IN p \in Places /\ RaysAt(p) = x.rays
  /\ <<"dropped">> \in Places /\ RaysAt(<<"dropped">>) = dropped
<1>2. /\ \A d, m, i : RaysAt(<<"queued", d, m, i>>) = {data[d].rays[m][i]}
      /\ \A m, i : RaysAt(<<"pending", m, i>>) = search[m][i].rays
      /\ \A x : RaysAt(<<"reported", x>>) = x.rays /\ RaysAt(<<"expired", x>>) = x.rays
      /\ RaysAt(<<"dropped">>) = dropped
  BY DEF RaysAt
<1>3. ASSUME NEW p \in QueuedPlaces
      PROVE  \E d \in DOMAIN data, m \in Markers : \E i \in DOMAIN data[d].rays[m] :
                p = <<"queued", d, m, i>>
  <2>1. PICK x \in InDeques : p \in {<<"queued", x[1], x[2], i>> : i \in DOMAIN data[x[1]].rays[x[2]]}
    BY DEF QueuedPlaces
  <2>2. x[1] \in DOMAIN data /\ x[2] \in Markers
    BY DEF InDeques
  <2> QED
    BY <2>1, <2>2
<1>4. ASSUME NEW d \in DOMAIN data, NEW m \in Markers, NEW i \in DOMAIN data[d].rays[m]
      PROVE  <<"queued", d, m, i>> \in QueuedPlaces
  <2>1. <<d, m>> \in InDeques
    BY DEF InDeques
  <2>2. <<"queued", d, m, i>> \in {<<"queued", <<d, m>>[1], <<d, m>>[2], j>> :
                                      j \in DOMAIN data[<<d, m>>[1]].rays[<<d, m>>[2]]}
    OBVIOUS
  <2> QED
    BY <2>1, <2>2 DEF QueuedPlaces
<1>5. /\ \A p \in PendingPlaces : \E m \in Markers : \E i \in DOMAIN search[m] : p = <<"pending", m, i>>
      /\ \A m \in Markers : \A i \in DOMAIN search[m] : <<"pending", m, i>> \in PendingPlaces
  BY DEF PendingPlaces
<1>6. \A p : p \in Places <=> \/ p \in QueuedPlaces \/ p \in PendingPlaces
                              \/ \E x \in results : p = <<"reported", x>>
                              \/ \E x \in expired : p = <<"expired", x>>
                              \/ p = <<"dropped">>
  BY DEF Places
<1> QED
  BY <1>2, <1>3, <1>4, <1>5, <1>6 DEF QueuedAt, WaitingAt, DoneAt, LostAt

(* The part of the rays a place belongs to.                                *)
LEMMA PlaceParts ==
  ASSUME NEW a
  PROVE  /\ QueuedAt(a) => RaysAt(a) \subseteq Queued
         /\ WaitingAt(a) => RaysAt(a) \subseteq InSearch
         /\ DoneAt(a) => RaysAt(a) \subseteq RaysOf(Done)
         /\ LostAt(a) => RaysAt(a) \subseteq dropped
<1>1. QueuedAt(a) => RaysAt(a) \subseteq Queued
  <2> SUFFICES ASSUME QueuedAt(a), NEW x \in RaysAt(a) PROVE x \in Queued
    OBVIOUS
  <2>1. PICK d \in DOMAIN data, m \in Markers :
            \E i \in DOMAIN data[d].rays[m] : x = data[d].rays[m][i]
    BY DEF QueuedAt
  <2>2. x \in Deque(d, m)
    BY <2>1 DEF Deque, ToSet
  <2> QED
    BY <2>2 DEF Queued
<1>2. WaitingAt(a) => RaysAt(a) \subseteq InSearch
  BY DEF WaitingAt, InSearch, RaysOf, Waiting, ToSet
<1>3. DoneAt(a) => RaysAt(a) \subseteq RaysOf(Done)
  BY DEF DoneAt, RaysOf, Done
<1>4. LostAt(a) => RaysAt(a) \subseteq dropped
  BY DEF LostAt
<1> QED
  BY <1>1, <1>2, <1>3, <1>4

(* A ray is at no more than one place, since a place says which of the     *)
(* four parts its rays are in.                                             *)
LEMMA PlacesApart ==
  ASSUME ThreadInv, RayInv, NEW p \in Places, NEW q \in Places,
         NEW r, r \in RaysAt(p), r \in RaysAt(q)
  PROVE  p = q
<1>3. \/ QueuedAt(p) /\ QueuedAt(q)
      \/ WaitingAt(p) /\ WaitingAt(q)
      \/ DoneAt(p) /\ DoneAt(q)
      \/ LostAt(p) /\ LostAt(q)
  BY PlaceParts, PlacesAre DEF RayInv, PlaceInv, Parts
<1>4. CASE QueuedAt(p) /\ QueuedAt(q)
  <2>1. PICK d \in DOMAIN data, m \in Markers : \E i \in DOMAIN data[d].rays[m] :
            p = <<"queued", d, m, i>> /\ r = data[d].rays[m][i]
    BY <1>4 DEF QueuedAt
  <2>2. PICK i \in DOMAIN data[d].rays[m] : p = <<"queued", d, m, i>> /\ r = data[d].rays[m][i]
    BY <2>1
  <2>3. PICK e \in DOMAIN data, n \in Markers : \E j \in DOMAIN data[e].rays[n] :
            q = <<"queued", e, n, j>> /\ r = data[e].rays[n][j]
    BY <1>4 DEF QueuedAt
  <2>4. PICK j \in DOMAIN data[e].rays[n] : q = <<"queued", e, n, j>> /\ r = data[e].rays[n][j]
    BY <2>3
  <2>5. r \in Deque(d, m) /\ r \in Deque(e, n)
    BY <2>2, <2>4 DEF Deque, ToSet
  <2>6. r.client = d /\ r.marker = m /\ r.client = e /\ r.marker = n
    BY <2>5 DEF RayInv, QueueInv, From
  <2>7. i = j
    <3>1. Lists(data[d].rays[m], Deque(d, m))
      BY DEF RayInv, QueueInv
    <3>2. data[e].rays[n] = data[d].rays[m]
      BY <2>6
    <3> QED
      BY <2>2, <2>4, <3>1, <3>2 DEF Lists
  <2> QED
    BY <2>2, <2>4, <2>6, <2>7
<1>5. CASE WaitingAt(p) /\ WaitingAt(q)
  <2>1. PICK m \in Markers : \E i \in DOMAIN search[m] :
            p = <<"pending", m, i>> /\ r \in search[m][i].rays
    BY <1>5 DEF WaitingAt
  <2>2. PICK i \in DOMAIN search[m] : p = <<"pending", m, i>> /\ r \in search[m][i].rays
    BY <2>1
  <2>3. PICK n \in Markers : \E j \in DOMAIN search[n] :
            q = <<"pending", n, j>> /\ r \in search[n][j].rays
    BY <1>5 DEF WaitingAt
  <2>4. PICK j \in DOMAIN search[n] : q = <<"pending", n, j>> /\ r \in search[n][j].rays
    BY <2>3
  <2> DEFINE x == search[m][i]
             y == search[n][j]
  <2>5. x \in Waiting(m) /\ y \in Waiting(n)
    BY DEF Waiting, ToSet
  <2>6. x.rays \subseteq Of(m) /\ y.rays \subseteq Of(n)
    BY <2>5 DEF RayInv, SearchInv, Good, Group
  <2>7. m = n
    BY <2>2, <2>4, <2>6 DEF Of
  <2>8. x = y
    BY <2>2, <2>4, <2>5, <2>7 DEF RayInv, SearchInv, Good, Tidy
  <2>9. i = j
    BY <2>7, <2>8 DEF RayInv, SearchInv, Lists
  <2> QED
    BY <2>2, <2>4, <2>7, <2>9
<1>6. CASE DoneAt(p) /\ DoneAt(q)
  <2>1. PICK x \in Done : /\ r \in x.rays
                          /\ \/ x \in results /\ p = <<"reported", x>>
                             \/ x \in expired /\ p = <<"expired", x>>
    BY <1>6 DEF DoneAt, Done
  <2>2. PICK y \in Done : /\ r \in y.rays
                          /\ \/ y \in results /\ q = <<"reported", y>>
                             \/ y \in expired /\ q = <<"expired", y>>
    BY <1>6 DEF DoneAt, Done
  <2>3. x = y
    BY <2>1, <2>2 DEF RayInv, DoneInv, Tidy
  <2> QED
    BY <2>1, <2>2, <2>3 DEF RayInv, DoneInv
<1>7. CASE LostAt(p) /\ LostAt(q)
  BY <1>7 DEF LostAt
<1> QED
  BY <1>3, <1>4, <1>5, <1>6, <1>7

(* Where the rays are found.                                               *)
Found == Queued \cup InSearch \cup RaysOf(Done) \cup dropped

LEMMA PlacesCover ==
  ASSUME ThreadInv, RayInv
  PROVE  Found = UNION {RaysAt(p) : p \in Places}
<1>1. ASSUME NEW p \in Places PROVE RaysAt(p) \subseteq Found
  <2>1. Queued \subseteq Found /\ InSearch \subseteq Found /\ RaysOf(Done) \subseteq Found
        /\ dropped \subseteq Found
    BY DEF Found
  <2>2. CASE QueuedAt(p)
    BY <2>1, <2>2, PlaceParts
  <2>3. CASE WaitingAt(p)
    BY <2>1, <2>3, PlaceParts
  <2>4. CASE DoneAt(p)
    BY <2>1, <2>4, PlaceParts
  <2>5. CASE LostAt(p)
    BY <2>1, <2>5, PlaceParts
  <2> QED
    BY <2>2, <2>3, <2>4, <2>5, PlacesAre
<1>2. ASSUME NEW r \in Found PROVE \E p \in Places : r \in RaysAt(p)
  <2>1. r \in Queued \/ r \in InSearch \/ r \in RaysOf(Done) \/ r \in dropped
    BY DEF Found
  <2>2. CASE r \in Queued
    <3>1. PICK d \in DOMAIN data, m \in Markers : r \in Deque(d, m)
      BY <2>2 DEF Queued
    <3>2. PICK i \in DOMAIN data[d].rays[m] : r = data[d].rays[m][i]
      BY <3>1 DEF Deque, ToSet
    <3>3. <<"queued", d, m, i>> \in Places /\ RaysAt(<<"queued", d, m, i>>) = {r}
      BY <3>2, PlacesAre
    <3> QED
      BY <3>3
  <2>3. CASE r \in InSearch
    <3>1. PICK m \in Markers : \E x \in Waiting(m) : r \in x.rays
      BY <2>3 DEF InSearch, RaysOf
    <3>2. PICK i \in DOMAIN search[m] : r \in search[m][i].rays
      BY <3>1 DEF Waiting, ToSet
    <3>3. <<"pending", m, i>> \in Places /\ RaysAt(<<"pending", m, i>>) = search[m][i].rays
      BY PlacesAre
    <3> QED
      BY <3>2, <3>3
  <2>4. CASE r \in RaysOf(Done)
    <3>1. PICK x \in Done : r \in x.rays
      BY <2>4 DEF RaysOf
    <3> QED
      BY <3>1, PlacesAre DEF Done
  <2>5. CASE r \in dropped
    BY <2>5, PlacesAre
  <2> QED
    BY <2>1, <2>2, <2>3, <2>4, <2>5
<1> QED
  BY <1>1, <1>2

(* A ray that is not found was lost to a twin in a match.                  *)
LEMMA LostAreTwins ==
  ASSUME ThreadInv, RayInv, NEW r \in added \ Found
  PROVE  LostToTwin(r)
<1>1. PICK s \in InSearch \cup RaysOf(Done) : SameRay(s, r)
  BY DEF RayInv, PlaceInv, Parts, LostTo, Found
<1>2. CASE s \in InSearch
  <2>1. PICK m \in Markers : \E x \in Waiting(m) : s \in x.rays
    BY <1>2 DEF InSearch, RaysOf
  <2>2. PICK i \in DOMAIN search[m] : s \in search[m][i].rays
    BY <2>1 DEF Waiting, ToSet
  <2>3. PICK p : p = <<"pending", m, i>>
    OBVIOUS
  <2>4. p \in Places /\ RaysAt(p) = search[m][i].rays /\ p[1] = "pending"
    BY <2>3, PlacesAre
  <2>5. p \in MatchPlaces
    BY <2>4 DEF MatchPlaces
  <2> QED
    BY <1>1, <2>2, <2>4, <2>5 DEF LostToTwin
<1>3. CASE s \in RaysOf(Done)
  <2>1. PICK x \in Done : s \in x.rays
    BY <1>3 DEF RaysOf
  <2>2. PICK p : p = IF x \in results THEN <<"reported", x>> ELSE <<"expired", x>>
    OBVIOUS
  <2>3. p \in Places /\ RaysAt(p) = x.rays /\ p[1] \in {"reported", "expired"}
    BY <2>2, PlacesAre DEF Done
  <2>4. p \in MatchPlaces
    BY <2>3 DEF MatchPlaces
  <2> QED
    BY <1>1, <2>1, <2>3, <2>4 DEF LostToTwin
<1> QED
  BY <1>1, <1>2, <1>3

(* Every ray a client has sent is in one place, once: a deque, a match     *)
(* that waits, one that was reported or expired, or lost with its source;  *)
(* or it was lost to a twin, a ray of the same camera, frame and marker,   *)
(* that is in a match.                                                     *)
THEOREM RaysOnce == SafeSpec => []EachRayOnce
<1>1. ThreadInv /\ RayInv => EachRayOnce
  <2> SUFFICES ASSUME ThreadInv, RayInv PROVE EachRayOnce
    OBVIOUS
  <2>1. ASSUME NEW p \in Places, NEW q \in Places, p # q PROVE RaysAt(p) \cap RaysAt(q) = {}
    BY <2>1, PlacesApart
  <2>2. Found = UNION {RaysAt(p) : p \in Places}
    BY PlacesCover
  <2>3. Found \subseteq added
    BY DEF RayInv, PlaceInv, Parts, Found
  <2>4. \A r \in added \ Found : LostToTwin(r)
    BY LostAreTwins
  <2> HIDE DEF Found
  <2> QED
    BY <2>1, <2>2, <2>3, <2>4, Zenon DEF EachRayOnce
<1> QED
  BY <1>1, RaysKept, PTL

(* All of it: what the run about matching checks of a ray's way.           *)
THEOREM RaysMatched == SafeSpec => []RaysAreMatched
<1>1. TypeOK /\ EachRayOnce /\ PendingIsMerged => RaysAreMatched
  BY DEF RaysAreMatched
<1> QED
  BY <1>1, ManagerTyped, RaysOnce, PendingMerged, PTL

-----------------------------------------------------------------------------
(* What a match becomes that rays join, and where they join first.         *)
Grown(x, n) == [x EXCEPT !.rays = Insert(@, n.rays)]
JoinedAt(s, i, n) == [s EXCEPT ![i] = Grown(s[i], n)]
FitsNone(s, n) == \A j \in DOMAIN s : ~Compatible(s[j], n)
FitsFirst(s, n, i) ==
    /\ i \in DOMAIN s /\ Compatible(s[i], n)
    /\ \A j \in DOMAIN s : j < i => ~Compatible(s[j], n)

(* A match that fits no group starts one.                                  *)
LEMMA JoinsNone ==
  ASSUME NEW S, NEW s \in Seq(S), NEW n, FitsNone(s, n)
  PROVE  JoinFirst(s, n) = Append(s, n)
<1>1. SelectInSeq(s, LAMBDA g : Compatible(g, n)) = 0
  <2>1. {i \in 1 .. Len(s) : Compatible(s[i], n)} = {}
    BY DEF FitsNone
  <2> QED
    BY <2>1 DEF SelectInSeq
<1> QED
  BY <1>1 DEF JoinFirst

(* A match that fits a group joins the first.                              *)
LEMMA JoinsAt ==
  ASSUME NEW S, NEW s \in Seq(S), NEW n, NEW i, FitsFirst(s, n, i)
  PROVE  JoinFirst(s, n) = JoinedAt(s, i, n)
<1> DEFINE I == {j \in 1 .. Len(s) : Compatible(s[j], n)}
           k == SelectInSeq(s, LAMBDA g : Compatible(g, n))
<1>1. i \in I /\ I \subseteq Nat /\ \A j \in I : i <= j
  BY DEF FitsFirst
<1>2. k = IF I # {} THEN Min(I) ELSE 0
  BY DEF SelectInSeq
<1>3. JoinFirst(s, n) = IF k = 0 THEN Append(s, n) ELSE [s EXCEPT ![k].rays = Insert(@, n.rays)]
  BY DEF JoinFirst
<1>4. i \in Nat \ {0}
  BY DEF FitsFirst
<1> HIDE DEF I, k
<1>5. Min(I) = i
  <2>1. \E x \in I : \A y \in I : x <= y
    BY <1>1
  <2>2. Min(I) \in I /\ \A y \in I : Min(I) <= y
    BY <2>1 DEF Min
  <2>3. Min(I) \in Nat /\ i \in Nat /\ Min(I) <= i /\ i <= Min(I)
    BY <1>1, <2>2
  <2> QED
    BY <2>3
<1>6. k = i /\ k # 0
  BY <1>1, <1>2, <1>4, <1>5
<1> QED
  BY <1>3, <1>6 DEF JoinedAt, Grown

(* Whether and where a match fits first.                                   *)
LEMMA FitsSomewhere ==
  ASSUME NEW S, NEW s \in Seq(S), NEW n
  PROVE  FitsNone(s, n) \/ \E i \in DOMAIN s : FitsFirst(s, n, i)
<1> DEFINE I == {j \in 1 .. Len(s) : Compatible(s[j], n)}
<1>1. CASE I = {}
  BY <1>1 DEF FitsNone
<1>2. CASE I # {}
  <2>1. I \subseteq Nat
    OBVIOUS
  <2>2. PICK i \in I : \A j \in I : i <= j
    <3> HIDE DEF I
    <3> QED
      BY <1>2, <2>1, LeastNumber
  <2>3. FitsFirst(s, n, i)
    BY <2>2 DEF FitsFirst
  <2> QED
    BY <2>2, <2>3
<1> QED
  BY <1>1, <1>2

(* Groups stay groups when a match joins.                                  *)
LEMMA GrownType ==
  ASSUME NEW A, NEW x \in Group(A), NEW n \in Group(A)
  PROVE  Grown(x, n) \in Group(A) /\ x.rays \subseteq Grown(x, n).rays
<1>1. LeftOf(Insert(x.rays, n.rays), x.rays \cup n.rays) /\ x.rays \subseteq Insert(x.rays, n.rays)
  BY InsertLeaves
<1>2. Insert(x.rays, n.rays) \in SUBSET A
  BY <1>1 DEF LeftOf, Group
<1>3. Grown(x, n) = [x EXCEPT !.rays = Insert(x.rays, n.rays)]
  BY DEF Grown, Group
<1> QED
  BY <1>1, <1>2, <1>3 DEF Group

(* One group of a list that has grown.                                     *)
LEMMA JoinedAtType ==
  ASSUME NEW A, NEW s \in Seq(Group(A)), NEW n \in Group(A), NEW i \in DOMAIN s
  PROVE  /\ JoinedAt(s, i, n) \in Seq(Group(A)) /\ Len(JoinedAt(s, i, n)) = Len(s)
         /\ JoinedAt(s, i, n)[i] = Grown(s[i], n)
         /\ \A j \in DOMAIN s : j # i => JoinedAt(s, i, n)[j] = s[j]
<1>1. Grown(s[i], n) \in Group(A)
  BY GrownType
<1> QED
  BY <1>1 DEF JoinedAt

(* What a list of groups becomes.                                          *)
LEMMA JoinFirstType ==
  ASSUME NEW A, NEW s \in Seq(Group(A)), NEW n \in Group(A)
  PROVE  JoinFirst(s, n) \in Seq(Group(A))
<1>1. CASE FitsNone(s, n)
  BY <1>1, JoinsNone, AppendProperties
<1>2. ASSUME NEW i \in DOMAIN s, FitsFirst(s, n, i) PROVE JoinFirst(s, n) \in Seq(Group(A))
  BY <1>2, JoinsAt, JoinedAtType
<1> QED
  BY <1>1, <1>2, FitsSomewhere

(* A list that is put in front of another.                                 *)
LEMMA HeadFirst ==
  ASSUME NEW S, NEW m \in S, NEW s \in Seq(S)
  PROVE  /\ <<m>> \o s \in Seq(S) /\ Len(<<m>> \o s) = Len(s) + 1
         /\ (<<m>> \o s)[1] = m
         /\ \A j \in 1 .. Len(s) : (<<m>> \o s)[j + 1] = s[j]
         /\ \A j \in 2 .. Len(s) + 1 : (<<m>> \o s)[j] = s[j - 1]
OBVIOUS

(* Two sequences with the same elements are the same.                      *)
LEMMA SameSequence ==
  ASSUME NEW S, NEW s \in Seq(S), NEW t \in Seq(S), Len(s) = Len(t),
         \A j \in 1 .. Len(s) : s[j] = t[j]
  PROVE  s = t
OBVIOUS

(* A match that does not fit the first group goes to the others.           *)
LEMMA JoinsLater ==
  ASSUME NEW A, NEW m \in Group(A), NEW s \in Seq(Group(A)), NEW n \in Group(A), ~Compatible(m, n)
  PROVE  JoinFirst(<<m>> \o s, n) = <<m>> \o JoinFirst(s, n)
<1>1. PICK t : t = <<m>> \o s
  OBVIOUS
<1>2. /\ t \in Seq(Group(A)) /\ Len(t) = Len(s) + 1 /\ t[1] = m
      /\ \A j \in 1 .. Len(s) : t[j + 1] = s[j]
      /\ \A j \in 2 .. Len(s) + 1 : t[j] = s[j - 1]
  BY <1>1, HeadFirst
<1>3. CASE FitsNone(s, n)
  <2>1. FitsNone(t, n)
    <3>1. ASSUME NEW j \in DOMAIN t PROVE ~Compatible(t[j], n)
      <4>1. CASE j = 1
        BY <1>2, <4>1
      <4>2. CASE j # 1
        <5>1. j \in 2 .. Len(s) + 1 /\ j - 1 \in DOMAIN s
          BY <1>2, <4>2
        <5> QED
          BY <1>2, <1>3, <5>1 DEF FitsNone
      <4> QED
        BY <4>1, <4>2
    <3> QED
      BY <3>1 DEF FitsNone
  <2>2. JoinFirst(t, n) = Append(t, n) /\ JoinFirst(s, n) = Append(s, n)
    BY <1>2, <1>3, <2>1, JoinsNone
  <2>3. Append(<<m>> \o s, n) = <<m>> \o Append(s, n)
    OBVIOUS
  <2> QED
    BY <1>1, <2>2, <2>3
<1>4. ASSUME NEW i \in DOMAIN s, FitsFirst(s, n, i) PROVE JoinFirst(t, n) = <<m>> \o JoinFirst(s, n)
  <2>1. i \in 1 .. Len(s) /\ i + 1 \in DOMAIN t
    BY <1>2
  <2>2. FitsFirst(t, n, i + 1)
    <3>1. Compatible(t[i + 1], n)
      BY <1>2, <1>4, <2>1 DEF FitsFirst
    <3>2. ASSUME NEW j \in DOMAIN t, j < i + 1 PROVE ~Compatible(t[j], n)
      <4>1. CASE j = 1
        BY <1>2, <4>1
      <4>2. CASE j # 1
        <5>1. j \in 2 .. Len(s) + 1 /\ j - 1 \in DOMAIN s /\ j - 1 < i
          BY <1>2, <2>1, <3>2, <4>2
        <5> QED
          BY <1>2, <1>4, <5>1 DEF FitsFirst
      <4> QED
        BY <4>1, <4>2
    <3> QED
      BY <2>1, <3>1, <3>2 DEF FitsFirst
  <2>3. PICK u : u = JoinedAt(t, i + 1, n)
    OBVIOUS
  <2>4. PICK v : v = JoinedAt(s, i, n)
    OBVIOUS
  <2>5. JoinFirst(t, n) = u /\ JoinFirst(s, n) = v
    BY <1>2, <1>4, <2>2, <2>3, <2>4, JoinsAt
  <2>6. /\ u \in Seq(Group(A)) /\ Len(u) = Len(t) /\ u[i + 1] = Grown(t[i + 1], n)
        /\ \A j \in DOMAIN t : j # i + 1 => u[j] = t[j]
    <3>1. i + 1 \in DOMAIN t /\ t \in Seq(Group(A))
      BY <1>2, <2>1
    <3>2. /\ JoinedAt(t, i + 1, n) \in Seq(Group(A)) /\ Len(JoinedAt(t, i + 1, n)) = Len(t)
          /\ JoinedAt(t, i + 1, n)[i + 1] = Grown(t[i + 1], n)
          /\ \A j \in DOMAIN t : j # i + 1 => JoinedAt(t, i + 1, n)[j] = t[j]
      BY <3>1, JoinedAtType
    <3> QED
      BY <2>3, <3>2
  <2>7. /\ v \in Seq(Group(A)) /\ Len(v) = Len(s) /\ v[i] = Grown(s[i], n)
        /\ \A j \in DOMAIN s : j # i => v[j] = s[j]
    BY <2>1, <2>4, JoinedAtType
  <2>8. PICK w : w = <<m>> \o v
    OBVIOUS
  <2>9. /\ w \in Seq(Group(A)) /\ Len(w) = Len(v) + 1 /\ w[1] = m
        /\ \A j \in 2 .. Len(v) + 1 : w[j] = v[j - 1]
    <3>0. v \in Seq(Group(A))
      BY <2>7
    <3>1. /\ <<m>> \o v \in Seq(Group(A)) /\ Len(<<m>> \o v) = Len(v) + 1
          /\ (<<m>> \o v)[1] = m
          /\ \A j \in 1 .. Len(v) : (<<m>> \o v)[j + 1] = v[j]
          /\ \A j \in 2 .. Len(v) + 1 : (<<m>> \o v)[j] = v[j - 1]
      BY <3>0, HeadFirst
    <3> QED
      BY <2>8, <3>1
  <2>10. ASSUME NEW j \in 1 .. Len(u) PROVE u[j] = w[j]
    <3>1. CASE j = 1
      <4>1. j \in DOMAIN t /\ j # i + 1
        BY <1>2, <2>1, <3>1
      <4> QED
        BY <1>2, <2>6, <2>9, <3>1, <4>1
    <3>2. CASE j = i + 1
      <4>1. j \in 2 .. Len(s) + 1 /\ j - 1 = i
        BY <2>1, <3>2
      <4>2. t[j] = s[i] /\ w[j] = v[i]
        BY <1>2, <2>7, <2>9, <4>1
      <4> QED
        BY <2>6, <2>7, <3>2, <4>2
    <3>3. CASE j # 1 /\ j # i + 1
      <4>1. j \in 2 .. Len(s) + 1 /\ j - 1 \in DOMAIN s /\ j - 1 # i /\ j \in DOMAIN t
        BY <1>2, <2>1, <2>6, <3>3
      <4> QED
        BY <1>2, <2>6, <2>7, <2>9, <3>3, <4>1
    <3> QED
      BY <3>1, <3>2, <3>3
  <2>11. u = w
    <3>1. Len(u) = Len(w)
      BY <1>2, <2>6, <2>7, <2>9
    <3> QED
      BY <2>6, <2>9, <2>10, <3>1, SameSequence
  <2> QED
    BY <2>5, <2>8, <2>11
<1> QED
  BY <1>1, <1>3, <1>4, FitsSomewhere

(* A match that fits the first group joins it.                             *)
LEMMA JoinsHead ==
  ASSUME NEW A, NEW m \in Group(A), NEW s \in Seq(Group(A)), NEW n \in Group(A), Compatible(m, n)
  PROVE  JoinFirst(<<m>> \o s, n) = <<Grown(m, n)>> \o s
<1>1. PICK t : t = <<m>> \o s
  OBVIOUS
<1>2. /\ t \in Seq(Group(A)) /\ Len(t) = Len(s) + 1 /\ t[1] = m
      /\ \A j \in 2 .. Len(s) + 1 : t[j] = s[j - 1]
  BY <1>1, HeadFirst
<1>3. 1 \in DOMAIN t /\ FitsFirst(t, n, 1)
  BY <1>2 DEF FitsFirst
<1>4. PICK u : u = JoinedAt(t, 1, n)
  OBVIOUS
<1>5. /\ u \in Seq(Group(A)) /\ Len(u) = Len(t) /\ u[1] = Grown(m, n)
      /\ \A j \in DOMAIN t : j # 1 => u[j] = t[j]
  <2>1. /\ JoinedAt(t, 1, n) \in Seq(Group(A)) /\ Len(JoinedAt(t, 1, n)) = Len(t)
        /\ JoinedAt(t, 1, n)[1] = Grown(t[1], n)
        /\ \A j \in DOMAIN t : j # 1 => JoinedAt(t, 1, n)[j] = t[j]
    BY <1>2, <1>3, JoinedAtType
  <2> QED
    BY <1>2, <1>4, <2>1
<1>6. PICK w : w = <<Grown(m, n)>> \o s
  OBVIOUS
<1>7. /\ w \in Seq(Group(A)) /\ Len(w) = Len(s) + 1 /\ w[1] = Grown(m, n)
      /\ \A j \in 2 .. Len(s) + 1 : w[j] = s[j - 1]
  <2>1. Grown(m, n) \in Group(A)
    BY GrownType
  <2> QED
    BY <1>6, <2>1, HeadFirst
<1>8. ASSUME NEW j \in 1 .. Len(u) PROVE u[j] = w[j]
  <2>1. CASE j = 1
    BY <1>5, <1>7, <2>1
  <2>2. CASE j # 1
    <3>1. j \in 2 .. Len(s) + 1 /\ j \in DOMAIN t
      BY <1>2, <1>5, <2>2
    <3> QED
      BY <1>2, <1>5, <1>7, <2>2, <3>1
  <2> QED
    BY <2>1, <2>2
<1>9. u = w
  <2>1. Len(u) = Len(w)
    BY <1>2, <1>5, <1>7
  <2> QED
    BY <1>5, <1>7, <1>8, <2>1, SameSequence
<1> QED
  BY <1>1, <1>2, <1>3, <1>4, <1>6, <1>9, JoinsAt

-----------------------------------------------------------------------------
(* The first-fit grouping, match by match.                                 *)
LEMMA FitSteps ==
  ASSUME NEW A, NEW ms \in Seq(Group(A))
  PROVE  \E r \in [0 .. Len(ms) -> Seq(Group(A))] :
            /\ r[0] = <<>> /\ FirstFit(ms) = r[Len(ms)]
            /\ \A k \in 1 .. Len(ms) : r[k] = JoinFirst(r[k - 1], ms[k])
<1> DEFINE n == Len(ms)
           h == [i \in 1 .. n |-> [v \in Seq(Group(A)) |-> JoinFirst(v, ms[i])]]
<1>1. n \in Nat /\ DOMAIN ms = 1 .. n /\ \A i \in 1 .. n : ms[i] \in Group(A)
  BY LenProperties, ElementOfSeq
<1>2. h \in [1 .. n -> [Seq(Group(A)) -> Seq(Group(A))]]
  BY <1>1, JoinFirstType
<1>3. \A i \in 1 .. n, v \in Seq(Group(A)) : h[i][v] = JoinFirst(v, ms[i])
  OBVIOUS
<1>4. <<>> \in Seq(Group(A))
  OBVIOUS
<1> HIDE DEF h, n
<1>5. PICK g \in [SUBSET (1 .. n) -> Seq(Group(A))] : IsFold(g, n, <<>>, h)
  BY <1>1, <1>2, <1>4, FoldExists DEF HasFold
<1> DEFINE iter == CHOOSE f : f = [t \in SUBSET (1 .. n) |->
               IF t = {} THEN <<>> ELSE JoinFirst(f[t \ {Max(t)}], ms[Max(t)])]
<1>6. g = [t \in SUBSET (1 .. n) |->
               IF t = {} THEN <<>> ELSE JoinFirst(g[t \ {Max(t)}], ms[Max(t)])]
  <2>1. ASSUME NEW t \in SUBSET (1 .. n)
        PROVE  g[t] = IF t = {} THEN <<>> ELSE JoinFirst(g[t \ {Max(t)}], ms[Max(t)])
    <3>1. CASE t = {}
      BY <1>5, <3>1 DEF IsFold
    <3>2. CASE t # {}
      <4>1. Max(t) \in 1 .. n
        BY <1>1, <3>2, GreatestNumber
      <4>2. g[t \ {Max(t)}] \in Seq(Group(A))
        BY <1>5
      <4>3. g[t] = h[Max(t)][g[t \ {Max(t)}]]
        BY <1>5, <3>2 DEF IsFold
      <4> QED
        BY <1>3, <3>2, <4>1, <4>2, <4>3
    <3> QED
      BY <3>1, <3>2
  <2> QED
    BY <2>1
<1>7. iter = [t \in SUBSET (1 .. n) |->
               IF t = {} THEN <<>> ELSE JoinFirst(iter[t \ {Max(t)}], ms[Max(t)])]
  BY <1>6, Zenon
<1>8. FirstFit(ms) = iter[1 .. n]
  BY <1>1, Zenon DEF FirstFit, FoldLeft, MapThenFoldSet
<1> HIDE DEF iter
<1> DEFINE r == [k \in 0 .. n |-> iter[1 .. k]]
<1>9. r[0] = <<>> /\ FirstFit(ms) = r[n]
  <2>1. iter[{}] = <<>>
    BY <1>7
  <2>2. 1 .. 0 = {} /\ 0 \in 0 .. n /\ n \in 0 .. n
    BY <1>1
  <2> QED
    BY <1>8, <2>1, <2>2
<1>10. ASSUME NEW k \in 1 .. n PROVE r[k] = JoinFirst(r[k - 1], ms[k])
  <2>1. /\ 1 .. k \in SUBSET (1 .. n) /\ 1 .. k # {} /\ Max(1 .. k) = k
        /\ (1 .. k) \ {k} = 1 .. k - 1
    BY <1>1, FirstPositions
  <2>2. iter[1 .. k] = JoinFirst(iter[1 .. k - 1], ms[k])
    BY <1>7, <2>1
  <2>3. k \in 0 .. n /\ k - 1 \in 0 .. n
    BY <1>1
  <2> QED
    BY <2>2, <2>3
<1>11. r = [k \in 0 .. n |-> r[k]]
  OBVIOUS
<1> HIDE DEF r
<1>12. r \in [0 .. n -> Seq(Group(A))]
  <2>1. ASSUME NEW k \in 1 .. n, r[k - 1] \in Seq(Group(A)) PROVE r[k] \in Seq(Group(A))
    <3>1. JoinFirst(r[k - 1], ms[k]) \in Seq(Group(A))
      BY <1>1, <2>1, JoinFirstType
    <3> QED
      BY <1>10, <3>1, Zenon
  <2> QED
    BY <1>1, <1>4, <1>9, <1>11, <2>1, StepsType
<1> QED
  BY <1>9, <1>10, <1>12 DEF n

(* The first matches of a list.                                            *)
LEMMA FirstMatches ==
  ASSUME NEW S, NEW s \in Seq(S)
  PROVE  /\ SubSeq(s, 1, 0) = <<>> /\ SubSeq(s, 1, Len(s)) = s
         /\ \A k \in 1 .. Len(s) :
              /\ s[k] \in S /\ SubSeq(s, 1, k - 1) \in Seq(S)
              /\ SubSeq(s, 1, k) = Append(SubSeq(s, 1, k - 1), s[k])
OBVIOUS

(* The last match of a list is grouped last.                               *)
LEMMA FitAppend ==
  ASSUME NEW A, NEW s \in Seq(Group(A)), NEW x \in Group(A)
  PROVE  FirstFit(Append(s, x)) = JoinFirst(FirstFit(s), x)
<1>1. PICK t : t = Append(s, x)
  OBVIOUS
<1>2. PICK n \in Nat : n = Len(s)
  BY LenProperties
<1>3. /\ t \in Seq(Group(A)) /\ Len(t) = n + 1 /\ t[n + 1] = x
      /\ \A k \in 1 .. n : t[k] = s[k]
  BY <1>1, <1>2
<1>4. PICK r \in [0 .. Len(s) -> Seq(Group(A))] :
            /\ r[0] = <<>> /\ FirstFit(s) = r[Len(s)]
            /\ \A k \in 1 .. Len(s) : r[k] = JoinFirst(r[k - 1], s[k])
  BY FitSteps
<1>5. PICK q \in [0 .. Len(t) -> Seq(Group(A))] :
            /\ q[0] = <<>> /\ FirstFit(t) = q[Len(t)]
            /\ \A k \in 1 .. Len(t) : q[k] = JoinFirst(q[k - 1], t[k])
  BY <1>3, FitSteps
<1>6. /\ r[0] = q[0] /\ FirstFit(s) = r[n] /\ FirstFit(t) = q[n + 1]
      /\ \A k \in 1 .. n : r[k] = JoinFirst(r[k - 1], s[k]) /\ q[k] = JoinFirst(q[k - 1], s[k])
      /\ q[n + 1] = JoinFirst(q[n], x)
  <2>1. \A k \in 1 .. n : k \in 1 .. Len(t)
    BY <1>2, <1>3
  <2>2. n + 1 \in 1 .. Len(t) /\ (n + 1) - 1 = n
    BY <1>2, <1>3
  <2>3. q[n + 1] = JoinFirst(q[(n + 1) - 1], t[n + 1])
    BY <1>5, <2>2
  <2>4. \A k \in 1 .. n : q[k] = JoinFirst(q[k - 1], t[k])
    BY <1>5, <2>1
  <2> QED
    BY <1>2, <1>3, <1>4, <1>5, <2>2, <2>3, <2>4
<1> DEFINE T == {k \in Nat : r[k] = q[k]}
<1>7. 0 \in T
  BY <1>6
<1>8. ASSUME NEW k \in 1 .. n, k - 1 \in T PROVE k \in T
  BY <1>6, <1>8
<1>9. n \in T
  <2> HIDE DEF T
  <2>1. \A k \in 0 .. n : k \in T
    BY <1>2, <1>7, <1>8, BoundedInduction
  <2> QED
    BY <1>2, <2>1
<1> QED
  BY <1>1, <1>6, <1>9

(* Nothing is grouped into nothing.                                        *)
LEMMA FitNothing == FirstFit(<<>>) = <<>>
<1>1. ASSUME NEW s \in Seq(Group({})), Len(s) = 0 PROVE FirstFit(s) = <<>>
  <2>1. PICK r \in [0 .. Len(s) -> Seq(Group({}))] :
          /\ r[0] = <<>> /\ FirstFit(s) = r[Len(s)]
          /\ \A k \in 1 .. Len(s) : r[k] = JoinFirst(r[k - 1], s[k])
    BY FitSteps
  <2> QED
    BY <1>1, <2>1
<1> QED
  BY <1>1, EmptySeq

(* One match is one group.                                                 *)
LEMMA FitShort ==
  ASSUME NEW A, NEW x \in Group(A)
  PROVE  FirstFit(<<>>) = <<>> /\ FirstFit(<<x>>) = <<x>>
<1>1. FirstFit(<<>>) = <<>>
  BY FitNothing
<1>2. FitsNone(<<>>, x)
  BY DEF FitsNone
<1>3. JoinFirst(<<>>, x) = Append(<<>>, x)
  BY <1>2, EmptySeq, JoinsNone
<1>4. FirstFit(Append(<<>>, x)) = JoinFirst(FirstFit(<<>>), x)
  BY EmptySeq, FitAppend
<1>5. Append(<<>>, x) = <<x>>
  OBVIOUS
<1> QED
  BY <1>1, <1>3, <1>4, <1>5

(* The grouping of a list of matches is one.                               *)
LEMMA FitType ==
  ASSUME NEW A, NEW s \in Seq(Group(A))
  PROVE  FirstFit(s) \in Seq(Group(A))
<1>1. PICK r \in [0 .. Len(s) -> Seq(Group(A))] :
            /\ r[0] = <<>> /\ FirstFit(s) = r[Len(s)]
            /\ \A k \in 1 .. Len(s) : r[k] = JoinFirst(r[k - 1], s[k])
  BY FitSteps
<1> QED
  BY <1>1

(* The inner loop comes to the last match of a list last.                  *)
LEMMA GatherAppend ==
  ASSUME NEW A, NEW x \in Group(A), NEW s \in Seq(Group(A)), NEW y \in Group(A)
  PROVE  GatherAll(x, Append(s, y)) = Gather(GatherAll(x, s), y)
<1>1. PICK t : t = Append(s, y)
  OBVIOUS
<1>2. PICK n \in Nat : n = Len(s)
  BY LenProperties
<1>3. /\ t \in Seq(Group(A)) /\ Len(t) = n + 1 /\ t[n + 1] = y
      /\ \A k \in 1 .. n : t[k] = s[k]
  BY <1>1, <1>2
<1>4. PICK r \in [0 .. Len(s) -> Gathers(A)] :
            /\ r[0] = Start(x) /\ GatherAll(x, s) = r[Len(s)]
            /\ \A k \in 1 .. Len(s) : r[k] = Gather(r[k - 1], s[k])
  BY GatherSteps
<1>5. PICK q \in [0 .. Len(t) -> Gathers(A)] :
            /\ q[0] = Start(x) /\ GatherAll(x, t) = q[Len(t)]
            /\ \A k \in 1 .. Len(t) : q[k] = Gather(q[k - 1], t[k])
  <2>1. t \in Seq(Group(A))
    BY <1>3
  <2> QED
    BY <2>1, GatherSteps
<1>6. /\ r[0] = q[0] /\ GatherAll(x, s) = r[n] /\ GatherAll(x, t) = q[n + 1]
      /\ \A k \in 1 .. n : r[k] = Gather(r[k - 1], s[k]) /\ q[k] = Gather(q[k - 1], s[k])
      /\ q[n + 1] = Gather(q[n], y)
  <2>1. \A k \in 1 .. n : k \in 1 .. Len(t)
    BY <1>2, <1>3
  <2>2. n + 1 \in 1 .. Len(t) /\ (n + 1) - 1 = n
    BY <1>2, <1>3
  <2>3. q[n + 1] = Gather(q[(n + 1) - 1], t[n + 1])
    BY <1>5, <2>2
  <2>4. \A k \in 1 .. n : q[k] = Gather(q[k - 1], t[k])
    BY <1>5, <2>1
  <2> QED
    BY <1>2, <1>3, <1>4, <1>5, <2>2, <2>3, <2>4
<1> DEFINE T == {k \in Nat : r[k] = q[k]}
<1>7. 0 \in T
  BY <1>6
<1>8. ASSUME NEW k \in 1 .. n, k - 1 \in T PROVE k \in T
  BY <1>6, <1>8
<1>9. n \in T
  <2> HIDE DEF T
  <2>1. \A k \in 0 .. n : k \in T
    BY <1>2, <1>7, <1>8, BoundedInduction
  <2> QED
    BY <1>2, <2>1
<1> QED
  BY <1>1, <1>6, <1>9

(* One step of the inner loop.                                             *)
LEMMA GatherCases ==
  ASSUME NEW A, NEW acc \in Gathers(A), NEW y \in Group(A)
  PROVE  /\ Compatible(acc.m, y) =>
              Gather(acc, y).m = Grown(acc.m, y) /\ Gather(acc, y).skipped = acc.skipped
         /\ ~Compatible(acc.m, y) =>
              Gather(acc, y).m = acc.m /\ Gather(acc, y).skipped = Append(acc.skipped, y)
<1>3. ASSUME Compatible(acc.m, y)
      PROVE  Gather(acc, y).m = Grown(acc.m, y) /\ Gather(acc, y).skipped = acc.skipped
  <2>1. Gather(acc, y) = [acc EXCEPT !.m.rays = Insert(acc.m.rays, y.rays)]
    BY <1>3 DEF Gather
  <2>2. Gather(acc, y).skipped = acc.skipped
    BY <2>1 DEF Gathers
  <2>3. Gather(acc, y).m = [acc.m EXCEPT !.rays = Insert(acc.m.rays, y.rays)]
    BY <2>1 DEF Gathers
  <2> QED
    BY <2>2, <2>3 DEF Grown
<1>4. ASSUME ~Compatible(acc.m, y)
      PROVE  Gather(acc, y).m = acc.m /\ Gather(acc, y).skipped = Append(acc.skipped, y)
  BY <1>4 DEF Gather, Gathers
<1> QED
  BY <1>3, <1>4

(* The first match of a list gathers what first fits it, and leaves the    *)
(* grouping of the others to the others.                                   *)
HeadFits(x, s) ==
    /\ FirstFit(<<x>> \o s) = <<GatherAll(x, s).m>> \o FirstFit(GatherAll(x, s).skipped)
    /\ Len(GatherAll(x, s).skipped) <= Len(s)

(* With nothing behind it, a match is a group.                             *)
LEMMA HeadFitsNone ==
  ASSUME NEW A, NEW x \in Group(A)
  PROVE  HeadFits(x, <<>>)
<1>1. GatherAll(x, <<>>) = Start(x)
  <2>1. ASSUME NEW s \in Seq(Group(A)), Len(s) = 0 PROVE GatherAll(x, s) = Start(x)
    <3>1. PICK r \in [0 .. Len(s) -> Gathers(A)] :
            /\ r[0] = Start(x) /\ GatherAll(x, s) = r[Len(s)]
            /\ \A k \in 1 .. Len(s) : r[k] = Gather(r[k - 1], s[k])
      BY GatherSteps
    <3> QED
      BY <2>1, <3>1
  <2> QED
    BY <2>1, EmptySeq
<1>2. Start(x).m = x /\ Start(x).skipped = <<>>
  BY DEF Start
<1>3. FirstFit(<<>>) = <<>> /\ FirstFit(<<x>>) = <<x>>
  BY FitShort
<1>4. <<x>> \o <<>> = <<x>> /\ Len(<<>>) <= Len(<<>>)
  OBVIOUS
<1> QED
  BY <1>1, <1>2, <1>3, <1>4 DEF HeadFits

(* One more match behind it.                                               *)
LEMMA HeadFitsMore ==
  ASSUME NEW A, NEW x \in Group(A), NEW s \in Seq(Group(A)), NEW y \in Group(A),
         HeadFits(x, s)
  PROVE  HeadFits(x, Append(s, y))
<1>1. PICK acc : acc = GatherAll(x, s)
  OBVIOUS
<1>2. acc \in Gathers(A)
  BY <1>1, GatherAllType
<1>3. acc.m \in Group(A) /\ acc.skipped \in Seq(Group(A))
  BY <1>2 DEF Gathers
<1>4. PICK more : more = Gather(acc, y)
  OBVIOUS
<1>5. GatherAll(x, Append(s, y)) = more
  BY <1>1, <1>4, GatherAppend
<1>6. PICK t : t = <<x>> \o s
  OBVIOUS
<1>7. t \in Seq(Group(A)) /\ <<x>> \o Append(s, y) = Append(t, y)
  BY <1>6
<1>8. PICK f : f = FirstFit(acc.skipped)
  OBVIOUS
<1>9. f \in Seq(Group(A)) /\ FirstFit(t) = <<acc.m>> \o f /\ Len(acc.skipped) <= Len(s)
  <2>1. f \in Seq(Group(A))
    BY <1>3, <1>8, FitType
  <2> QED
    BY <1>1, <1>6, <1>8, <2>1 DEF HeadFits
<1>10. FirstFit(Append(t, y)) = JoinFirst(<<acc.m>> \o f, y)
  <2>1. FirstFit(Append(t, y)) = JoinFirst(FirstFit(t), y)
    BY <1>7, FitAppend
  <2> QED
    BY <1>9, <2>1
<1>11. Len(Append(s, y)) = Len(s) + 1 /\ Len(s) \in Nat /\ Len(acc.skipped) \in Nat
  BY <1>3
<1>12. CASE Compatible(acc.m, y)
  <2>1. more.m = Grown(acc.m, y) /\ more.skipped = acc.skipped
    BY <1>2, <1>4, <1>12, GatherCases
  <2>2. JoinFirst(<<acc.m>> \o f, y) = <<Grown(acc.m, y)>> \o f
    BY <1>3, <1>9, <1>12, JoinsHead
  <2>3. FirstFit(Append(t, y)) = <<more.m>> \o FirstFit(more.skipped)
    BY <1>8, <1>10, <2>1, <2>2
  <2>4. Len(more.skipped) <= Len(Append(s, y))
    BY <1>9, <1>11, <2>1
  <2> QED
    BY <1>5, <1>7, <2>3, <2>4 DEF HeadFits
<1>13. CASE ~Compatible(acc.m, y)
  <2>1. more.m = acc.m /\ more.skipped = Append(acc.skipped, y)
    BY <1>2, <1>4, <1>13, GatherCases
  <2>2. JoinFirst(<<acc.m>> \o f, y) = <<acc.m>> \o JoinFirst(f, y)
    <3>1. PICK h \in Group(A) : h = acc.m
      BY <1>3
    <3>2. f \in Seq(Group(A)) /\ ~Compatible(h, y)
      BY <1>9, <1>13, <3>1
    <3>3. JoinFirst(<<h>> \o f, y) = <<h>> \o JoinFirst(f, y)
      BY <3>2, JoinsLater
    <3> QED
      BY <3>1, <3>3, Zenon
  <2>3. FirstFit(Append(acc.skipped, y)) = JoinFirst(f, y)
    BY <1>3, <1>8, FitAppend
  <2>4. FirstFit(Append(t, y)) = <<more.m>> \o FirstFit(more.skipped)
    BY <1>10, <2>1, <2>2, <2>3
  <2>5. Len(Append(acc.skipped, y)) = Len(acc.skipped) + 1
    BY <1>3
  <2>6. Len(more.skipped) <= Len(Append(s, y))
    BY <1>9, <1>11, <2>1, <2>5
  <2> QED
    BY <1>5, <1>7, <2>4, <2>6 DEF HeadFits
<1> QED
  BY <1>12, <1>13

(* Any matches behind it.                                                  *)
LEMMA HeadFitsAll ==
  ASSUME NEW A, NEW x \in Group(A), NEW s \in Seq(Group(A))
  PROVE  HeadFits(x, s)
<1>1. PICK n \in Nat : n = Len(s)
  BY LenProperties
<1>2. /\ SubSeq(s, 1, 0) = <<>> /\ SubSeq(s, 1, n) = s
      /\ \A k \in 1 .. n :
              /\ s[k] \in Group(A) /\ SubSeq(s, 1, k - 1) \in Seq(Group(A))
              /\ SubSeq(s, 1, k) = Append(SubSeq(s, 1, k - 1), s[k])
  <2>1. /\ SubSeq(s, 1, 0) = <<>> /\ SubSeq(s, 1, Len(s)) = s
        /\ \A k \in 1 .. Len(s) :
              /\ s[k] \in Group(A) /\ SubSeq(s, 1, k - 1) \in Seq(Group(A))
              /\ SubSeq(s, 1, k) = Append(SubSeq(s, 1, k - 1), s[k])
    BY FirstMatches
  <2> QED
    BY <1>1, <2>1, Zenon
<1> DEFINE T == {k \in Nat : HeadFits(x, SubSeq(s, 1, k))}
<1>3. 0 \in T
  BY <1>2, HeadFitsNone
<1>4. ASSUME NEW k \in 1 .. n, k - 1 \in T PROVE k \in T
  <2>1. HeadFits(x, SubSeq(s, 1, k - 1))
    BY <1>4
  <2>2. HeadFits(x, Append(SubSeq(s, 1, k - 1), s[k]))
    BY <1>2, <2>1, HeadFitsMore
  <2>3. SubSeq(s, 1, k) = Append(SubSeq(s, 1, k - 1), s[k])
    BY <1>2
  <2>4. HeadFits(x, SubSeq(s, 1, k))
    BY <2>2, <2>3, Zenon
  <2> QED
    BY <2>4
<1>5. n \in T
  <2> HIDE DEF T
  <2>1. \A k \in 0 .. n : k \in T
    BY <1>1, <1>3, <1>4, BoundedInduction
  <2> QED
    BY <1>1, <2>1
<1> QED
  BY <1>2, <1>5

-----------------------------------------------------------------------------
(* The vector when the outer loop has passed its first k places: these are *)
(* the first groups, and the others are still to be grouped.               *)
FitsUpTo(t, ms, A, k) ==
    \E p, q \in Seq(Group(A)) :
        /\ t = p \o q /\ FirstFit(ms) = p \o FirstFit(q)
        /\ Len(p) + Len(q) <= Len(ms)
        /\ Len(p) = k \/ (Len(p) < k /\ q = <<>>)

(* The parts of a vector around the place that the outer loop has reached. *)
SplitAt(t, k, p, q, S) ==
    \E x \in S, s \in Seq(S) :
        /\ q = <<x>> \o s /\ t[k] = x /\ k <= Len(t) /\ k \in Nat
        /\ SubSeq(t, 1, k - 1) = p /\ SubSeq(t, k + 1, Len(t)) = s
        /\ Len(q) = Len(s) + 1

(* Where the first part ends, the vector can be split.                     *)
LEMMA PartsAround ==
  ASSUME NEW S, NEW p \in Seq(S), NEW q \in Seq(S), q # <<>>, NEW t, t = p \o q,
         NEW k, k = Len(p) + 1
  PROVE  SplitAt(t, k, p, q, S)
<1>1. PICK x \in S : x = q[1]
  OBVIOUS
<1>2. PICK s \in Seq(S) : s = Tail(q)
  BY HeadTailProperties
<1>3. PICK n \in Nat : n = Len(p)
  BY LenProperties
<1>4. PICK l \in Nat : l = Len(s)
  BY LenProperties
<1>5. Len(q) = l + 1 /\ \A j \in 1 .. l : s[j] = q[j + 1]
  BY <1>2, <1>4
<1>6. q = <<x>> \o s
  BY <1>1, <1>2
<1>7. /\ t \in Seq(S) /\ Len(t) = n + l + 1
      /\ \A j \in 1 .. n : t[j] = p[j]
      /\ \A j \in 1 .. l + 1 : t[n + j] = q[j]
  <2>1. /\ t \in Seq(S) /\ Len(t) = Len(p) + Len(q)
        /\ \A j \in 1 .. Len(p) + Len(q) :
              t[j] = IF j <= Len(p) THEN p[j] ELSE q[j - Len(p)]
    BY ConcatProperties
  <2>2. Len(q) = l + 1
    BY <1>5
  <2>3. ASSUME NEW j \in 1 .. n PROVE t[j] = p[j]
    BY <1>3, <2>1, <2>2
  <2>4. ASSUME NEW j \in 1 .. l + 1 PROVE t[n + j] = q[j]
    <3>1. n + j \in 1 .. n + (l + 1) /\ ~(n + j <= n) /\ (n + j) - n = j
      OBVIOUS
    <3> QED
      BY <1>3, <2>1, <2>2, <3>1
  <2> QED
    BY <1>3, <2>1, <2>2, <2>3, <2>4
<1>8. t[k] = x /\ k = n + 1 /\ k <= Len(t) /\ k \in Nat
  BY <1>1, <1>3, <1>7
<1>9. SubSeq(t, 1, k - 1) = p
  <2>1. /\ SubSeq(t, 1, n) \in Seq(S) /\ Len(SubSeq(t, 1, n)) = n
        /\ \A j \in 1 .. n : SubSeq(t, 1, n)[j] = t[j]
    BY <1>7
  <2>2. k - 1 = n
    BY <1>8
  <2>3. SubSeq(t, 1, n) = p
    BY <1>3, <1>7, <2>1, SameSequence
  <2> QED
    BY <2>2, <2>3
<1>10. SubSeq(t, k + 1, Len(t)) = s
  <2>1. PICK u : u = SubSeq(t, n + 2, n + l + 1)
    OBVIOUS
  <2>2. /\ u \in Seq(S) /\ Len(u) = l
        /\ \A j \in 1 .. l : u[j] = t[n + 1 + j]
    <3>1. /\ n + 2 \in 1 .. Len(t) + 1 /\ n + l + 1 \in n + 1 .. Len(t)
          /\ n + l + 1 - (n + 2) + 1 = l /\ t \in Seq(S)
      BY <1>7
    <3>2. /\ u \in Seq(S) /\ Len(u) = n + l + 1 - (n + 2) + 1
          /\ \A j \in 1 .. n + l + 1 - (n + 2) + 1 : u[j] = t[n + 2 + j - 1]
      BY <2>1, <3>1, SubSeqProperties
    <3>3. \A j \in 1 .. l : n + 2 + j - 1 = n + 1 + j
      OBVIOUS
    <3> QED
      BY <3>1, <3>2, <3>3
  <2>3. ASSUME NEW j \in 1 .. l PROVE u[j] = s[j]
    <3>1. j + 1 \in 1 .. l + 1 /\ n + (j + 1) = n + 1 + j
      OBVIOUS
    <3>2. t[n + (j + 1)] = q[j + 1]
      BY <1>7, <3>1
    <3> QED
      BY <1>5, <2>2, <3>1, <3>2
  <2>4. u = s
    BY <1>4, <2>2, <2>3, SameSequence
  <2>5. k + 1 = n + 2 /\ Len(t) = n + l + 1
    BY <1>7, <1>8
  <2> QED
    BY <2>1, <2>4, <2>5
<1>11. Len(q) = Len(s) + 1
  BY <1>4, <1>5
<1> QED
  BY <1>6, <1>8, <1>9, <1>10, <1>11 DEF SplitAt

(* An element between two sequences belongs to either.                     *)
IsBetween(p, x, f) == p \o (<<x>> \o f) = (p \o <<x>>) \o f

LEMMA Between ==
  ASSUME NEW S, NEW p \in Seq(S), NEW x \in S, NEW f \in Seq(S)
  PROVE  IsBetween(p, x, f)
<1>1. <<x>> \in Seq(S)
  OBVIOUS
<1>2. ASSUME NEW g \in Seq(S) PROVE (p \o g) \o f = p \o (g \o f)
  OBVIOUS
<1> QED
  BY <1>1, <1>2 DEF IsBetween

(* One more group is formed for good.                                      *)
LEMMA AbsorbFits ==
  ASSUME NEW A, NEW ms \in Seq(Group(A)), NEW k \in Nat \ {0}, NEW t,
         FitsUpTo(t, ms, A, k - 1)
  PROVE  FitsUpTo(AbsorbAt(t, k), ms, A, k)
<1>1. PICK p \in Seq(Group(A)), q \in Seq(Group(A)) :
        /\ t = p \o q /\ FirstFit(ms) = p \o FirstFit(q)
        /\ Len(p) + Len(q) <= Len(ms)
        /\ Len(p) = k - 1 \/ (Len(p) < k - 1 /\ q = <<>>)
  BY DEF FitsUpTo
<1>2. CASE q = <<>>
  <2>1. Len(t) < k /\ Len(t) = Len(p)
    BY <1>1, <1>2
  <2>2. AbsorbAt(t, k) = t
    BY <2>1 DEF AbsorbAt
  <2>3. Len(p) < k
    BY <2>1
  <2> QED
    BY <1>1, <1>2, <2>2, <2>3 DEF FitsUpTo
<1>3. CASE q # <<>>
  <2>1. k = Len(p) + 1
    BY <1>1, <1>3
  <2>2. PICK x \in Group(A), s \in Seq(Group(A)) :
            /\ q = <<x>> \o s /\ t[k] = x /\ k <= Len(t) /\ k \in Nat
            /\ SubSeq(t, 1, k - 1) = p /\ SubSeq(t, k + 1, Len(t)) = s
            /\ Len(q) = Len(s) + 1
    <3>1. t = p \o q
      BY <1>1
    <3>2. SplitAt(t, k, p, q, Group(A))
      BY <1>3, <2>1, <3>1, PartsAround
    <3> QED
      BY <3>2 DEF SplitAt
  <2>a. Len(q) = Len(s) + 1
    BY <2>2
  <2>3. PICK end : end = GatherAll(x, s)
    OBVIOUS
  <2>4. end.m \in Group(A) /\ end.skipped \in Seq(Group(A))
    BY <2>3, GatherAllType DEF Gathers
  <2>5. AbsorbAt(t, k) = p \o <<end.m>> \o end.skipped
    BY <2>2, <2>3 DEF AbsorbAt, Absorb, Start, GatherAll
  <2>6. FirstFit(q) = <<end.m>> \o FirstFit(end.skipped) /\ Len(end.skipped) <= Len(s)
    <3>1. HeadFits(x, s)
      BY HeadFitsAll
    <3> QED
      BY <2>2, <2>3, <3>1 DEF HeadFits
  <2>7. PICK f \in Seq(Group(A)) : f = FirstFit(end.skipped)
    BY <2>4, FitType
  <2>8. PICK u \in Seq(Group(A)) : u = p \o <<end.m>> /\ Len(u) = Len(p) + 1
    <3>1. <<end.m>> \in Seq(Group(A)) /\ Len(<<end.m>>) = 1
      BY <2>4
    <3>2. p \o <<end.m>> \in Seq(Group(A)) /\ Len(p \o <<end.m>>) = Len(p) + 1
      BY <3>1, ConcatProperties
    <3> QED
      BY <3>2
  <2>9. FirstFit(ms) = u \o f
    <3>1. p \o (<<end.m>> \o f) = (p \o <<end.m>>) \o f
      <4>1. PICK S : S = Group(A)
        OBVIOUS
      <4>2. p \in Seq(S) /\ end.m \in S /\ f \in Seq(S)
        BY <1>1, <2>4, <2>7, <4>1
      <4>3. IsBetween(p, end.m, f)
        BY <4>2, Between
      <4> QED
        BY <4>3 DEF IsBetween
    <3> QED
      BY <1>1, <2>6, <2>7, <2>8, <3>1
  <2>10. Len(u) + Len(end.skipped) <= Len(ms)
    <3>1. Len(p) \in Nat /\ Len(q) \in Nat /\ Len(s) \in Nat /\ Len(end.skipped) \in Nat /\ Len(ms) \in Nat
      BY <2>4, LenProperties
    <3>2. Len(p) + Len(q) <= Len(ms)
      BY <1>1
    <3>3. Len(u) = Len(p) + 1 /\ Len(end.skipped) <= Len(s)
      BY <2>6, <2>8
    <3>4. \A a, b, c, d, e, l \in Nat :
            a + b <= l /\ b = c + 1 /\ d <= c /\ e = a + 1 => e + d <= l
      OBVIOUS
    <3>5. Len(u) \in Nat
      BY LenProperties
    <3> QED
      BY <2>a, <3>1, <3>2, <3>3, <3>4, <3>5, Zenon
  <2>11. /\ AbsorbAt(t, k) = u \o end.skipped /\ FirstFit(ms) = u \o FirstFit(end.skipped)
         /\ Len(u) = k
    BY <2>1, <2>5, <2>7, <2>8, <2>9
  <2> QED
    BY <2>4, <2>10, <2>11 DEF FitsUpTo
<1> QED
  BY <1>2, <1>3

(* mergeMatches groups by first fit.                                       *)
LEMMA MergeFits ==
  ASSUME NEW A, NEW ms \in Seq(Group(A))
  PROVE  MergeMatches(ms) = FirstFit(ms)
<1>1. PICK n \in Nat : n = Len(ms)
  BY LenProperties
<1>2. PICK r \in [0 .. Len(ms) -> Seq(Group(A))] :
            /\ r[0] = ms /\ MergeMatches(ms) = r[Len(ms)]
            /\ \A k \in 1 .. Len(ms) : r[k] = AbsorbAt(r[k - 1], k)
  BY MergeSteps
<1>3. /\ r[0] = ms /\ MergeMatches(ms) = r[n]
      /\ \A k \in 1 .. n : r[k] = AbsorbAt(r[k - 1], k)
  BY <1>1, <1>2
<1>4. PICK f \in Seq(Group(A)) : f = FirstFit(ms)
  BY FitType
<1> DEFINE T == {k \in Nat : FitsUpTo(r[k], ms, A, k)}
<1>5. 0 \in T
  <2>1. ms = <<>> \o ms /\ f = <<>> \o f /\ Len(<<>>) = 0 /\ Len(<<>>) + Len(ms) <= Len(ms)
    OBVIOUS
  <2>2. <<>> \in Seq(Group(A))
    OBVIOUS
  <2>3. FitsUpTo(ms, ms, A, 0)
    BY <1>4, <2>1, <2>2 DEF FitsUpTo
  <2> QED
    BY <1>3, <2>3
<1>6. ASSUME NEW k \in 1 .. n, k - 1 \in T PROVE k \in T
  <2>1. FitsUpTo(r[k - 1], ms, A, k - 1) /\ k \in Nat \ {0}
    BY <1>6
  <2>2. FitsUpTo(AbsorbAt(r[k - 1], k), ms, A, k)
    BY <2>1, AbsorbFits
  <2>3. r[k] = AbsorbAt(r[k - 1], k)
    BY <1>3
  <2>4. FitsUpTo(r[k], ms, A, k)
    BY <2>2, <2>3, Zenon
  <2> QED
    BY <2>4
<1>7. n \in T
  <2> HIDE DEF T
  <2>1. \A k \in 0 .. n : k \in T
    BY <1>1, <1>5, <1>6, BoundedInduction
  <2> QED
    BY <1>1, <2>1
<1>8. PICK p \in Seq(Group(A)), q \in Seq(Group(A)) :
        /\ r[n] = p \o q /\ FirstFit(ms) = p \o FirstFit(q)
        /\ Len(p) + Len(q) <= Len(ms)
        /\ Len(p) = n \/ (Len(p) < n /\ q = <<>>)
  BY <1>7 DEF FitsUpTo
<1>9. q = <<>>
  <2>1. Len(p) \in Nat /\ Len(q) \in Nat
    BY LenProperties
  <2>2. Len(p) = n => Len(q) = 0
    BY <1>1, <1>8, <2>1
  <2> QED
    BY <1>8, <2>2, EmptySeq
<1>10. FirstFit(<<>>) = <<>>
  BY FitNothing
<1>11. p \o <<>> = p
  OBVIOUS
<1> QED
  BY <1>3, <1>8, <1>9, <1>10, <1>11

-----------------------------------------------------------------------------
(* Groups that could not be merged still cannot when one more match has    *)
(* joined them.                                                            *)
LEMMA JoinKeepsMerged ==
  ASSUME NEW A, NEW s \in Seq(Group(A)), NEW n \in Group(A), IsMerged(s)
  PROVE  IsMerged(JoinFirst(s, n))
<1>1. CASE FitsNone(s, n)
  <2>1. PICK t : t = JoinFirst(s, n)
    OBVIOUS
  <2>2. t = Append(s, n)
    BY <1>1, <2>1, JoinsNone
  <2>3. PICK l \in Nat : l = Len(s)
    BY LenProperties
  <2>4. DOMAIN t = 1 .. l + 1 /\ t[l + 1] = n /\ \A j \in 1 .. l : t[j] = s[j]
    BY <2>2, <2>3
  <2>5. ASSUME NEW i \in DOMAIN t, NEW j \in DOMAIN t, i # j PROVE ~Compatible(t[i], t[j])
    <3>1. CASE i = l + 1
      <4>1. j \in 1 .. l /\ j \in DOMAIN s
        BY <2>3, <2>4, <2>5, <3>1
      <4>2. ~Compatible(s[j], n)
        BY <1>1, <4>1 DEF FitsNone
      <4> QED
        BY <2>4, <3>1, <4>1, <4>2, Symmetric
    <3>2. CASE j = l + 1
      <4>1. i \in 1 .. l /\ i \in DOMAIN s
        BY <2>3, <2>4, <2>5, <3>2
      <4>2. ~Compatible(s[i], n)
        BY <1>1, <4>1 DEF FitsNone
      <4> QED
        BY <2>4, <3>2, <4>1, <4>2
    <3>3. CASE i # l + 1 /\ j # l + 1
      <4>1. i \in 1 .. l /\ j \in 1 .. l /\ i \in DOMAIN s /\ j \in DOMAIN s
        BY <2>3, <2>4, <3>3
      <4> QED
        BY <2>4, <2>5, <4>1 DEF IsMerged
    <3> QED
      BY <3>1, <3>2, <3>3
  <2> QED
    BY <2>1, <2>5 DEF IsMerged
<1>2. ASSUME NEW k \in DOMAIN s, FitsFirst(s, n, k) PROVE IsMerged(JoinFirst(s, n))
  <2>1. PICK t : t = JoinedAt(s, k, n)
    OBVIOUS
  <2>2. /\ t \in Seq(Group(A)) /\ Len(t) = Len(s) /\ t[k] = Grown(s[k], n)
        /\ \A j \in DOMAIN s : j # k => t[j] = s[j]
    <3>1. /\ JoinedAt(s, k, n) \in Seq(Group(A)) /\ Len(JoinedAt(s, k, n)) = Len(s)
          /\ JoinedAt(s, k, n)[k] = Grown(s[k], n)
          /\ \A j \in DOMAIN s : j # k => JoinedAt(s, k, n)[j] = s[j]
      BY JoinedAtType
    <3> QED
      BY <2>1, <3>1
  <2>3. DOMAIN t = DOMAIN s
    BY <2>2
  <2>4. s[k].rays \subseteq t[k].rays
    <3>1. s[k] \in Group(A)
      OBVIOUS
    <3>2. s[k].rays \subseteq Grown(s[k], n).rays
      BY <3>1, GrownType
    <3> QED
      BY <2>2, <3>2
  <2>5. ASSUME NEW i \in DOMAIN t, NEW j \in DOMAIN t, i # j PROVE ~Compatible(t[i], t[j])
    <3>1. ~Compatible(s[i], s[j]) /\ ~Compatible(s[j], s[i])
      BY <2>3, <2>5 DEF IsMerged
    <3>2. CASE i = k
      <4>1. ~Compatible(t[k], s[j])
        BY <2>4, <3>1, <3>2, StaysApart
      <4> QED
        BY <2>2, <2>3, <2>5, <3>2, <4>1
    <3>3. CASE j = k
      <4>1. ~Compatible(s[i], t[k])
        BY <2>4, <3>1, <3>3, StaysApart
      <4> QED
        BY <2>2, <2>3, <2>5, <3>3, <4>1
    <3>4. CASE i # k /\ j # k
      BY <2>2, <2>3, <3>1, <3>4
    <3> QED
      BY <3>2, <3>3, <3>4
  <2>6. JoinFirst(s, n) = t
    BY <1>2, <2>1, JoinsAt
  <2> QED
    BY <2>5, <2>6 DEF IsMerged
<1> QED
  BY <1>1, <1>2, FitsSomewhere

(* No two groups of the first-fit grouping could be merged.                *)
LEMMA FitIsMerged ==
  ASSUME NEW A, NEW s \in Seq(Group(A))
  PROVE  IsMerged(FirstFit(s))
<1>1. PICK n \in Nat : n = Len(s)
  BY LenProperties
<1>2. PICK r \in [0 .. Len(s) -> Seq(Group(A))] :
            /\ r[0] = <<>> /\ FirstFit(s) = r[Len(s)]
            /\ \A k \in 1 .. Len(s) : r[k] = JoinFirst(r[k - 1], s[k])
  BY FitSteps
<1>3. /\ r[0] = <<>> /\ FirstFit(s) = r[n]
      /\ \A k \in 1 .. n : r[k] = JoinFirst(r[k - 1], s[k])
      /\ \A k \in 1 .. n : s[k] \in Group(A) /\ r[k - 1] \in Seq(Group(A))
  BY <1>1, <1>2
<1> DEFINE T == {k \in Nat : IsMerged(r[k])}
<1>4. 0 \in T
  BY <1>3 DEF IsMerged
<1>5. ASSUME NEW k \in 1 .. n, k - 1 \in T PROVE k \in T
  <2>1. IsMerged(r[k - 1]) /\ s[k] \in Group(A) /\ r[k - 1] \in Seq(Group(A))
    BY <1>3, <1>5
  <2>2. IsMerged(JoinFirst(r[k - 1], s[k]))
    BY <2>1, JoinKeepsMerged
  <2>3. r[k] = JoinFirst(r[k - 1], s[k])
    BY <1>3
  <2>4. IsMerged(r[k])
    BY <2>2, <2>3, Zenon
  <2> QED
    BY <2>4
<1>6. n \in T
  <2> HIDE DEF T
  <2>1. \A k \in 0 .. n : k \in T
    BY <1>1, <1>4, <1>5, BoundedInduction
  <2> QED
    BY <1>1, <2>1
<1> QED
  BY <1>3, <1>6

(* Groups that cannot be merged are grouped as they are.                   *)
LEMMA FitOfMerged ==
  ASSUME NEW A, NEW s \in Seq(Group(A)), IsMerged(s)
  PROVE  FirstFit(s) = s
<1>1. PICK n \in Nat : n = Len(s)
  BY LenProperties
<1>2. /\ SubSeq(s, 1, 0) = <<>> /\ SubSeq(s, 1, n) = s
      /\ \A k \in 1 .. n :
              /\ s[k] \in Group(A) /\ SubSeq(s, 1, k - 1) \in Seq(Group(A))
              /\ SubSeq(s, 1, k) = Append(SubSeq(s, 1, k - 1), s[k])
  <2>1. /\ SubSeq(s, 1, 0) = <<>> /\ SubSeq(s, 1, Len(s)) = s
        /\ \A k \in 1 .. Len(s) :
              /\ s[k] \in Group(A) /\ SubSeq(s, 1, k - 1) \in Seq(Group(A))
              /\ SubSeq(s, 1, k) = Append(SubSeq(s, 1, k - 1), s[k])
    BY FirstMatches
  <2> QED
    BY <1>1, <2>1, Zenon
<1> DEFINE T == {k \in Nat : FirstFit(SubSeq(s, 1, k)) = SubSeq(s, 1, k)}
<1>3. 0 \in T
  BY <1>2, FitNothing
<1>4. ASSUME NEW k \in 1 .. n, k - 1 \in T PROVE k \in T
  <2>1. PICK t \in Seq(Group(A)) : t = SubSeq(s, 1, k - 1)
    BY <1>2
  <2>2. FirstFit(t) = t /\ s[k] \in Group(A) /\ SubSeq(s, 1, k) = Append(t, s[k])
    BY <1>2, <1>4, <2>1
  <2>3. FirstFit(Append(t, s[k])) = JoinFirst(t, s[k])
    BY <2>2, FitAppend
  <2>4. FitsNone(t, s[k])
    <3>1. DOMAIN t = 1 .. k - 1 /\ \A j \in 1 .. k - 1 : t[j] = s[j]
      BY <1>1, <2>1
    <3>2. ASSUME NEW j \in 1 .. k - 1 PROVE ~Compatible(s[j], s[k])
      <4>1. j \in DOMAIN s /\ k \in DOMAIN s /\ j # k
        BY <1>1
      <4> QED
        BY <4>1 DEF IsMerged
    <3> QED
      BY <3>1, <3>2 DEF FitsNone
  <2>5. JoinFirst(t, s[k]) = Append(t, s[k])
    BY <2>4, JoinsNone
  <2>6. FirstFit(SubSeq(s, 1, k)) = SubSeq(s, 1, k)
    BY <2>2, <2>3, <2>5, Zenon
  <2> QED
    BY <2>6
<1>5. n \in T
  <2> HIDE DEF T
  <2>1. \A k \in 0 .. n : k \in T
    BY <1>1, <1>3, <1>4, BoundedInduction
  <2> QED
    BY <1>1, <2>1
<1> QED
  BY <1>2, <1>5, Zenon

(* Matches that come later join the groups as if all had come at once.     *)
LEMMA FitConcat ==
  ASSUME NEW A, NEW a \in Seq(Group(A)), NEW b \in Seq(Group(A))
  PROVE  FirstFit(FirstFit(a) \o b) = FirstFit(a \o b)
<1>1. PICK n \in Nat : n = Len(b)
  BY LenProperties
<1>2. /\ SubSeq(b, 1, 0) = <<>> /\ SubSeq(b, 1, n) = b
      /\ \A k \in 1 .. n :
              /\ b[k] \in Group(A) /\ SubSeq(b, 1, k - 1) \in Seq(Group(A))
              /\ SubSeq(b, 1, k) = Append(SubSeq(b, 1, k - 1), b[k])
  <2>1. /\ SubSeq(b, 1, 0) = <<>> /\ SubSeq(b, 1, Len(b)) = b
        /\ \A k \in 1 .. Len(b) :
              /\ b[k] \in Group(A) /\ SubSeq(b, 1, k - 1) \in Seq(Group(A))
              /\ SubSeq(b, 1, k) = Append(SubSeq(b, 1, k - 1), b[k])
    BY FirstMatches
  <2> QED
    BY <1>1, <2>1, Zenon
<1>3. PICK g \in Seq(Group(A)) : g = FirstFit(a)
  BY FitType
<1>4. FirstFit(g) = g
  BY <1>3, FitIsMerged, FitOfMerged
<1> DEFINE T == {k \in Nat : FirstFit(g \o SubSeq(b, 1, k)) = FirstFit(a \o SubSeq(b, 1, k))}
<1>5. 0 \in T
  <2>1. g \o <<>> = g /\ a \o <<>> = a
    OBVIOUS
  <2> QED
    BY <1>2, <1>3, <1>4, <2>1
<1>6. ASSUME NEW k \in 1 .. n, k - 1 \in T PROVE k \in T
  <2>1. PICK t \in Seq(Group(A)) : t = SubSeq(b, 1, k - 1)
    BY <1>2
  <2>2. PICK x \in Group(A) : x = b[k]
    BY <1>2
  <2>3. FirstFit(g \o t) = FirstFit(a \o t) /\ SubSeq(b, 1, k) = Append(t, x)
    BY <1>2, <1>6, <2>1, <2>2
  <2>4. /\ g \o Append(t, x) = Append(g \o t, x) /\ a \o Append(t, x) = Append(a \o t, x)
        /\ g \o t \in Seq(Group(A)) /\ a \o t \in Seq(Group(A))
    OBVIOUS
  <2>5. /\ FirstFit(Append(g \o t, x)) = JoinFirst(FirstFit(g \o t), x)
        /\ FirstFit(Append(a \o t, x)) = JoinFirst(FirstFit(a \o t), x)
    BY <2>4, FitAppend
  <2>6. FirstFit(g \o SubSeq(b, 1, k)) = FirstFit(a \o SubSeq(b, 1, k))
    BY <2>3, <2>4, <2>5, Zenon
  <2> QED
    BY <2>6
<1>7. n \in T
  <2> HIDE DEF T
  <2>1. \A k \in 0 .. n : k \in T
    BY <1>1, <1>5, <1>6, BoundedInduction
  <2> QED
    BY <1>1, <2>1
<1>8. FirstFit(g \o b) = FirstFit(a \o b)
  BY <1>2, <1>7, Zenon
<1> QED
  BY <1>3, <1>8

(* A sequence is its two parts together.                                   *)
LEMMA HalvesJoin ==
  ASSUME NEW S, NEW s \in Seq(S), NEW k \in 0 .. Len(s)
  PROVE  /\ SubSeq(s, 1, k) \in Seq(S) /\ SubSeq(s, k + 1, Len(s)) \in Seq(S)
         /\ SubSeq(s, 1, k) \o SubSeq(s, k + 1, Len(s)) = s
<1>1. PICK n \in Nat : n = Len(s)
  BY LenProperties
<1>2. PICK a : a = SubSeq(s, 1, k)
  OBVIOUS
<1>3. PICK b : b = SubSeq(s, k + 1, n)
  OBVIOUS
<1>4. k \in Nat /\ k <= n /\ n - k \in Nat /\ \A j \in 1 .. n : s[j] \in S
  BY <1>1
<1>5. a \in Seq(S) /\ Len(a) = k /\ \A j \in 1 .. k : a[j] = s[j]
  BY <1>1, <1>2, <1>4
<1>6. b \in Seq(S) /\ Len(b) = n - k /\ \A j \in 1 .. n - k : b[j] = s[k + j]
  BY <1>1, <1>3, <1>4
<1>7. /\ a \o b \in Seq(S) /\ Len(a \o b) = Len(a) + Len(b)
      /\ \A j \in 1 .. Len(a) + Len(b) :
            (a \o b)[j] = IF j <= Len(a) THEN a[j] ELSE b[j - Len(a)]
  BY <1>5, <1>6, ConcatProperties
<1>8. ASSUME NEW j \in 1 .. n PROVE (a \o b)[j] = s[j]
  <2>1. CASE j <= k
    BY <1>4, <1>5, <1>6, <1>7, <2>1
  <2>2. CASE ~(j <= k)
    <3>1. j - k \in 1 .. n - k /\ k + (j - k) = j
      BY <1>4, <2>2
    <3>2. b[j - k] = s[k + (j - k)]
      BY <1>6, <3>1
    <3>3. (a \o b)[j] = b[j - k]
      BY <1>4, <1>5, <1>6, <1>7, <2>2
    <3> QED
      BY <3>1, <3>2, <3>3
  <2> QED
    BY <2>1, <2>2
<1>9. a \o b = s
  <2>1. Len(a \o b) = n /\ a \o b \in Seq(S)
    BY <1>4, <1>5, <1>6, <1>7
  <2> QED
    BY <1>1, <1>8, <2>1, SameSequence
<1> QED
  BY <1>1, <1>2, <1>3, <1>5, <1>6, <1>9

(* mergeMatches groups by first fit, whether the rays come at once or in   *)
(* batches, and leaves nothing that could be merged.                       *)
THEOREM MergeIsExact ==
  ASSUME NEW A, NEW ms \in Seq(Group(A))
  PROVE  MergeIsFirstFit(ms) /\ MergeIsIncremental(ms) /\ IsMerged(MergeMatches(ms))
<1>1. MergeMatches(ms) = FirstFit(ms)
  BY MergeFits
<1>2. IsMerged(MergeMatches(ms))
  BY <1>1, FitIsMerged
<1>3. ASSUME NEW k \in 0 .. Len(ms)
      PROVE  MergeMatches(MergeMatches(SubSeq(ms, 1, k)) \o SubSeq(ms, k + 1, Len(ms)))
                = MergeMatches(ms)
  <2>0. /\ SubSeq(ms, 1, k) \in Seq(Group(A)) /\ SubSeq(ms, k + 1, Len(ms)) \in Seq(Group(A))
        /\ SubSeq(ms, 1, k) \o SubSeq(ms, k + 1, Len(ms)) = ms
    BY HalvesJoin
  <2>1. PICK a \in Seq(Group(A)) : a = SubSeq(ms, 1, k)
    BY <2>0
  <2>2. PICK b \in Seq(Group(A)) : b = SubSeq(ms, k + 1, Len(ms))
    BY <2>0
  <2>3. a \o b = ms
    BY <2>0, <2>1, <2>2
  <2>4. MergeMatches(a) = FirstFit(a) /\ FirstFit(a) \in Seq(Group(A))
    BY MergeFits, FitType
  <2>5. FirstFit(a) \o b \in Seq(Group(A))
    BY <2>4
  <2>6. MergeMatches(FirstFit(a) \o b) = FirstFit(FirstFit(a) \o b)
    BY <2>5, MergeFits
  <2>7. FirstFit(FirstFit(a) \o b) = FirstFit(ms)
    BY <2>3, FitConcat
  <2> QED
    BY <1>1, <2>1, <2>2, <2>4, <2>6, <2>7
<1> QED
  BY <1>1, <1>2, <1>3 DEF MergeIsFirstFit, MergeIsIncremental

-----------------------------------------------------------------------------
(* Matches have a time.                                                    *)
LEMMA HaveTime ==
  ASSUME NEW A, NEW s \in Seq(Group(A))
  PROVE  \A j \in DOMAIN s : s[j] \in Group(A) /\ s[j].time \in Nat
<1>1. ASSUME NEW x \in Group(A) PROVE x.time \in Nat
  BY DEF Group
<1>2. \A j \in DOMAIN s : s[j] \in Group(A)
  OBVIOUS
<1> QED
  BY <1>1, <1>2

(* Where a match goes among the sorted ones.                               *)
NoneYounger(s, m) == \A j \in DOMAIN s : s[j].time <= m.time
FirstYounger(s, m, i) ==
    /\ i \in DOMAIN s /\ s[i].time > m.time
    /\ \A j \in DOMAIN s : j < i => s[j].time <= m.time

(* The youngest so far goes to the end, any other before the first younger.*)
LEMMA PlacedAt ==
  ASSUME NEW A, NEW s \in Seq(Group(A)), NEW m \in Group(A)
  PROVE  \/ NoneYounger(s, m) /\ Place(s, m) = Append(s, m)
         \/ \E i \in DOMAIN s : FirstYounger(s, m, i) /\ Place(s, m) = InsertAt(s, i, m)
<1> DEFINE I == {i \in 1 .. Len(s) : s[i].time > m.time}
           k == SelectInSeq(s, LAMBDA x : x.time > m.time)
<1>1. k = IF I # {} THEN Min(I) ELSE 0
  BY DEF SelectInSeq
<1>2. Place(s, m) = IF k = 0 THEN Append(s, m) ELSE InsertAt(s, k, m)
  BY DEF Place
<1>3. m.time \in Nat /\ \A j \in DOMAIN s : s[j].time \in Nat
  <2>1. m.time \in Nat
    BY DEF Group
  <2> QED
    BY <2>1, HaveTime
<1>4. CASE I = {}
  <2>1. NoneYounger(s, m)
    BY <1>3, <1>4 DEF NoneYounger
  <2> HIDE DEF I, k
  <2> QED
    BY <1>1, <1>2, <1>4, <2>1
<1>5. CASE I # {}
  <2>1. I \subseteq Nat \ {0} /\ I \subseteq DOMAIN s
    OBVIOUS
  <2>2. /\ Min(I) \in I /\ \A j \in I : Min(I) <= j
    <3> HIDE DEF I, k
    <3>1. I \subseteq Nat
      BY <2>1
    <3>2. \E i \in I : \A j \in I : i <= j
      BY <1>5, <3>1, LeastNumber
    <3> QED
      BY <3>2 DEF Min
  <2>3. PICK i \in I : i = Min(I)
    BY <2>2
  <2>4. FirstYounger(s, m, i)
    <3>1. i \in DOMAIN s /\ s[i].time > m.time
      OBVIOUS
    <3>2. ASSUME NEW j \in DOMAIN s, j < i PROVE s[j].time <= m.time
      <4>1. j \notin I
        BY <2>2, <2>3, <3>2
      <4> QED
        BY <1>3, <4>1
    <3> QED
      BY <3>1, <3>2 DEF FirstYounger
  <2> HIDE DEF I, k
  <2>5. k = i /\ k # 0
    BY <1>1, <1>5, <2>1, <2>3
  <2> QED
    BY <1>2, <2>1, <2>4, <2>5
<1> QED
  BY <1>4, <1>5

(* One match goes ahead of another: it is older, or it came first.         *)
Ahead(ms, a, b) == ms[a].time < ms[b].time \/ (ms[a].time = ms[b].time /\ a < b)

(* The first k matches, in the order p: by age, then as they came.         *)
SortedBy(t, ms, p, k) ==
    /\ Lists(p, 1 .. k) /\ Len(p) = k /\ Len(t) = k
    /\ \A j \in 1 .. k : t[j] = ms[p[j]]
    /\ \A i, j \in 1 .. k : i < j => Ahead(ms, p[i], p[j])

(* One more match is placed.                                               *)
LEMMA PlaceSorts ==
  ASSUME NEW A, NEW ms \in Seq(Group(A)), NEW k \in 1 .. Len(ms), NEW t \in Seq(Group(A)),
         NEW p, SortedBy(t, ms, p, k - 1)
  PROVE  \E q : SortedBy(Place(t, ms[k]), ms, q, k)
<1>1. PICK l \in Nat : l = k - 1
  OBVIOUS
<1>2. /\ Lists(p, 1 .. l) /\ Len(p) = l /\ Len(t) = l
      /\ \A j \in 1 .. l : t[j] = ms[p[j]]
      /\ \A i, j \in 1 .. l : i < j => Ahead(ms, p[i], p[j])
  BY <1>1 DEF SortedBy
<1>3. PICK m \in Group(A) : m = ms[k]
  OBVIOUS
<1>4. k = l + 1 /\ DOMAIN t = 1 .. l /\ p \in Seq(1 .. l)
  BY <1>1, <1>2 DEF Lists
<1>5. \A j \in 1 .. l : p[j] \in 1 .. l /\ p[j] < k /\ p[j] \in DOMAIN ms
  BY <1>2, <1>4
<1>6. \A j \in DOMAIN ms : ms[j].time \in Nat
  BY HaveTime
<1>7. 1 .. k = (1 .. l) \cup {k} /\ k \notin 1 .. l
  BY <1>4
<1>8. CASE NoneYounger(t, m) /\ Place(t, m) = Append(t, m)
  <2>1. PICK q : q = Append(p, k)
    OBVIOUS
  <2>2. Len(q) = k /\ q[k] = k /\ \A j \in 1 .. l : q[j] = p[j]
    BY <1>2, <1>4, <2>1
  <2>3. PICK u : u = Append(t, m)
    OBVIOUS
  <2>4. Len(u) = k /\ u[k] = m /\ \A j \in 1 .. l : u[j] = t[j]
    BY <1>2, <1>4, <2>3
  <2>5. Lists(q, 1 .. k)
    BY <1>2, <1>7, <2>1, ListsAppend
  <2>6. ASSUME NEW j \in 1 .. k PROVE u[j] = ms[q[j]]
    BY <1>2, <1>3, <1>7, <2>2, <2>4
  <2>7. ASSUME NEW i \in 1 .. k, NEW j \in 1 .. k, i < j PROVE Ahead(ms, q[i], q[j])
    <3>1. i \in 1 .. l
      BY <1>4, <2>7
    <3>2. CASE j = k
      <4>1. ms[p[i]].time <= ms[k].time
        BY <1>2, <1>3, <1>4, <1>8, <3>1 DEF NoneYounger
      <4>2. p[i] < k /\ ms[p[i]].time \in Nat /\ ms[k].time \in Nat
        BY <1>5, <1>6, <3>1
      <4>3. Ahead(ms, p[i], k)
        BY <4>1, <4>2 DEF Ahead
      <4> QED
        BY <2>2, <3>1, <3>2, <4>3
    <3>3. CASE j # k
      <4>1. j \in 1 .. l
        BY <1>7, <3>3
      <4> QED
        BY <1>2, <2>2, <2>7, <3>1, <4>1
    <3> QED
      BY <3>2, <3>3
  <2>8. SortedBy(u, ms, q, k)
    BY <2>2, <2>4, <2>5, <2>6, <2>7 DEF SortedBy
  <2> QED
    BY <1>3, <1>8, <2>3, <2>8
<1>9. ASSUME NEW i \in DOMAIN t, FirstYounger(t, m, i), Place(t, m) = InsertAt(t, i, m)
      PROVE  \E q : SortedBy(Place(t, ms[k]), ms, q, k)
  <2>1. PICK q : q = InsertAt(p, i, k)
    OBVIOUS
  <2>2. i \in 1 .. l /\ i \in DOMAIN p
    BY <1>2, <1>4
  <2>3. /\ Len(q) = l + 1 /\ q[i] = k
        /\ \A j \in 1 .. i - 1 : q[j] = p[j]
        /\ \A j \in i + 1 .. l + 1 : q[j] = p[j - 1]
    <3>1. p \in Seq(1 .. l) /\ l = Len(p)
      BY <1>2, <1>4
    <3>2. Inserted(q, p, l, k, i, 1 .. l)
      BY <2>1, <2>2, <3>1, InsertElements
    <3> QED
      BY <3>2 DEF Inserted
  <2>4. PICK u : u = InsertAt(t, i, m)
    OBVIOUS
  <2>5. /\ Len(u) = l + 1 /\ u[i] = m
        /\ \A j \in 1 .. i - 1 : u[j] = t[j]
        /\ \A j \in i + 1 .. l + 1 : u[j] = t[j - 1]
    <3>1. l = Len(t)
      BY <1>2
    <3>2. Inserted(u, t, l, m, i, Group(A))
      BY <2>2, <2>4, <3>1, InsertElements
    <3> QED
      BY <3>2 DEF Inserted
  <2>6. Lists(q, 1 .. k)
    <3>1. Lists(p, 1 .. l) /\ k \notin 1 .. l
      BY <1>2, <1>7
    <3>2. Lists(InsertAt(p, i, k), (1 .. l) \cup {k})
      BY <2>2, <3>1, ListsInsert
    <3> QED
      BY <1>7, <2>1, <3>2, Zenon
  <2>7. ASSUME NEW j \in 1 .. k, j # i
        PROVE  \/ j < i /\ j \in 1 .. i - 1 /\ j \in 1 .. l
               \/ j > i /\ j \in i + 1 .. l + 1 /\ j - 1 \in 1 .. l /\ i <= j - 1
    BY <1>4, <2>2, <2>7
  <2>8. ASSUME NEW j \in 1 .. k PROVE u[j] = ms[q[j]]
    <3>1. CASE j = i
      BY <1>3, <2>3, <2>5, <3>1
    <3>2. CASE j < i /\ j \in 1 .. i - 1 /\ j \in 1 .. l
      BY <1>2, <2>3, <2>5, <3>2
    <3>3. CASE j > i /\ j \in i + 1 .. l + 1 /\ j - 1 \in 1 .. l
      BY <1>2, <2>3, <2>5, <3>3
    <3> QED
      BY <2>7, <3>1, <3>2, <3>3
  <2>9. ASSUME NEW a \in 1 .. i - 1, a \in 1 .. l PROVE Ahead(ms, p[a], k)
    <3>1. a \in DOMAIN t /\ a < i
      BY <1>4, <2>2, <2>9
    <3>2. ms[p[a]].time <= ms[k].time
      BY <1>2, <1>3, <1>9, <2>9, <3>1 DEF FirstYounger
    <3>3. p[a] < k /\ ms[p[a]].time \in Nat /\ ms[k].time \in Nat
      <4>1. p[a] < k /\ p[a] \in DOMAIN ms /\ k \in DOMAIN ms
        BY <1>5, <2>9
      <4> QED
        BY <1>6, <4>1
    <3> QED
      BY <3>2, <3>3 DEF Ahead
  <2>10. ASSUME NEW b \in 1 .. l, i <= b PROVE Ahead(ms, k, p[b])
    <3>1. ms[p[i]].time > ms[k].time
      BY <1>2, <1>3, <1>9, <2>2 DEF FirstYounger
    <3>2. ms[p[i]].time \in Nat /\ ms[p[b]].time \in Nat /\ ms[k].time \in Nat
      <4>1. p[i] \in DOMAIN ms /\ p[b] \in DOMAIN ms /\ k \in DOMAIN ms
        BY <1>5, <2>2
      <4> QED
        BY <1>6, <4>1
    <3>3. ms[k].time < ms[p[i]].time /\ ms[p[i]].time <= ms[p[b]].time
      <4>1. CASE i = b
        BY <3>1, <3>2, <4>1
      <4>2. CASE i # b
        <5>1. i < b
          BY <2>2, <2>10, <4>2
        <5>2. Ahead(ms, p[i], p[b])
          BY <1>2, <2>2, <5>1
        <5> QED
          BY <3>1, <3>2, <5>2 DEF Ahead
      <4> QED
        BY <4>1, <4>2
    <3>4. ms[k].time < ms[p[b]].time
      <4>1. PICK x \in Nat, y \in Nat, z \in Nat :
                x = ms[k].time /\ y = ms[p[i]].time /\ z = ms[p[b]].time
        BY <3>2
      <4>2. x < y /\ y <= z
        BY <3>3, <4>1
      <4>3. x < z
        BY <4>2
      <4> QED
        BY <4>1, <4>3
    <3> QED
      BY <3>4 DEF Ahead
  <2>11. ASSUME NEW a \in 1 .. k, NEW b \in 1 .. k, a < b PROVE Ahead(ms, q[a], q[b])
    <3>1. CASE a = i
      <4>1. b \in i + 1 .. l + 1 /\ b - 1 \in 1 .. l /\ i <= b - 1
        BY <2>7, <2>11, <3>1
      <4>2. q[b] = p[b - 1] /\ q[a] = k
        BY <2>3, <3>1, <4>1
      <4>3. Ahead(ms, k, p[b - 1])
        BY <2>10, <4>1
      <4> QED
        BY <4>2, <4>3
    <3>2. CASE b = i
      <4>1. a \in 1 .. i - 1 /\ a \in 1 .. l
        BY <2>7, <2>11, <3>2
      <4>2. q[a] = p[a] /\ q[b] = k
        BY <2>3, <3>2, <4>1
      <4>3. Ahead(ms, p[a], k)
        BY <2>9, <4>1
      <4> QED
        BY <4>2, <4>3
    <3>3. CASE a # i /\ b # i
      <4>1. PICK x \in 1 .. l : q[a] = p[x] /\ x = IF a < i THEN a ELSE a - 1
        BY <2>3, <2>7, <3>3
      <4>2. PICK y \in 1 .. l : q[b] = p[y] /\ y = IF b < i THEN b ELSE b - 1
        BY <2>3, <2>7, <3>3
      <4>3. x < y
        BY <2>2, <2>11, <3>3, <4>1, <4>2
      <4> QED
        BY <1>2, <4>1, <4>2, <4>3
    <3> QED
      BY <3>1, <3>2, <3>3
  <2>12. SortedBy(u, ms, q, k)
    BY <1>4, <2>3, <2>5, <2>6, <2>8, <2>11 DEF SortedBy
  <2> QED
    BY <1>3, <1>9, <2>4, <2>12
<1>10. \/ NoneYounger(t, m) /\ Place(t, m) = Append(t, m)
       \/ \E i \in DOMAIN t : FirstYounger(t, m, i) /\ Place(t, m) = InsertAt(t, i, m)
  BY PlacedAt
<1> QED
  BY <1>8, <1>9, <1>10

(* std::stable_sort puts the matches in order of age, then as they came.   *)
LEMMA SortSorts ==
  ASSUME NEW A, NEW ms \in Seq(Group(A))
  PROVE  \E p : SortedBy(SortByTime(ms), ms, p, Len(ms))
<1>1. PICK n \in Nat : n = Len(ms)
  BY LenProperties
<1>2. PICK r \in [0 .. Len(ms) -> Seq(Group(A))] :
            /\ r[0] = <<>> /\ SortByTime(ms) = r[Len(ms)]
            /\ \A k \in 1 .. Len(ms) : r[k] = Place(r[k - 1], ms[k])
  BY SortSteps
<1>3. /\ r[0] = <<>> /\ SortByTime(ms) = r[n]
      /\ \A k \in 1 .. n : r[k] = Place(r[k - 1], ms[k]) /\ r[k - 1] \in Seq(Group(A))
  BY <1>1, <1>2
<1> DEFINE Sorted(k) == \E p : SortedBy(r[k], ms, p, k)
           T == {k \in Nat : Sorted(k)}
<1>4. 0 \in T
  <2>1. Lists(<<>>, 1 .. 0)
    BY DEF Lists
  <2>2. SortedBy(<<>>, ms, <<>>, 0)
    BY <2>1 DEF SortedBy
  <2> QED
    BY <1>3, <2>2
<1>5. ASSUME NEW k \in 1 .. n, k - 1 \in T PROVE k \in T
  <2>1. PICK p : SortedBy(r[k - 1], ms, p, k - 1)
    BY <1>5
  <2>2. k \in 1 .. Len(ms) /\ r[k - 1] \in Seq(Group(A))
    BY <1>1, <1>3
  <2>3. \E q : SortedBy(Place(r[k - 1], ms[k]), ms, q, k)
    BY <2>1, <2>2, PlaceSorts
  <2>4. r[k] = Place(r[k - 1], ms[k])
    BY <1>3
  <2>5. Sorted(k)
    BY <2>3, <2>4, Zenon
  <2> QED
    BY <2>5
<1>6. n \in T
  <2> HIDE DEF T
  <2>1. \A k \in 0 .. n : k \in T
    BY <1>1, <1>4, <1>5, BoundedInduction
  <2> QED
    BY <1>1, <2>1
<1> QED
  BY <1>1, <1>3, <1>6

-----------------------------------------------------------------------------
(* A match that getResults would report, were it the first.                *)
Due(m, time) == ~Expired(m, time) /\ Complete(m, time)

(* The members of a longer sequence.                                       *)
LEMMA AppendToSet ==
  ASSUME NEW S, NEW s \in Seq(S), NEW x \in S
  PROVE  ToSet(Append(s, x)) = ToSet(s) \cup {x} /\ Len(Append(s, x)) = Len(s) + 1
<1>1. PICK n \in Nat : n = Len(s)
  BY LenProperties
<1>2. PICK t : t = Append(s, x)
  OBVIOUS
<1>3. /\ DOMAIN t = 1 .. n + 1 /\ t[n + 1] = x /\ \A i \in 1 .. n : t[i] = s[i]
      /\ DOMAIN s = 1 .. n /\ Len(t) = n + 1
  BY <1>1, <1>2
<1>4. ASSUME NEW y \in ToSet(t) PROVE y \in ToSet(s) \cup {x}
  <2>1. PICK i \in 1 .. n + 1 : y = t[i]
    BY <1>3 DEF ToSet
  <2>2. CASE i = n + 1
    BY <1>3, <2>1, <2>2
  <2>3. CASE i # n + 1
    <3>1. i \in 1 .. n
      BY <2>1, <2>3
    <3> QED
      BY <1>3, <2>1, <3>1 DEF ToSet
  <2> QED
    BY <2>2, <2>3
<1>5. ASSUME NEW y \in ToSet(s) PROVE y \in ToSet(t)
  <2>1. PICK i \in 1 .. n : y = s[i]
    BY <1>3 DEF ToSet
  <2>2. i \in 1 .. n + 1 /\ t[i] = y
    BY <1>3, <2>1
  <2> QED
    BY <1>3, <2>2 DEF ToSet
<1>6. x \in ToSet(t)
  <2>1. n + 1 \in 1 .. n + 1
    OBVIOUS
  <2> QED
    BY <1>3, <2>1 DEF ToSet
<1>7. ToSet(t) = ToSet(s) \cup {x}
  BY <1>4, <1>5, <1>6
<1> QED
  BY <1>1, <1>2, <1>3, <1>7

(* The outcome when k of the sorted matches have been looked at.           *)
Tally(o, k) ==
    Len(o.left) + Len(o.reported) + Len(o.expired) = k
Covers(o, S) ==
    ToSet(o.left) \cup ToSet(o.reported) \cup ToSet(o.expired) = S
ReportsFirst(o, ss, k, time) ==
    \/ o.reported = <<>> /\ \A j \in 1 .. k : ~Due(ss[j], time)
    \/ \E c \in 1 .. k :
          /\ o.reported = <<ss[c]>> /\ Due(ss[c], time)
          /\ \A j \in 1 .. k : j < c => ~Due(ss[j], time)
Scanned(o, ss, k, time) ==
    /\ Tally(o, k) /\ Covers(o, {ss[j] : j \in 1 .. k})
    /\ \A m \in ToSet(o.expired) : Expired(m, time)
    /\ ReportsFirst(o, ss, k, time)

(* One more match is looked at.                                            *)
LEMMA ScanKeeps ==
  ASSUME NEW S, NEW ss \in Seq(S), NEW k \in 1 .. Len(ss), NEW time,
         NEW o \in Outcomes(S), Scanned(o, ss, k - 1, time)
  PROVE  Scanned(Scan(o, ss[k], time), ss, k, time)
<1>1. PICK x \in S : x = ss[k]
  OBVIOUS
<1>2. PICK l \in Nat : l = k - 1
  OBVIOUS
<1>3. PICK o2 : o2 = Scan(o, x, time)
  OBVIOUS
<1>4. /\ Tally(o, l) /\ Covers(o, {ss[j] : j \in 1 .. l})
      /\ \A m \in ToSet(o.expired) : Expired(m, time)
      /\ ReportsFirst(o, ss, l, time)
  BY <1>2 DEF Scanned
<1>5. k = l + 1 /\ 1 .. k = (1 .. l) \cup {k}
  BY <1>2
<1>6. {ss[j] : j \in 1 .. k} = {ss[j] : j \in 1 .. l} \cup {x}
  BY <1>1, <1>5
<1>7. o.left \in Seq(S) /\ o.reported \in Seq(S) /\ o.expired \in Seq(S)
  BY DEF Outcomes
<1>8. Len(o.left) \in Nat /\ Len(o.reported) \in Nat /\ Len(o.expired) \in Nat
  BY <1>7, LenProperties
<1>a. PICK a \in Nat, b \in Nat, d \in Nat :
        /\ a = Len(o.left) /\ b = Len(o.reported) /\ d = Len(o.expired) /\ a + b + d = l
  BY <1>4, <1>8 DEF Tally
<1>b. a + b + (d + 1) = k /\ a + (b + 1) + d = k /\ (a + 1) + b + d = k
  <2>1. k = l + 1 /\ a + b + d = l
    BY <1>5, <1>a
  <2> QED
    BY <2>1
<1>9. CASE o.reported = <<>> /\ Expired(x, time)
  <2>1. o2 = [o EXCEPT !.expired = Append(@, x)]
    BY <1>3, <1>9 DEF Scan
  <2>2. o2.expired = Append(o.expired, x) /\ o2.left = o.left /\ o2.reported = o.reported
    BY <2>1 DEF Outcomes
  <2>3. ToSet(o2.expired) = ToSet(o.expired) \cup {x} /\ Len(o2.expired) = Len(o.expired) + 1
    BY <1>7, <2>2, AppendToSet
  <2>4. Tally(o2, k)
    BY <1>a, <1>b, <2>2, <2>3, Zenon DEF Tally
  <2>5. Covers(o2, {ss[j] : j \in 1 .. k})
    BY <1>4, <1>6, <2>2, <2>3 DEF Covers
  <2>6. \A m \in ToSet(o2.expired) : Expired(m, time)
    BY <1>4, <1>9, <2>3
  <2>7. ReportsFirst(o2, ss, k, time)
    <3>1. \A j \in 1 .. l : ~Due(ss[j], time)
      BY <1>4, <1>9 DEF ReportsFirst
    <3>2. ~Due(x, time)
      BY <1>9 DEF Due
    <3> QED
      BY <1>1, <1>5, <1>9, <2>2, <3>1, <3>2 DEF ReportsFirst
  <2> QED
    BY <1>1, <1>3, <2>4, <2>5, <2>6, <2>7 DEF Scanned
<1>10. CASE o.reported = <<>> /\ ~Expired(x, time) /\ Complete(x, time)
  <2>1. o2 = [o EXCEPT !.reported = Append(@, x)]
    BY <1>3, <1>10 DEF Scan
  <2>2. o2.reported = Append(o.reported, x) /\ o2.left = o.left /\ o2.expired = o.expired
    BY <2>1 DEF Outcomes
  <2>3. ToSet(o2.reported) = ToSet(o.reported) \cup {x} /\ Len(o2.reported) = Len(o.reported) + 1
    BY <1>7, <2>2, AppendToSet
  <2>4. Tally(o2, k)
    BY <1>a, <1>b, <2>2, <2>3, Zenon DEF Tally
  <2>5. Covers(o2, {ss[j] : j \in 1 .. k})
    BY <1>4, <1>6, <2>2, <2>3 DEF Covers
  <2>6. \A m \in ToSet(o2.expired) : Expired(m, time)
    BY <1>4, <2>2
  <2>7. ReportsFirst(o2, ss, k, time)
    <3>1. \A j \in 1 .. l : ~Due(ss[j], time)
      BY <1>4, <1>10 DEF ReportsFirst
    <3>2. o2.reported = <<ss[k]>> /\ Due(ss[k], time)
      BY <1>1, <1>10, <2>2 DEF Due
    <3>3. k \in 1 .. k /\ \A j \in 1 .. k : j < k => j \in 1 .. l
      BY <1>5
    <3> QED
      BY <3>1, <3>2, <3>3 DEF ReportsFirst
  <2> QED
    BY <1>1, <1>3, <2>4, <2>5, <2>6, <2>7 DEF Scanned
<1>11. CASE o.reported # <<>> \/ (~Expired(x, time) /\ ~Complete(x, time))
  <2>1. o2 = [o EXCEPT !.left = Append(@, x)]
    BY <1>3, <1>11 DEF Scan
  <2>2. o2.left = Append(o.left, x) /\ o2.reported = o.reported /\ o2.expired = o.expired
    BY <2>1 DEF Outcomes
  <2>3. ToSet(o2.left) = ToSet(o.left) \cup {x} /\ Len(o2.left) = Len(o.left) + 1
    BY <1>7, <2>2, AppendToSet
  <2>4. Tally(o2, k)
    BY <1>a, <1>b, <2>2, <2>3, Zenon DEF Tally
  <2>5. Covers(o2, {ss[j] : j \in 1 .. k})
    BY <1>4, <1>6, <2>2, <2>3 DEF Covers
  <2>6. \A m \in ToSet(o2.expired) : Expired(m, time)
    BY <1>4, <2>2
  <2>7. ReportsFirst(o2, ss, k, time)
    <3>1. CASE o.reported = <<>> /\ \A j \in 1 .. l : ~Due(ss[j], time)
      <4>1. ~Due(x, time)
        BY <1>11, <3>1 DEF Due
      <4> QED
        BY <1>1, <1>5, <2>2, <3>1, <4>1 DEF ReportsFirst
    <3>2. ASSUME NEW c \in 1 .. l, o.reported = <<ss[c]>>, Due(ss[c], time),
                 \A j \in 1 .. l : j < c => ~Due(ss[j], time)
          PROVE  ReportsFirst(o2, ss, k, time)
      <4>1. c \in 1 .. k /\ \A j \in 1 .. k : j < c => j \in 1 .. l
        BY <1>5
      <4> QED
        BY <2>2, <3>2, <4>1 DEF ReportsFirst
    <3> QED
      BY <1>4, <3>1, <3>2 DEF ReportsFirst
  <2> QED
    BY <1>1, <1>3, <2>4, <2>5, <2>6, <2>7 DEF Scanned
<1> QED
  BY <1>9, <1>10, <1>11

(* What getResults makes of the sorted matches.                            *)
LEMMA ResultsScanned ==
  ASSUME NEW S, NEW ms \in Seq(S), SortByTime(ms) \in Seq(S), NEW time
  PROVE  Scanned(GetResults(ms, time), SortByTime(ms), Len(SortByTime(ms)), time)
<1> DEFINE ss == SortByTime(ms)
<1>a. ss \in Seq(S) /\ ms \in Seq(S)
  OBVIOUS
<1>1. PICK n \in Nat : n = Len(ss)
  BY <1>a, LenProperties
<1>b. DOMAIN ss = 1 .. n
  BY <1>1, <1>a
<1>2. PICK r \in [0 .. Len(ss) -> Outcomes(S)] :
            /\ r[0] = Nothing /\ GetResults(ms, time) = r[Len(ss)]
            /\ \A k \in 1 .. Len(ss) : r[k] = Scan(r[k - 1], ss[k], time)
  BY <1>1, <1>a, <1>b, ScanSteps
<1> HIDE DEF ss
<1>3. /\ r[0] = Nothing /\ GetResults(ms, time) = r[n]
      /\ \A k \in 1 .. n : r[k] = Scan(r[k - 1], ss[k], time) /\ r[k - 1] \in Outcomes(S)
  BY <1>1, <1>2
<1> DEFINE T == {k \in Nat : Scanned(r[k], ss, k, time)}
<1>4. 0 \in T
  <2>1. ToSet(<<>>) = {} /\ Len(<<>>) = 0 /\ {ss[j] : j \in 1 .. 0} = {}
    BY DEF ToSet
  <2>2. Nothing.left = <<>> /\ Nothing.reported = <<>> /\ Nothing.expired = <<>>
    BY DEF Nothing
  <2>3. Scanned(Nothing, ss, 0, time)
    BY <2>1, <2>2 DEF Scanned, Tally, Covers, ReportsFirst
  <2> QED
    BY <1>3, <2>3
<1>5. ASSUME NEW k \in 1 .. n, k - 1 \in T PROVE k \in T
  <2>1. Scanned(r[k - 1], ss, k - 1, time) /\ k \in 1 .. Len(ss) /\ r[k - 1] \in Outcomes(S)
    BY <1>1, <1>3, <1>5
  <2>2. Scanned(Scan(r[k - 1], ss[k], time), ss, k, time)
    BY <1>a, <2>1, ScanKeeps
  <2>3. r[k] = Scan(r[k - 1], ss[k], time)
    BY <1>3
  <2>4. Scanned(r[k], ss, k, time)
    BY <2>2, <2>3, Zenon
  <2> QED
    BY <2>4
<1>6. n \in T
  <2> HIDE DEF T
  <2>1. \A k \in 0 .. n : k \in T
    BY <1>1, <1>4, <1>5, BoundedInduction
  <2> QED
    BY <1>1, <2>1
<1> QED
  BY <1>1, <1>3, <1>6 DEF ss

(* Sorting keeps the matches.                                              *)
LEMMA SortedToSet ==
  ASSUME NEW A, NEW ms \in Seq(Group(A)), NEW n \in Nat, n = Len(ms),
         NEW ss, NEW p, SortedBy(ss, ms, p, n)
  PROVE  {ss[j] : j \in 1 .. n} = ToSet(ms)
<1>1. Lists(p, 1 .. n) /\ Len(p) = n /\ \A j \in 1 .. n : ss[j] = ms[p[j]]
  BY DEF SortedBy
<1>2. DOMAIN p = 1 .. n /\ DOMAIN ms = 1 .. n
  BY <1>1 DEF Lists
<1>3. ASSUME NEW j \in 1 .. n PROVE ss[j] \in ToSet(ms)
  <2>1. p[j] \in 1 .. n
    BY <1>1, <1>2 DEF Lists
  <2> QED
    BY <1>1, <1>2, <2>1 DEF ToSet
<1>4. ASSUME NEW x \in ToSet(ms) PROVE \E j \in 1 .. n : x = ss[j]
  <2>1. PICK i \in 1 .. n : x = ms[i]
    BY <1>2 DEF ToSet
  <2>2. PICK j \in 1 .. n : p[j] = i
    BY <1>1, <1>2 DEF Lists
  <2> QED
    BY <1>1, <2>1, <2>2
<1> QED
  BY <1>3, <1>4

(* The c-th of the sorted matches is the first that is due.                *)
FirstDue(ss, n, time, c) ==
    /\ c \in 1 .. n /\ Due(ss[c], time)
    /\ \A j \in 1 .. n : j < c => ~Due(ss[j], time)

(* The match x is the oldest that is due.                                  *)
IsOldest(x, ms, time) == {ms[i] : i \in Oldest(ms, time)} = {x}

(* The first of the sorted matches that is due is the oldest one that is.  *)
LEMMA OldestIs ==
  ASSUME NEW A, NEW ms \in Seq(Group(A)), NEW n \in Nat, n = Len(ms),
         NEW ss, NEW p, SortedBy(ss, ms, p, n), NEW time,
         NEW c, FirstDue(ss, n, time, c)
  PROVE  IsOldest(ss[c], ms, time)
<1>a. c \in 1 .. n /\ Due(ss[c], time) /\ \A j \in 1 .. n : j < c => ~Due(ss[j], time)
  BY DEF FirstDue
<1>1. /\ Lists(p, 1 .. n) /\ Len(p) = n /\ \A j \in 1 .. n : ss[j] = ms[p[j]]
      /\ \A i, j \in 1 .. n : i < j => Ahead(ms, p[i], p[j])
  BY DEF SortedBy
<1>2. DOMAIN p = 1 .. n /\ DOMAIN ms = 1 .. n
  BY <1>1 DEF Lists
<1>3. \A j \in 1 .. n : p[j] \in 1 .. n
  BY <1>1, <1>2 DEF Lists
<1>4. \A i \in 1 .. n : ms[i].time \in Nat
  BY <1>2, HaveTime
<1>5. Candidates(ms, time) = {i \in 1 .. n : Due(ms[i], time)}
  BY <1>2 DEF Candidates, Due
<1>6. ASSUME NEW i \in Candidates(ms, time)
      PROVE  \E j \in 1 .. n : i = p[j] /\ (j = c \/ Ahead(ms, p[c], p[j]))
  <2>1. i \in 1 .. n /\ Due(ms[i], time)
    BY <1>5
  <2>2. PICK j \in 1 .. n : p[j] = i
    BY <1>1, <1>2, <2>1 DEF Lists
  <2>3. ~(j < c)
    BY <1>1, <1>a, <2>1, <2>2
  <2>4. j = c \/ c < j
    BY <1>a, <2>3
  <2> QED
    BY <1>1, <1>a, <2>2, <2>4
<1>7. PICK o \in 1 .. n : o = p[c]
  BY <1>3, <1>a
<1>8. o \in Candidates(ms, time) /\ ms[o] = ss[c]
  BY <1>1, <1>5, <1>7, <1>a
<1>9. o \in Oldest(ms, time)
  <2>1. ASSUME NEW i \in Candidates(ms, time) PROVE Older(ms, o, i)
    <3>1. PICK j \in 1 .. n : i = p[j] /\ (j = c \/ Ahead(ms, p[c], p[j]))
      BY <1>6
    <3>2. i \in 1 .. n /\ ms[i].time \in Nat /\ ms[o].time \in Nat
      BY <1>4, <1>5
    <3>3. i = o \/ Ahead(ms, o, i)
      BY <1>7, <3>1
    <3> QED
      BY <3>2, <3>3 DEF Ahead, Older
  <2> QED
    BY <1>8, <2>1 DEF Oldest
<1>10. ASSUME NEW i \in Oldest(ms, time) PROVE i = o
  <2>1. i \in Candidates(ms, time) /\ Older(ms, i, o)
    BY <1>8 DEF Oldest
  <2>2. PICK j \in 1 .. n : i = p[j] /\ (j = c \/ Ahead(ms, p[c], p[j]))
    BY <1>6, <2>1
  <2>3. i \in 1 .. n /\ ms[i].time \in Nat /\ ms[o].time \in Nat
    BY <1>4, <1>5, <2>1
  <2>4. i = o \/ Ahead(ms, o, i)
    BY <1>7, <2>2
  <2> QED
    BY <2>1, <2>3, <2>4 DEF Ahead, Older
<1> QED
  BY <1>8, <1>9, <1>10 DEF IsOldest

(* getResults reports the oldest complete match that has not expired, and  *)
(* keeps what it neither reports nor finds expired.                        *)
THEOREM ResultsExact ==
  ASSUME NEW A, NEW ms \in Seq(Group(A)), NEW time
  PROVE  ReportsOldestComplete(ms, time)
<1>1. PICK n \in Nat : n = Len(ms)
  BY LenProperties
<1>2. PICK ss : ss = SortByTime(ms)
  OBVIOUS
<1>3. PICK p : SortedBy(ss, ms, p, n)
  BY <1>1, <1>2, SortSorts
<1>4. ss \in Seq(Group(A))
  <2>1. PICK r \in [0 .. Len(ms) -> Seq(Group(A))] :
            /\ r[0] = <<>> /\ SortByTime(ms) = r[Len(ms)]
            /\ \A k \in 1 .. Len(ms) : r[k] = Place(r[k - 1], ms[k])
    BY SortSteps
  <2> QED
    BY <1>1, <1>2, <2>1
<1>5. PICK o : o = GetResults(ms, time)
  OBVIOUS
<1>6. Scanned(o, ss, n, time)
  <2>1. Scanned(GetResults(ms, time), SortByTime(ms), Len(SortByTime(ms)), time)
    BY <1>2, <1>4, ResultsScanned
  <2>2. Len(ss) = n
    BY <1>3 DEF SortedBy
  <2> QED
    BY <1>2, <1>5, <2>1, <2>2
<1>7. /\ Len(o.left) + Len(o.reported) + Len(o.expired) = Len(ms)
      /\ ToSet(o.left) \cup ToSet(o.reported) \cup ToSet(o.expired) = ToSet(ms)
      /\ \A m \in ToSet(o.expired) : Expired(m, time)
  <2>1. {ss[j] : j \in 1 .. n} = ToSet(ms)
    BY <1>1, <1>3, SortedToSet
  <2> QED
    BY <1>1, <1>6, <2>1 DEF Scanned, Tally, Covers
<1>8. ToSet(o.reported) = {ms[i] : i \in Oldest(ms, time)}
  <2>1. CASE o.reported = <<>> /\ \A j \in 1 .. n : ~Due(ss[j], time)
    <3>1. ToSet(o.reported) = {}
      BY <2>1 DEF ToSet
    <3>2. Candidates(ms, time) = {}
      <4>1. ASSUME NEW i \in DOMAIN ms PROVE ~Due(ms[i], time)
        <5>1. ms[i] \in ToSet(ms)
          BY DEF ToSet
        <5>2. ms[i] \in {ss[j] : j \in 1 .. n}
          BY <1>1, <1>3, <5>1, SortedToSet
        <5> QED
          BY <2>1, <5>2
      <4> QED
        BY <4>1 DEF Candidates, Due
    <3>3. Oldest(ms, time) = {}
      BY <3>2 DEF Oldest
    <3> QED
      BY <3>1, <3>3
  <2>2. ASSUME NEW c \in 1 .. n, o.reported = <<ss[c]>>, Due(ss[c], time),
               \A j \in 1 .. n : j < c => ~Due(ss[j], time)
        PROVE  ToSet(o.reported) = {ms[i] : i \in Oldest(ms, time)}
    <3>1. ToSet(<<ss[c]>>) = {ss[c]}
      BY DEF ToSet
    <3>2. {ms[i] : i \in Oldest(ms, time)} = {ss[c]}
      <4>1. FirstDue(ss, n, time, c)
        BY <2>2 DEF FirstDue
      <4>2. IsOldest(ss[c], ms, time)
        BY <1>1, <1>3, <4>1, OldestIs
      <4> QED
        BY <4>2 DEF IsOldest
    <3> QED
      BY <2>2, <3>1, <3>2
  <2>3. ReportsFirst(o, ss, n, time)
    BY <1>6 DEF Scanned
  <2> QED
    BY <2>1, <2>2, <2>3 DEF ReportsFirst
<1>9. /\ Len(o.left) + Len(o.reported) + Len(o.expired) = Len(ms)
      /\ ToSet(o.left) \cup ToSet(o.reported) \cup ToSet(o.expired) = ToSet(ms)
      /\ \A m \in ToSet(o.expired) : Expired(m, time)
      /\ ToSet(o.reported) = {ms[i] : i \in Oldest(ms, time)}
  BY <1>7, <1>8
<1> QED
  BY <1>5, <1>9, Zenon DEF ReportsOldestComplete

-----------------------------------------------------------------------------
(* Whatever the threads do, a run of syncData groups what it has collected *)
(* by first fit, and reports the oldest complete match.                    *)
THEOREM SearchExact == SafeSpec => []SearchIsExact
<1>1. ThreadInv /\ RayInv /\ ClockInv => SearchIsExact
  <2> SUFFICES ASSUME ThreadInv, RayInv, ClockInv, NEW m \in Markers
               PROVE  /\ MergeIsFirstFit(Collected(m)) /\ MergeIsIncremental(Collected(m))
                      /\ IsMerged(Merged(m)) /\ ReportsOldestComplete(Merged(m), now)
    BY DEF SearchIsExact
  <2>1. now \in Nat
    BY DEF ClockInv
  <2>2. PICK A : A = Of(m)
    OBVIOUS
  <2>4. PICK ms \in Seq(Group(A)) : ms = Collected(m)
    <3>1. /\ Lists(Collected(m), Waiting(m) \cup Singles(m))
          /\ Good(Waiting(m) \cup Singles(m), Of(m))
      BY <2>1, CollectedGood
    <3>2. Collected(m) \in Seq(Waiting(m) \cup Singles(m)) /\ Waiting(m) \cup Singles(m) \subseteq Group(A)
      BY <2>2, <3>1 DEF Lists, Good
    <3> QED
      BY <3>2
  <2>5. MergeIsFirstFit(ms) /\ MergeIsIncremental(ms) /\ IsMerged(MergeMatches(ms))
    BY MergeIsExact
  <2>6. MergeMatches(ms) \in Seq(Group(A))
    <3>1. MergeMatches(ms) = FirstFit(ms)
      BY <2>5 DEF MergeIsFirstFit
    <3> QED
      BY <3>1, FitType
  <2>7. ReportsOldestComplete(MergeMatches(ms), now)
    BY <2>6, ResultsExact
  <2> QED
    BY <2>4, <2>5, <2>7 DEF Merged
<1> QED
  BY <1>1, RaysKept, PTL
=============================================================================
