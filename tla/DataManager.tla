---------------------------- MODULE DataManager ----------------------------
(***************************************************************************)
(* DataManager of include/DataManager.h and src/DataManager.cpp: the map   *)
(* from vision clients to the rays received from them, filled by one       *)
(* thread per client (addRay, removeClient) and emptied by the server      *)
(* thread (syncData).                                                      *)
(*                                                                         *)
(* Threads interleave between the points where one takes or releases a     *)
(* mutex.  The four deques of a source are locked and unlocked together:   *)
(* nothing is read until all are locked, and a push into one that is       *)
(* already unlocked is the same as a push right after the last unlock.     *)
(***************************************************************************)
EXTENDS SyncSearch, FiniteSetsExt

CONSTANTS
    Clients,      \* ids of the vision clients; std::map iterates in this order
    Leavers,      \* those whose connection may end
    Markers,      \* the markers a camera can tell apart
    MaxRays,      \* bound: rays a client sends
    MaxTime,      \* bound: the clock
    MaxLag,       \* a ray reaches the server at most this long after its frame
    MinFrameGap,  \* time between two frames of a camera, at least
    MaxStall      \* ticks of the clock between two runs of syncData, at most

ASSUME DataAssumption ==
    /\ Clients \subseteq Nat /\ Leavers \subseteq Clients
    /\ MaxRays \in Nat /\ MaxTime \in Nat /\ MaxLag \in Nat
    /\ MinFrameGap \in Nat /\ MaxStall \in Nat \ {0}

(* Holders of DataManager::mutex other than a client. *)
Server == -1
Free   == -2

VARIABLES
    now,        \* CLOCK_REALTIME, the same on all machines
    stall,      \* ticks since syncData last drained the deques
    mutex,      \* who holds DataManager::mutex
    data,       \* the map: client |-> [dead, rays]
    locked,     \* the sources whose deques the server has locked (`clients')
    spc,        \* where syncData is
    cur,        \* the source its iterator has reached, -1 before the first
    search,     \* search[marker].matches
    cpc,        \* where each client thread is
    ray,        \* the ray each client thread is adding
    added,      \* history: the rays whose addRay has returned
    results,    \* history: the matches reported
    expired,    \* history: the matches erased because they expired
    dropped,    \* history: the rays erased together with their source
    unmarked,   \* history: the clients whose removal a data race lost
    crashed     \* the program died of a data race

threadVars  == <<mutex, data, locked, spc, cur, cpc, ray>>
searchVars  == <<search, results, expired>>
vars == <<now, stall, threadVars, searchVars, added, dropped, unmarked, crashed>>

(* nr tells apart what a ray's direction may: the rays of one frame that   *)
(* were given the same marker.                                             *)
Rays == [client : Clients, id : Nat, nr : Nat, marker : Markers, time : Nat]
Matches == [rays : SUBSET Rays, time : Nat, n : Nat]
NoRay == [none |-> TRUE]
Sources == [dead : BOOLEAN, rays : [Markers -> Seq(Rays)]]

(* The part of the state that the threads and their locks are made of. *)
ThreadTypeOK ==
    /\ mutex \in Clients \cup {Server, Free}
    /\ DOMAIN data \subseteq Clients
    /\ data \in [DOMAIN data -> Sources]
    /\ locked \subseteq Clients
    /\ spc \in {"idle", "locking", "unlocking", "reaping"}
    /\ cur \in Clients \cup {-1}
    /\ cpc \in [Clients -> {"running", "lookup", "inserting", "pushing", "removing", "gone"}]
    /\ ray \in [Clients -> Rays \cup {NoRay}]

TypeOK ==
    /\ ThreadTypeOK
    /\ now \in 0 .. MaxTime /\ stall \in 0 .. MaxStall
    /\ search \in [Markers -> Seq(Matches)]
    /\ added \subseteq Rays
    /\ results \subseteq Matches /\ expired \subseteq Matches
    /\ dropped \subseteq Rays
    /\ unmarked \subseteq Clients /\ crashed \in BOOLEAN

NewSource == [dead |-> FALSE, rays |-> [m \in Markers |-> <<>>]]

Init ==
    /\ now = 0 /\ stall = 0
    /\ mutex = Free
    /\ data = [c \in {} |-> NewSource]
    /\ locked = {}
    /\ spc = "idle" /\ cur = -1
    /\ search = [m \in Markers |-> <<>>]
    /\ cpc = [c \in Clients |-> "running"]
    /\ ray = [c \in Clients |-> NoRay]
    /\ added = {} /\ results = {} /\ expired = {} /\ dropped = {} /\ unmarked = {}
    /\ crashed = FALSE

(* data[c], which default-constructs an entry that is not there. *)
WithEntry(c) ==
    [d \in (DOMAIN data) \cup {c} |-> IF d \in DOMAIN data THEN data[d] ELSE NewSource]

-----------------------------------------------------------------------------
(* A vision client's thread. *)

(* Frame f, taken at time t, is the one of ray r, or a later one. *)
OfFrame(r, f, t) == r.id = f /\ r.time = t
Before(r, f, t)  == r.id < f /\ r.time + MinFrameGap <= t

(* A ray arrives, of the client's latest frame or of a new one.  A frame   *)
(* may have several rays of one marker, if there are more lights than the  *)
(* pattern has LEDs.                                                       *)
NewRay(c) ==
    /\ cpc[c] = "running"
    /\ LET mine == {r \in added : r.client = c} IN
       /\ Cardinality(mine) < MaxRays
       /\ \E m \in Markers, t \in now - MaxLag .. now, f \in 0 .. Cardinality(mine) :
            /\ t >= 0
            /\ \A r \in mine : OfFrame(r, f, t) \/ Before(r, f, t)
            /\ ray' = [ray EXCEPT ![c] =
                 [client |-> c, id |-> f, nr |-> Cardinality(mine), marker |-> m, time |-> t]]
    /\ cpc' = [cpc EXCEPT ![c] = "lookup"]
    /\ UNCHANGED <<mutex, data, locked, spc, cur, added, dropped, unmarked, crashed>>

AddRayLock(c) ==
    /\ cpc[c] = "lookup"
    /\ mutex = Free
    /\ mutex' = c
    /\ cpc' = [cpc EXCEPT ![c] = "inserting"]
    /\ UNCHANGED <<data, locked, spc, cur, ray, added, dropped, unmarked, crashed>>

AddRayLookup(c) ==
    /\ cpc[c] = "inserting"
    /\ data' = WithEntry(c)
    /\ mutex' = Free
    /\ cpc' = [cpc EXCEPT ![c] = "pushing"]
    /\ UNCHANGED <<locked, spc, cur, ray, added, dropped, unmarked, crashed>>

(* DataSource::add through the reference obtained under the mutex: it      *)
(* waits for the deque while the server has it locked.  The source is      *)
(* never dead here, since only this thread marks it, later.                *)
AddRayPush(c) ==
    /\ cpc[c] = "pushing"
    /\ c \notin locked
    /\ data' = [data EXCEPT ![c].dead = FALSE,
                            ![c].rays[ray[c].marker] = Append(@, ray[c])]
    /\ added' = added \cup {ray[c]}
    /\ ray' = [ray EXCEPT ![c] = NoRay]
    /\ cpc' = [cpc EXCEPT ![c] = "running"]
    /\ UNCHANGED <<mutex, locked, spc, cur, dropped, unmarked, crashed>>

(* The connection fails and the thread goes on to removeClient. *)
Disconnect(c) ==
    /\ c \in Leavers
    /\ cpc[c] = "running"
    /\ cpc' = [cpc EXCEPT ![c] = "removing"]
    /\ UNCHANGED <<mutex, data, locked, spc, cur, ray, added, dropped, unmarked, crashed>>

(* removeClient looks the client up without the mutex. *)
RemoveClient(c) ==
    /\ cpc[c] = "removing"
    /\ data' = [WithEntry(c) EXCEPT ![c].dead = TRUE]
    /\ cpc' = [cpc EXCEPT ![c] = "gone"]
    /\ UNCHANGED <<mutex, locked, spc, cur, ray, added, dropped, unmarked, crashed>>

(* Who is about to read the nodes of the map, and who to change them. *)
ReadsMap(c)  == cpc[c] \in {"inserting", "removing"}
WritesMap(c) == ReadsMap(c) /\ c \notin DOMAIN data
ServerReadsMap  == spc # "idle"
ServerWritesMap == spc = "reaping" /\ data[cur].dead

(* Two threads use the map at once, one of them changing it. *)
MapRace(c) ==
    \/ ServerWritesMap
    \/ \E d \in Clients \ {c} : WritesMap(d)
    \/ WritesMap(c) /\ (ServerReadsMap \/ \E d \in Clients \ {c} : ReadsMap(d))

(* Undefined behaviour: besides RemoveClient, the lookup may miss the      *)
(* entry, so that the mark is lost, or the program may crash.              *)
RemoveClientRaced(c) ==
    /\ cpc[c] = "removing"
    /\ MapRace(c)
    /\ \/ cpc' = [cpc EXCEPT ![c] = "gone"] /\ unmarked' = unmarked \cup {c} /\ UNCHANGED crashed
       \/ crashed' = TRUE /\ UNCHANGED <<cpc, unmarked>>
    /\ UNCHANGED <<mutex, data, locked, spc, cur, ray, added, dropped>>

ClientStep(c) ==
    /\ ~crashed
    /\ \/ NewRay(c) \/ AddRayLock(c) \/ AddRayLookup(c) \/ AddRayPush(c)
       \/ Disconnect(c) \/ RemoveClient(c) \/ RemoveClientRaced(c)
    /\ UNCHANGED <<now, stall, searchVars>>

-----------------------------------------------------------------------------
(* The server thread: one run of syncData. *)

(* The node the iterator of std::map moves to next. *)
IsNext(d) ==
    /\ d \in DOMAIN data
    /\ d > cur
    /\ \A e \in DOMAIN data : e > cur => d <= e
AtEnd == \A d \in DOMAIN data : d <= cur

SyncStart ==
    /\ spc = "idle" /\ mutex = Free
    /\ mutex' = Server
    /\ spc' = "locking" /\ cur' = -1
    /\ UNCHANGED <<stall, searchVars, data, locked, dropped>>

SyncLock(d) ==
    /\ spc = "locking" /\ IsNext(d)
    /\ locked' = locked \cup {d}
    /\ cur' = d
    /\ UNCHANGED <<stall, searchVars, mutex, data, spc, dropped>>

(* Defect: the walk over the sources stops at the first empty deque. *)
DrainedSourcesUntilEmpty(m) ==
    {d \in locked : \A e \in locked : e <= d => data[e].rays[m] # <<>>}

(* The sources that marker m is collected from: those whose deque was      *)
(* locked, be they dead or alive.                                          *)
DrainedSources(m) == {d \in locked : data[d].rays[m] # <<>>}

(* The order in which the iterator of std::map meets the sources in S. *)
InOrder(S) ==
    CHOOSE s \in [1 .. Cardinality(S) -> S] : \A i, j \in DOMAIN s : i < j => s[i] < s[j]

(* Their rays of marker m, source by source. *)
Drained(m) ==
    LET order == InOrder(DrainedSources(m))
    IN  FlattenSeq([i \in DOMAIN order |-> data[order[i]].rays[m]])

(* The matches of marker m after the drain: those that wait, and one for   *)
(* each new ray, which remembers how many sources there were.              *)
Collected(m) ==
    search[m] \o [i \in DOMAIN Drained(m) |->
                     NewMatch(Drained(m)[i], now, Cardinality(locked))]

Merged(m) == MergeMatches(Collected(m))

(* Defect: the deques are not cleared. *)
ClearedNot == data

(* rays[s].clear() for every deque that was drained. *)
Cleared ==
    [d \in DOMAIN data |->
        [data[d] EXCEPT !.rays =
            [m \in Markers |-> IF d \in DrainedSources(m) THEN <<>> ELSE @[m]]]]

(* With every source locked, the rays become matches, matches are merged   *)
(* and at most one per marker is reported.                                 *)
SyncMatch ==
    /\ spc = "locking" /\ AtEnd
    /\ LET outcome == [m \in Markers |-> GetResults(Merged(m), now)] IN
       /\ search' = [m \in Markers |-> outcome[m].left]
       /\ results' = results \cup UNION {ToSet(outcome[m].reported) : m \in Markers}
       /\ expired' = expired \cup UNION {ToSet(outcome[m].expired) : m \in Markers}
    /\ data' = Cleared
    /\ stall' = 0
    /\ spc' = "unlocking" /\ cur' = -1
    /\ UNCHANGED <<mutex, locked, dropped>>

(* Defect: only the sources of dead clients are unlocked. *)
SyncUnlockDead(d) ==
    /\ spc = "unlocking" /\ IsNext(d)
    /\ locked' = IF data[d].dead THEN locked \ {d} ELSE locked
    /\ cur' = d
    /\ spc' = "reaping"
    /\ UNCHANGED <<stall, searchVars, mutex, data, dropped>>

(* A source that removeClient inserted meanwhile is unlocked without       *)
(* having been locked, which has no effect.                                *)
SyncUnlock(d) ==
    /\ spc = "unlocking" /\ IsNext(d)
    /\ locked' = locked \ {d}
    /\ cur' = d
    /\ spc' = "reaping"
    /\ UNCHANGED <<stall, searchVars, mutex, data, dropped>>

(* Defect: every source is erased once its rays are drained. *)
SyncReapAlways ==
    /\ spc = "reaping"
    /\ data' = [d \in (DOMAIN data) \ {cur} |-> data[d]]
    /\ dropped' = dropped \cup UNION {ToSet(data[cur].rays[m]) : m \in Markers}
    /\ spc' = "unlocking"
    /\ UNCHANGED <<stall, searchVars, mutex, locked, cur>>

(* Defect: a dead source is left in the map. *)
SyncReapNever ==
    /\ spc = "reaping"
    /\ spc' = "unlocking"
    /\ UNCHANGED <<stall, searchVars, mutex, data, locked, cur, dropped>>

(* Defect: after an erase the iterator is advanced twice. *)
SyncReapSkipping ==
    /\ spc = "reaping"
    /\ IF data[cur].dead
       THEN /\ data' = [d \in (DOMAIN data) \ {cur} |-> data[d]]
            /\ dropped' = dropped \cup UNION {ToSet(data[cur].rays[m]) : m \in Markers}
            /\ cur' = IF AtEnd THEN cur ELSE CHOOSE d \in Clients : IsNext(d)
       ELSE UNCHANGED <<data, dropped, cur>>
    /\ spc' = "unlocking"
    /\ UNCHANGED <<stall, searchVars, mutex, locked>>

(* The source just unlocked is erased if its client is gone, with whatever *)
(* its deques hold by now, and with their mutexes.                         *)
SyncReap ==
    /\ spc = "reaping"
    /\ IF data[cur].dead
       THEN /\ data' = [d \in (DOMAIN data) \ {cur} |-> data[d]]
            /\ locked' = locked \ {cur}
            /\ dropped' = dropped \cup UNION {ToSet(data[cur].rays[m]) : m \in Markers}
       ELSE UNCHANGED <<data, locked, dropped>>
    /\ spc' = "unlocking"
    /\ UNCHANGED <<stall, searchVars, mutex, cur>>

SyncEnd ==
    /\ spc = "unlocking" /\ AtEnd
    /\ mutex' = Free
    /\ spc' = "idle"
    /\ UNCHANGED <<stall, searchVars, data, locked, cur, dropped>>

ServerStep ==
    /\ ~crashed
    /\ \/ SyncStart \/ SyncMatch \/ SyncReap \/ SyncEnd
       \/ \E d \in Clients : SyncLock(d) \/ SyncUnlock(d)
    /\ UNCHANGED <<now, cpc, ray, added, unmarked, crashed>>

-----------------------------------------------------------------------------
(* Time passes, but the server thread, which sleeps half a millisecond     *)
(* between two runs, is not held up for more than MaxStall.                *)
Tick ==
    /\ ~crashed
    /\ now < MaxTime /\ stall < MaxStall
    /\ now' = now + 1 /\ stall' = stall + 1
    /\ UNCHANGED <<threadVars, searchVars, added, dropped, unmarked, crashed>>

Crashed == crashed /\ UNCHANGED vars

Next == ServerStep \/ Tick \/ Crashed \/ \E c \in Clients : ClientStep(c)

SafeSpec == Init /\ [][Next]_vars

(* The server thread moves on: every step of it, and no other step,        *)
(* changes spc or cur.  (Said with the two variables alone, so that TLC    *)
(* need not compute a whole search to know that it is possible.)           *)
ServerMoves ==
    /\ ~crashed
    /\ spc = "idle" => mutex = Free
    /\ spc' \in {"idle", "locking", "unlocking", "reaping"}
    /\ cur' \in Clients \cup {-1}
    /\ <<spc', cur'>> # <<spc, cur>>

(* The server thread never stops; a client thread gets a mutex it waits    *)
(* for, since the server sleeps between two runs; no client need ever      *)
(* send or disconnect.                                                     *)
Fairness ==
    /\ WF_<<spc, cur>>(ServerMoves)
    /\ \A c \in Clients :
        /\ SF_vars(cpc[c] \in {"lookup", "pushing"} /\ ClientStep(c))
        /\ WF_vars(cpc[c] \in {"inserting", "removing"} /\ ClientStep(c))

Spec == SafeSpec /\ Fairness

-----------------------------------------------------------------------------
(* The inductive invariant of the threads and their locks. *)

(* DataManager::mutex is held by the thread that is where it holds it. *)
MutexHeld ==
    /\ \A c \in Clients : mutex = c <=> cpc[c] = "inserting"
    /\ mutex = Server <=> spc # "idle"

(* The source a client thread keeps a reference to after it has released   *)
(* the mutex stays in the map until the ray is in, and the server never    *)
(* reaches for a source that is not there: no use after erase.             *)
NoDanglingSource ==
    /\ \A c \in Clients : cpc[c] = "pushing" => c \in DOMAIN data
    /\ locked \subseteq DOMAIN data
    /\ spc = "reaping" => cur \in DOMAIN data

(* Only a client that has gone is marked dead. *)
DeadIsGone == \A c \in DOMAIN data : data[c].dead => cpc[c] = "gone"

(* What is still locked is what the iterator has not passed yet; in        *)
(* particular nothing stays locked while the server thread sleeps, though  *)
(* the map may have grown between the locking and the unlocking loop.      *)
LockedAhead ==
    /\ spc = "idle" => locked = {}
    /\ spc \in {"unlocking", "reaping"} => \A d \in locked : d > cur

(* A client thread inside addRay has a ray to add. *)
HoldsRay == \A c \in Clients : cpc[c] \in {"lookup", "inserting", "pushing"} => ray[c] \in Rays

ThreadInv ==
    ThreadTypeOK /\ MutexHeld /\ NoDanglingSource /\ DeadIsGone /\ LockedAhead /\ HoldsRay

-----------------------------------------------------------------------------
InDeques == {x \in (DOMAIN data) \X Markers : data[x[1]].rays[x[2]] # <<>>}
RaysOf(ms) == UNION {m.rays : m \in ms}

(* The places where an accepted ray may be: one in a deque, one pending,   *)
(* reported or expired match, or lost with an erased source.               *)
QueuedPlaces ==
    UNION {{<<"queued", x[1], x[2], i>> : i \in DOMAIN data[x[1]].rays[x[2]]} : x \in InDeques}
PendingPlaces == UNION {{<<"pending", m, i>> : i \in DOMAIN search[m]} : m \in Markers}

Places ==
    QueuedPlaces \cup PendingPlaces
        \cup {<<"reported", m>> : m \in results}
        \cup {<<"expired", m>> : m \in expired}
        \cup {<<"dropped">>}

RaysAt(p) ==
    CASE p[1] = "queued"   -> {data[p[2]].rays[p[3]][p[4]]}
      [] p[1] = "pending"  -> search[p[2]][p[3]].rays
      [] p[1] \in {"reported", "expired"} -> p[2].rays
      [] p[1] = "dropped"  -> dropped

MatchPlaces == {p \in Places : p[1] \in {"pending", "reported", "expired"}}

(* A ray may be lost to another one that std::set<Ray> takes it for, of    *)
(* the same camera, frame and marker, if that one is in a match.           *)
LostToTwin(r) == \E p \in MatchPlaces : \E twin \in RaysAt(p) : SameRay(twin, r)

(* Every ray accepted is in exactly one place, once, or lost to a twin.    *)
EachRayOnce ==
    LET found == UNION {RaysAt(p) : p \in Places} IN
    /\ found \subseteq added
    /\ \A r \in added \ found : LostToTwin(r)
    /\ \A p, q \in Places : p # q => RaysAt(p) \cap RaysAt(q) = {}

(* What intersectRays gets is one marker seen at about the same time by at *)
(* least two different cameras, each once, though a frame may have several *)
(* rays of a marker; provided that two frames of one camera are at least   *)
(* MaxTimeDiff apart.                                                      *)
ResultsConsistent ==
    \A m \in results :
        /\ Cardinality({r.client : r \in m.rays}) >= 2
        /\ \A r1, r2 \in m.rays :
            /\ r1.marker = r2.marker
            /\ r1.time - r2.time < MaxTimeDiff
            /\ r1 # r2 => r1.client # r2.client

(* Between two runs of syncData no two pending matches could be merged. *)
PendingIsMerged == \A m \in Markers : IsMerged(search[m])

(* Whatever syncData has collected, it groups as if each ray had joined    *)
(* the first match it fits, and as if all rays had come at once, and it    *)
(* reports the oldest complete match.                                      *)
SearchIsExact ==
    spc = "locking" /\ AtEnd =>
        \A m \in Markers :
            /\ MergeIsFirstFit(Collected(m)) /\ MergeIsIncremental(Collected(m))
            /\ IsMerged(Merged(m)) /\ ReportsOldestComplete(Merged(m), now)

(* However rays arrive, are merged, reported and given up, each is in one  *)
(* place or lost to a twin, and between two runs of syncData no two        *)
(* pending matches could be merged; and everything has its type.           *)
RaysAreMatched == TypeOK /\ EachRayOnce /\ PendingIsMerged

(* A match that already had enough rays after a run of syncData is         *)
(* reported, never expired, if the server thread is not held up.  (A match *)
(* that only gets its second ray in the run at which it expires is lost.)  *)
CompleteMatchesAreReported ==
    [][\A m \in Markers : \A i \in DOMAIN search[m] :
          Cardinality(search[m][i].rays) >= MinMatches =>
              \A e \in expired' \ expired : ~ search[m][i].rays \subseteq e.rays]_vars

(* syncData consumes every ray a vision client has delivered. *)
NoRayDropped == dropped = {}

(* A ray in a deque is collected by the server thread. *)
RaysAreCollected ==
    \A c \in Clients :
        (cpc[c] = "running" /\ \E m \in Markers : <<c, m>> \in InDeques)
            ~> (crashed \/ \A m \in Markers : <<c, m>> \notin InDeques)

(* addRay returns: the client thread is not locked out for ever. *)
AddRayReturns ==
    \A c \in Clients : ray[c] # NoRay ~> crashed \/ ray[c] = NoRay

(* The source of a client that has gone is erased, unless a data race lost *)
(* the mark.                                                               *)
SourcesAreReclaimed ==
    \A c \in Clients :
        cpc[c] = "gone" ~> crashed \/ c \in unmarked \/ c \notin DOMAIN data

-----------------------------------------------------------------------------
(* Bound, for the run about the threads: the clock stands still while a    *)
(* client is there.  Time matters to what the search makes of the rays,    *)
(* which MCDataManager is about.                                           *)
ClockStandsStill == now' = now \/ \A c \in Clients : cpc[c] = "gone"

MCSpec == Init /\ [][Next /\ ClockStandsStill]_vars /\ Fairness
=============================================================================
