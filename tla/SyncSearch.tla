---------------------------- MODULE SyncSearch -----------------------------
(***************************************************************************)
(* DataManager::syncSearch of include/DataManager.h: how the rays of one   *)
(* marker, seen by several cameras, are grouped into matches by their      *)
(* timestamps, and which match a call of syncData reports.                 *)
(*                                                                         *)
(* A ray is [client, id, nr, marker, time]; its geometry plays no role     *)
(* here, other than that rays with different nr may differ in it.          *)
(* A match is [rays, time, n]: the std::set of its rays, the server time   *)
(* at which its oldest part was created and the number of sources known at *)
(* that moment.  Times are integers in an arbitrary unit.                  *)
(***************************************************************************)
EXTENDS Integers, Sequences, FiniteSets, SequencesExt

CONSTANTS
    MaxTimeDiff,   \* max_time_diff: rays of a match are closer than this
    MatchDelay,    \* match_delay: age at which an incomplete match is reported
    MatchExpire,   \* match_expire: age at which a match is given up
    MinMatches     \* min_matches: rays a reported match has at least

ASSUME SearchAssumption ==
    /\ MaxTimeDiff \in Nat \ {0}
    /\ MatchDelay \in Nat \ {0}
    /\ MatchExpire = 2 * MatchDelay
    /\ MinMatches \in Nat \ {0}

-----------------------------------------------------------------------------
(* std::set<Ray> compares client_id, id and marker only. *)
SameRay(r1, r2) ==
    /\ r1.client = r2.client
    /\ r1.id = r2.id
    /\ r1.marker = r2.marker

(* Defect: std::multiset. *)
InsertAll(rays, more) == rays \cup more

(* A ray that the set takes for one it has is dropped. *)
Insert(rays, more) ==
    rays \cup {r \in more : \A old \in rays : ~SameRay(r, old)}

NewMatch(ray, serverTime, nClients) ==
    [rays |-> {ray}, time |-> serverTime, n |-> nClients]

Compatible(m, n) ==
    \A r1 \in m.rays, r2 \in n.rays :
        r1.time - r2.time < MaxTimeDiff /\ r2.time - r1.time < MaxTimeDiff

(* Defect: the rays absorbed on the way are not compared with. *)
AbsorbByOriginal(ms, i) ==
    LET step(acc, n) ==
            IF Compatible(ms[i], n)
            THEN [acc EXCEPT !.m.rays = Insert(@, n.rays)]
            ELSE [acc EXCEPT !.skipped = Append(@, n)]
        end == FoldLeft(step, [m |-> ms[i], skipped |-> <<>>],
                        SubSeq(ms, i + 1, Len(ms)))
    IN  SubSeq(ms, 1, i - 1) \o <<end.m>> \o end.skipped

(* A later match n is absorbed if its rays are all close to all of those   *)
(* gathered so far, and skipped otherwise.                                 *)
Gather(acc, n) ==
    IF Compatible(acc.m, n)
    THEN [acc EXCEPT !.m.rays = Insert(@, n.rays)]
    ELSE [acc EXCEPT !.skipped = Append(@, n)]

(* One run of the inner loop of mergeMatches: the i-th match absorbs, in   *)
(* order, later ones.                                                      *)
Absorb(ms, i) ==
    LET end == FoldLeft(Gather, [m |-> ms[i], skipped |-> <<>>],
                        SubSeq(ms, i + 1, Len(ms)))
    IN  SubSeq(ms, 1, i - 1) \o <<end.m>> \o end.skipped

(* The vector gets shorter on the way, so the loop may end early. *)
AbsorbAt(ms, i) == IF i <= Len(ms) THEN Absorb(ms, i) ELSE ms

MergeMatches(ms) == FoldLeftDomain(AbsorbAt, ms, ms)

-----------------------------------------------------------------------------
(* std::stable_sort by Match::time: a match goes before the first one that *)
(* is younger.                                                             *)
Place(sorted, m) ==
    LET i == SelectInSeq(sorted, LAMBDA x : x.time > m.time)
    IN  IF i = 0 THEN Append(sorted, m) ELSE InsertAt(sorted, i, m)

SortByTime(ms) == FoldLeft(Place, <<>>, ms)

(* Defect: a match is given up at the age at which it should be reported. *)
ExpiredTooSoon(m, now) == m.time + MatchDelay <= now

Expired(m, now) == m.time + MatchExpire <= now

Complete(m, now) ==
    /\ Cardinality(m.rays) >= MinMatches
    /\ m.time + MatchDelay <= now \/ Cardinality(m.rays) >= m.n

(* The loop of getResults: expired matches are erased up to the first      *)
(* complete one, which is reported.  The scan stops there, so a call       *)
(* reports at most one: `reported' is a sequence of no or one match.       *)
Scan(acc, m, now) ==
    IF acc.reported = <<>> /\ Expired(m, now)
    THEN [acc EXCEPT !.expired = Append(@, m)]
    ELSE IF acc.reported = <<>> /\ Complete(m, now)
         THEN [acc EXCEPT !.reported = Append(@, m)]
         ELSE [acc EXCEPT !.left = Append(@, m)]

GetResults(ms, now) ==
    FoldLeft(LAMBDA acc, m : Scan(acc, m, now),
             [reported |-> <<>>, expired |-> <<>>, left |-> <<>>], SortByTime(ms))

-----------------------------------------------------------------------------
(* Reference definitions, of what is right for any list of matches.        *)

(* A match joins the first group it fits, or starts one. *)
JoinFirst(groups, n) ==
    LET i == SelectInSeq(groups, LAMBDA g : Compatible(g, n))
    IN  IF i = 0 THEN Append(groups, n)
        ELSE [groups EXCEPT ![i].rays = Insert(@, n.rays)]

FirstFit(ms) == FoldLeft(JoinFirst, <<>>, ms)

(* mergeMatches erases from the vector it walks over with two iterators;   *)
(* what comes out is the first-fit grouping.                               *)
MergeIsFirstFit(ms) == MergeMatches(ms) = FirstFit(ms)

(* Merging after each batch of rays, as syncData does, gives the groups    *)
(* that merging all the rays at once would give.                           *)
MergeIsIncremental(ms) ==
    \A k \in 0 .. Len(ms) :
        MergeMatches(MergeMatches(SubSeq(ms, 1, k)) \o SubSeq(ms, k + 1, Len(ms)))
            = MergeMatches(ms)

(* No two groups are left that could still be merged. *)
IsMerged(ms) == \A i, j \in DOMAIN ms : i # j => ~Compatible(ms[i], ms[j])

(* The matches that may be reported, and the oldest of them: the first in  *)
(* the vector of those that are equally old.                               *)
Candidates(ms, now) == {i \in DOMAIN ms : ~Expired(ms[i], now) /\ Complete(ms[i], now)}

Older(ms, i, j) == ms[i].time < ms[j].time \/ (ms[i].time = ms[j].time /\ i <= j)

Oldest(ms, now) ==
    {i \in Candidates(ms, now) : \A j \in Candidates(ms, now) : Older(ms, i, j)}

(* getResults reports the oldest complete match that has not expired;      *)
(* whatever it neither reports nor finds expired stays for the next call.  *)
ReportsOldestComplete(ms, now) ==
    LET r == GetResults(ms, now)
    IN  /\ ToSet(r.reported) = {ms[i] : i \in Oldest(ms, now)}
        /\ ToSet(r.left) \cup ToSet(r.reported) \cup ToSet(r.expired) = ToSet(ms)
        /\ Len(r.left) + Len(r.reported) + Len(r.expired) = Len(ms)
        /\ \A m \in ToSet(r.expired) : Expired(m, now)
=============================================================================
