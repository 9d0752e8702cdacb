--------------------------- MODULE RedisRateLimiter ---------------------------
(***************************************************************************)
(* The limiter of searches, for one client address: a sorted set in Redis, *)
(* pruned and counted in one round trip, extended in the next.  Requests   *)
(* that count at the same time all see room.                               *)
(***************************************************************************)
EXTENDS Integers, Sequences, FiniteSets

CONSTANTS
    SearchLimit, SearchWindow,  \* requests_per_minute, window_seconds
    Latency,        \* the longest a request takes from the clock to its entry
    Searches,       \* concurrent requests from the address
    MaxSeconds, MaxEvictions \* bounds

ASSUME SearchLimiterOK == /\ SearchLimit \in Nat \ {0} /\ IsFiniteSet(Searches)
                          /\ SearchWindow \in Nat /\ Latency \in 0 .. SearchWindow - 1
                          /\ MaxSeconds \in Nat /\ MaxEvictions \in Nat

VARIABLES
    seconds,
    asked,     \* per search: the clock it read
    room,      \* searches that counted fewer than the limit, not yet entered
    zset,      \* the entries of the key: stamp and member
    entered,   \* ghost: when entries were made
    evictions

redisVars == <<seconds, asked, room, zset, entered, evictions>>
NotAsked == -1

RedisInit ==
    /\ seconds = 0 /\ asked = [r \in Searches |-> NotAsked] /\ room = {}
    /\ zset = {} /\ entered = <<>> /\ evictions = 0

Begin(r) ==
    /\ asked[r] = NotAsked
    /\ asked' = [asked EXCEPT ![r] = seconds]
    /\ UNCHANGED <<seconds, room, zset, entered, evictions>>

\* zremrangebyscore, which takes the boundary along, and zcard: one pipeline.
Recent(r) == {e \in zset : e[1] > asked[r] - SearchWindow}

Count(r) ==
    /\ asked[r] # NotAsked /\ r \notin room
    /\ zset' = Recent(r)
    /\ \/ /\ Cardinality(Recent(r)) < SearchLimit /\ room' = room \cup {r}
          /\ UNCHANGED asked
       \/ /\ Cardinality(Recent(r)) >= SearchLimit  \* 429 with Retry-After
          /\ asked' = [asked EXCEPT ![r] = NotAsked] /\ UNCHANGED room
    /\ UNCHANGED <<seconds, entered, evictions>>

\* Mutant: an entry is made before it is counted (and kept when refused).
RecordWithoutRoom(r) ==
    /\ asked[r] # NotAsked
    /\ zset' = zset \cup {<<asked[r], Len(entered)>>}
    /\ entered' = Append(entered, seconds)
    /\ room' = room \ {r} /\ asked' = [asked EXCEPT ![r] = NotAsked]
    /\ UNCHANGED <<seconds, evictions>>

\* zadd and expire; members are unique.
Record(r) ==
    /\ r \in room
    /\ zset' = zset \cup {<<asked[r], Len(entered)>>}
    /\ entered' = Append(entered, seconds)
    /\ room' = room \ {r} /\ asked' = [asked EXCEPT ![r] = NotAsked]
    /\ UNCHANGED <<seconds, evictions>>

\* Redis fails in either round trip: the search is allowed and leaves no entry.
FailOpen(r) ==
    /\ asked[r] # NotAsked
    /\ room' = room \ {r} /\ asked' = [asked EXCEPT ![r] = NotAsked]
    /\ UNCHANGED <<seconds, zset, entered, evictions>>

Elapse ==
    /\ seconds < MaxSeconds
    /\ \A r \in Searches : asked[r] # NotAsked => seconds - asked[r] < Latency
    /\ seconds' = seconds + 1
    /\ UNCHANGED <<asked, room, zset, entered, evictions>>

\* maxmemory-policy allkeys-lru, with nobody between the two round trips (an entry
\* made after the key is gone starts a new one).
EvictKey ==
    /\ evictions < MaxEvictions
    /\ zset' = {} /\ entered' = <<>> /\ evictions' = evictions + 1
    /\ UNCHANGED <<seconds, asked, room>>

RedisNext ==
    \/ \E r \in Searches : Begin(r) \/ Count(r) \/ Record(r) \/ FailOpen(r)
    \/ Elapse \/ EvictKey

RedisSpec == RedisInit /\ [][RedisNext]_redisVars

-----------------------------------------------------------------------------
Overrun == INSTANCE SlidingWindow
    WITH Max <- SearchLimit + Cardinality(Searches) - 1, Span <- SearchWindow - Latency - 1,
         clock <- seconds, admitted <- entered, losses <- evictions

\* Counting and entering apart costs one search more per request that can be
\* under way at a time, and no more than that: what is recorded still keeps to a
\* sliding window of the limit plus those.
OverrunIsBounded == Overrun!Spec
=============================================================================
