-------------------------- MODULE RateLimiter_proofs --------------------------
(***************************************************************************)
(* Both rate limiters implement SlidingWindow, for every limit, window,    *)
(* delay and set of requests: the in-memory one with its limit, because    *)
(* what has left the deque was admitted before the window began, and the   *)
(* one in Redis with a bound that makes room for searches that count at    *)
(* the same time.                                                          *)
(***************************************************************************)
EXTENDS RateLimiter, RedisRateLimiter, FiniteSetTheorems, TLAPS

\* Types, and a stamp for every admission.
LimiterTypes ==
    /\ clock \in Nat /\ losses \in Nat
    /\ now \in [Clients -> Int]
    /\ stamps \in Seq(Int) /\ taken \in Seq(Int) /\ Len(taken) = Len(stamps)
    /\ low \in 1 .. Len(stamps) + 1

\* A request waits for the lock no longer than Delay.
Waits == \A r \in Clients : now[r] # None => now[r] <= clock /\ clock <= now[r] + Delay

\* So an admission comes no more than Delay after its stamp, and never later
\* than the clock.
StampsAreClose ==
    \A i \in 1 .. Len(taken) : taken[i] <= stamps[i] + Delay /\ taken[i] <= clock

\* What was popped is older than the span that is promised.
PoppedIsOld == \A i \in 1 .. low - 1 : taken[i] + (Window - Delay) < clock

LimiterInv == LimiterTypes /\ Waits /\ StampsAreClose /\ PoppedIsOld

-----------------------------------------------------------------------------
\* Popping from the deque down to k keeps PoppedIsOld.
LEMMA PopsOnlyOld ==
    ASSUME LimiterInv, NEW r \in Clients, now[r] # None,
           NEW k \in low .. Len(stamps) + 1, IsHead(k, r)
    PROVE  /\ k \in 1 .. Len(stamps) + 1
           /\ \A i \in 1 .. k - 1 : taken[i] + (Window - Delay) < clock
<1> USE LimiterOK DEF LimiterInv, LimiterTypes
<1>1. k \in 1 .. Len(stamps) + 1
  OBVIOUS
<1>2. ASSUME NEW i \in 1 .. k - 1
      PROVE  taken[i] + (Window - Delay) < clock
  <2>1. CASE i < low
    BY <2>1 DEF PoppedIsOld
  <2>2. CASE i >= low
    <3>1. stamps[i] < now[r] - Window
      BY <2>2 DEF IsHead
    <3>2. i \in 1 .. Len(taken) /\ stamps[i] \in Int /\ taken[i] \in Int /\ now[r] \in Int
      BY <1>1
    <3>3. taken[i] <= stamps[i] + Delay
      BY <3>2 DEF StampsAreClose
    <3>4. now[r] <= clock
      BY DEF Waits
    <3>5. Window \in Int /\ Delay \in Int /\ clock \in Int
      OBVIOUS
    <3> HIDE DEF LimiterInv, LimiterTypes
    <3> QED BY <3>1, <3>2, <3>3, <3>4, <3>5, SMTT(40)
  <2> QED BY <2>1, <2>2
<1> QED BY <1>1, <1>2

LEMMA LimiterInitInv == LimiterInit => LimiterInv
BY LimiterOK DEF LimiterInit, LimiterInv, LimiterTypes, Waits, StampsAreClose, PoppedIsOld, None

LEMMA LimiterStepInv == LimiterInv /\ [LimiterNext]_limiterVars => LimiterInv'
<1> SUFFICES ASSUME LimiterInv, [LimiterNext]_limiterVars PROVE LimiterInv'
  OBVIOUS
<1> USE LimiterOK
<1>1. ASSUME NEW r \in Clients, ReadClock(r) PROVE LimiterInv'
  BY <1>1 DEF ReadClock, LimiterInv, LimiterTypes, Waits, StampsAreClose, PoppedIsOld, None
<1>2. ASSUME NEW r \in Clients, Allow(r) PROVE LimiterInv'
  <2>1. PICK k \in low .. Len(stamps) + 1 : IsHead(k, r) /\ low' = k
    BY <1>2 DEF Allow
  <2>2. /\ k \in 1 .. Len(stamps) + 1
        /\ \A i \in 1 .. k - 1 : taken[i] + (Window - Delay) < clock
    BY <1>2, <2>1, PopsOnlyOld DEF Allow
  <2>3. /\ stamps' = Append(stamps, now[r]) /\ taken' = Append(taken, clock)
        /\ now' = [now EXCEPT ![r] = None] /\ UNCHANGED <<clock, losses>> /\ now[r] # None
    BY <1>2 DEF Allow
  <2>4. LimiterTypes'
    BY <2>1, <2>2, <2>3 DEF LimiterInv, LimiterTypes, None
  <2>5. Waits'
    BY <2>3 DEF LimiterInv, LimiterTypes, Waits, None
  <2>6. StampsAreClose'
    <3> SUFFICES ASSUME NEW i \in 1 .. Len(taken')
                 PROVE  taken'[i] <= stamps'[i] + Delay /\ taken'[i] <= clock
      BY <2>3 DEF StampsAreClose
    <3>1. CASE i = Len(taken) + 1
      BY <3>1, <2>3 DEF LimiterInv, LimiterTypes, Waits
    <3>2. CASE i \in 1 .. Len(taken)
      BY <3>2, <2>3 DEF LimiterInv, LimiterTypes, StampsAreClose
    <3> QED BY <3>1, <3>2, <2>3 DEF LimiterInv, LimiterTypes
  <2>7. PoppedIsOld'
    BY <2>1, <2>2, <2>3 DEF LimiterInv, LimiterTypes, PoppedIsOld
  <2> QED BY <2>4, <2>5, <2>6, <2>7 DEF LimiterInv
<1>3. ASSUME NEW r \in Clients, Deny(r) PROVE LimiterInv'
  <2>1. PICK k \in low .. Len(stamps) + 1 : IsHead(k, r) /\ low' = k
    BY <1>3 DEF Deny
  <2>2. /\ k \in 1 .. Len(stamps) + 1
        /\ \A i \in 1 .. k - 1 : taken[i] + (Window - Delay) < clock
    BY <1>3, <2>1, PopsOnlyOld DEF Deny
  <2>3. low' = k /\ now' = [now EXCEPT ![r] = None] /\ UNCHANGED <<clock, stamps, taken, losses>>
    BY <1>3, <2>1 DEF Deny
  <2>4. LimiterTypes' BY <2>2, <2>3 DEF LimiterInv, LimiterTypes, None
  <2>5. Waits' BY <2>3 DEF LimiterInv, LimiterTypes, Waits, None
  <2>6. StampsAreClose' BY <2>3 DEF LimiterInv, StampsAreClose
  <2>7. PoppedIsOld' BY <2>2, <2>3 DEF LimiterInv, LimiterTypes, PoppedIsOld
  <2> QED BY <2>4, <2>5, <2>6, <2>7 DEF LimiterInv
<1>4. CASE Tick
  <2>1. LimiterTypes' BY <1>4 DEF Tick, LimiterInv, LimiterTypes, None
  <2>2. Waits' BY <1>4 DEF Tick, LimiterInv, LimiterTypes, Waits, None
  <2>3. StampsAreClose'
    <3>1. clock \in Int /\ clock' = clock + 1 /\ taken' = taken /\ stamps' = stamps /\ taken \in Seq(Int)
      BY <1>4 DEF Tick, LimiterInv, LimiterTypes
    <3> SUFFICES ASSUME NEW i \in 1 .. Len(taken) PROVE taken[i] <= stamps[i] + Delay /\ taken[i] <= clock + 1
      BY <3>1 DEF StampsAreClose
    <3>2. taken[i] <= stamps[i] + Delay /\ taken[i] <= clock
      BY DEF LimiterInv, StampsAreClose
    <3>3. taken[i] \in Int
      BY <3>1
    <3>4. \A m, n \in Int : m <= n => m <= n + 1
      OBVIOUS
    <3> QED BY <3>1, <3>2, <3>3, <3>4
  <2>4. PoppedIsOld' BY <1>4 DEF Tick, LimiterInv, LimiterTypes, PoppedIsOld
  <2> QED BY <2>1, <2>2, <2>3, <2>4 DEF LimiterInv
<1>5. CASE LimiterRestart
  <2>1. LimiterTypes' BY <1>5 DEF LimiterRestart, LimiterInv, LimiterTypes, None
  <2>2. Waits' BY <1>5 DEF LimiterRestart, LimiterInv, LimiterTypes, Waits, None
  <2>3. StampsAreClose' BY <1>5 DEF LimiterRestart, LimiterInv, LimiterTypes, StampsAreClose
  <2>4. PoppedIsOld' BY <1>5 DEF LimiterRestart, LimiterInv, LimiterTypes, PoppedIsOld
  <2> QED BY <2>1, <2>2, <2>3, <2>4 DEF LimiterInv
<1>6. CASE UNCHANGED limiterVars
  BY <1>6 DEF limiterVars, LimiterInv, LimiterTypes, Waits, StampsAreClose, PoppedIsOld, None
<1> QED BY <1>1, <1>2, <1>3, <1>4, <1>5, <1>6 DEF LimiterNext

\* The invariant of the in-memory rate limiter: only entries older than the span
\* leave the deque, whatever the order of the stamps in it.
THEOREM LimiterIsInductive == LimiterSpec => []LimiterInv
BY LimiterInitInv, LimiterStepInv, PTL DEF LimiterSpec

-----------------------------------------------------------------------------
\* Every step of the limiter is one of the sliding window, or none.
LEMMA LimiterStepSimulates ==
    LimiterInv /\ [LimiterNext]_limiterVars => [Promise!Next]_<<clock, taken, losses>>
<1> SUFFICES ASSUME LimiterInv, [LimiterNext]_limiterVars
             PROVE  [Promise!Next]_<<clock, taken, losses>>
  OBVIOUS
<1> USE LimiterOK
<1>1. ASSUME NEW r \in Clients, Allow(r) PROVE Promise!Admit
  <2>1. PICK k \in low .. Len(stamps) + 1 : IsHead(k, r) /\ Len(stamps) + 1 - k < Limit
    BY <1>1 DEF Allow
  <2>2. /\ k \in 1 .. Len(stamps) + 1
        /\ \A i \in 1 .. k - 1 : taken[i] + (Window - Delay) < clock
    BY <1>1, <2>1, PopsOnlyOld DEF Allow
  <2>3. Len(taken) < Limit \/ taken[Len(taken) + 1 - Limit] + (Window - Delay) < clock
    BY <2>1, <2>2 DEF LimiterInv, LimiterTypes
  <2> QED BY <2>3, <1>1 DEF Allow, Promise!Admit
<1>2. CASE Tick
  BY <1>2 DEF Tick, Promise!Next, Promise!Tick
<1>3. CASE LimiterRestart
  BY <1>3 DEF LimiterRestart, Promise!Next, Promise!Forget
<1>4. ASSUME NEW r \in Clients, ReadClock(r) \/ Deny(r)
      PROVE  UNCHANGED <<clock, taken, losses>>
  BY <1>4 DEF ReadClock, Deny
<1>5. CASE UNCHANGED limiterVars
  BY <1>5 DEF limiterVars
<1> QED BY <1>1, <1>2, <1>3, <1>4, <1>5 DEF LimiterNext, Promise!Next

\* Refinement: the limiter of uploads and logins never admits a client more than
\* Limit times within Window - Delay, however requests wait for the lock.
THEOREM LimiterImplementsPromise == LimiterSpec => LimiterKeepsPromise
<1>1. LimiterInit => Promise!Init
  BY DEF LimiterInit, Promise!Init
<1> QED BY <1>1, LimiterIsInductive, LimiterStepSimulates, PTL
        DEF LimiterSpec, LimiterKeepsPromise, Promise!Spec

-----------------------------------------------------------------------------
(* The limiter of searches.                                                *)

Bound == SearchLimit + Cardinality(Searches) - 1
Span  == SearchWindow - Latency - 1

\* A search makes its entry no later than Latency after it read the clock.
Asking ==
    /\ seconds \in Nat /\ evictions \in Nat
    /\ asked \in [Searches -> Int]
    /\ \A r \in Searches : asked[r] # NotAsked => asked[r] <= seconds /\ seconds <= asked[r] + Latency
    /\ room \subseteq Searches /\ \A r \in room : asked[r] # NotAsked

Entries ==
    /\ entered \in Seq(Nat)
    /\ \A i \in 1..Len(entered) : entered[i] <= seconds
    /\ \A i, j \in 1..Len(entered) : i <= j => entered[i] <= entered[j]

\* What the sorted set holds are entries, at most Latency after their stamps.
Stamped ==
    /\ IsFiniteSet(zset)
    /\ \A e \in zset : /\ e[1] \in Int /\ e[2] \in 0 .. Len(entered) - 1
                       /\ entered[e[2] + 1] <= e[1] + Latency

Members == {e[2] : e \in zset}

\* What was pruned is older than the span.
PrunedIsOld ==
    \A i \in 1..Len(entered) : i - 1 \in Members \/ entered[i] + Span < seconds

\* Each search that counted too few fits in on top of the limit.
RoomFits == Cardinality(zset) + Cardinality(room) <= Bound

RedisInv == Asking /\ Entries /\ Stamped /\ PrunedIsOld /\ RoomFits

LEMMA BoundTyped == /\ Bound \in Int /\ Span \in Nat /\ SearchLimit \in Nat /\ SearchLimit >= 1
                    /\ Cardinality(Searches) \in Nat /\ Bound >= 0
                    /\ SearchWindow \in Nat /\ Latency \in Nat
<1>1. Cardinality(Searches) \in Nat
  BY SearchLimiterOK, FS_CardinalityType
<1> QED BY <1>1, SearchLimiterOK DEF Bound, Span

LEMMA RedisTyped ==
    ASSUME RedisInv
    PROVE  /\ IsFiniteSet(zset) /\ Cardinality(zset) \in Nat
           /\ IsFiniteSet(room) /\ Cardinality(room) \in Nat /\ Cardinality(room) <= Cardinality(Searches)
           /\ Len(entered) \in Nat
BY SearchLimiterOK, FS_Subset, FS_CardinalityType DEF RedisInv, Asking, Entries, Stamped

LEMMA RedisInitInv == RedisInit => RedisInv
<1> SUFFICES ASSUME RedisInit PROVE RedisInv
  OBVIOUS
<1>1. Asking
  BY DEF RedisInit, Asking, NotAsked
<1>2. entered = <<>> /\ zset = {} /\ room = {}
  BY DEF RedisInit
<1>3. Entries /\ Stamped /\ PrunedIsOld
  BY <1>2, FS_EmptySet DEF Entries, Stamped, PrunedIsOld
<1>4. RoomFits
  BY <1>2, FS_EmptySet, BoundTyped DEF RoomFits
<1> QED BY <1>1, <1>3, <1>4 DEF RedisInv

\* A search that has room finds an old entry at the far end of the window: fewer
\* entries are left in the sorted set than the bound, so one of the last was pruned.
LEMMA RoomIsLeft ==
    ASSUME RedisInv, NEW r \in room
    PROVE  Len(entered) < Bound \/ entered[Len(entered) + 1 - Bound] + Span < seconds
<1> DEFINE m == Len(entered)
           K == (m - Bound) .. (m - 1)
           f == [e \in zset |-> e[2]]
<1>1. /\ IsFiniteSet(zset) /\ Cardinality(zset) \in Nat /\ Cardinality(room) \in Nat /\ m \in Nat
      /\ IsFiniteSet(room) /\ Bound \in Int /\ Bound >= 0 /\ Span \in Nat
  BY RedisTyped, BoundTyped
<1>2. Cardinality(room) # 0
  BY <1>1, FS_EmptySet
<1>3. Cardinality(zset) < Bound
  BY <1>1, <1>2 DEF RedisInv, RoomFits
<1>4. IsFiniteSet(Members) /\ Cardinality(Members) <= Cardinality(zset)
  <2>1. f \in Surjection(zset, Members)
    <3>1. f \in [zset -> Members]
      BY DEF Members
    <3>2. \A x \in Members : \E e \in zset : f[e] = x
      BY DEF Members
    <3> HIDE DEF f
    <3> QED BY <3>1, <3>2 DEF Surjection
  <2> HIDE DEF f
  <2> QED BY <1>1, <2>1, FS_Surjection
<1>5. IsFiniteSet(K) /\ Cardinality(K) = Bound
  <2>1. m - Bound \in Int /\ m - 1 \in Int
    BY <1>1
  <2>2. IsFiniteSet(K) /\ Cardinality(K) = IF m - Bound > m - 1 THEN 0 ELSE (m - 1) - (m - Bound) + 1
    BY <2>1, FS_Interval
  <2>3. ~(m - Bound > m - 1)
    BY <1>1, <1>3
  <2> HIDE DEF K, m
  <2> QED BY <1>1, <2>2, <2>3
<1>6. ~(K \subseteq Members)
  <2>1. Cardinality(Members) \in Nat
    BY <1>4, FS_CardinalityType
  <2>2. K \subseteq Members => Cardinality(K) <= Cardinality(Members)
    <3> HIDE DEF K
    <3> QED BY <1>4, FS_Subset
  <2> HIDE DEF K
  <2> QED BY <1>1, <1>3, <1>4, <1>5, <2>1, <2>2
<1>7. PICK k \in K : k \notin Members
  BY <1>6
<1>8. CASE m >= Bound
  <2>1. k \in Int /\ m - Bound <= k /\ k <= m - 1
    BY <1>1, <1>7
  <2>2. k + 1 \in 1..m /\ m + 1 - Bound \in 1..m /\ m + 1 - Bound <= k + 1 /\ (k + 1) - 1 = k
    BY <1>1, <1>3, <1>8, <2>1
  <2>3. entered[k + 1] + Span < seconds
    BY <1>7, <2>2 DEF RedisInv, PrunedIsOld
  <2>4. entered[m + 1 - Bound] <= entered[k + 1]
    BY <2>2 DEF RedisInv, Entries
  <2>5. entered[m + 1 - Bound] \in Nat /\ entered[k + 1] \in Nat /\ seconds \in Nat
    BY <2>2 DEF RedisInv, Entries, Asking
  <2> HIDE DEF m
  <2>6. entered[m + 1 - Bound] + Span < seconds
    BY <1>1, <2>3, <2>4, <2>5
  <2> QED BY <2>6 DEF m
<1> QED BY <1>1, <1>8

\* Entries that leave the sorted set are old by the clock of any search under way.
LEMMA PruneStep ==
    ASSUME RedisInv, NEW r \in Searches, asked[r] # NotAsked, zset' = Recent(r),
           UNCHANGED <<seconds, entered>>
    PROVE  /\ Stamped' /\ PrunedIsOld'
           /\ Cardinality(zset') \in Nat /\ Cardinality(zset') <= Cardinality(zset)
<1>1. Recent(r) \subseteq zset
  BY DEF Recent
<1>2. /\ IsFiniteSet(Recent(r)) /\ Cardinality(Recent(r)) \in Nat
      /\ Cardinality(Recent(r)) <= Cardinality(zset)
  BY <1>1, RedisTyped, FS_Subset, FS_CardinalityType
<1>3. Stamped'
  BY <1>1, <1>2 DEF RedisInv, Stamped
<1>4. ASSUME NEW i \in 1..Len(entered), i - 1 \notin Members'
      PROVE  entered[i] + Span < seconds
  <2>1. CASE i - 1 \in Members
    <3>1. PICK e \in zset : e[2] = i - 1
      BY <2>1 DEF Members
    <3>2. e \notin Recent(r)
      BY <1>4, <3>1 DEF Members
    <3>3. e[1] \in Int /\ asked[r] \in Int /\ seconds \in Nat /\ entered[i] \in Nat
      BY <3>1 DEF RedisInv, Asking, Entries, Stamped
    <3>4. e[1] <= asked[r] - SearchWindow
      BY <3>2, <3>3, BoundTyped DEF Recent
    <3>5. entered[i] <= e[1] + Latency
      <4>1. e[2] + 1 = i
        BY <3>1
      <4> QED BY <4>1 DEF RedisInv, Stamped
    <3>6. asked[r] <= seconds
      BY DEF RedisInv, Asking
    <3> QED BY <3>3, <3>4, <3>5, <3>6, BoundTyped, SMTT(40) DEF Span
  <2>2. CASE i - 1 \notin Members
    BY <2>2 DEF RedisInv, PrunedIsOld
  <2> QED BY <2>1, <2>2
<1> QED BY <1>2, <1>3, <1>4 DEF PrunedIsOld

LEMMA CountStep ==
    ASSUME RedisInv, NEW r \in Searches, Count(r)
    PROVE  RedisInv'
<1>1. /\ asked[r] # NotAsked /\ r \notin room /\ zset' = Recent(r)
      /\ UNCHANGED <<seconds, entered, evictions>>
  BY DEF Count
<1>2. /\ Stamped' /\ PrunedIsOld'
      /\ Cardinality(zset') \in Nat /\ Cardinality(zset') <= Cardinality(zset)
  BY <1>1, PruneStep
<1>3. Entries'
  BY <1>1 DEF RedisInv, Entries
<1>4. CASE Cardinality(Recent(r)) < SearchLimit /\ room' = room \cup {r} /\ UNCHANGED asked
  <2>1. Asking'
    BY <1>1, <1>4 DEF RedisInv, Asking
  <2>2. Cardinality(room') \in Nat /\ Cardinality(room') <= Cardinality(Searches)
    BY <2>1, SearchLimiterOK, FS_Subset, FS_CardinalityType DEF Asking
  <2>3. RoomFits'
    BY <1>1, <1>2, <1>4, <2>2, BoundTyped DEF RoomFits, Bound
  <2> QED BY <1>2, <1>3, <2>1, <2>3 DEF RedisInv
<1>5. CASE asked' = [asked EXCEPT ![r] = NotAsked] /\ UNCHANGED room
  <2>1. Asking'
    BY <1>1, <1>5 DEF RedisInv, Asking, NotAsked
  <2>2. RoomFits'
    BY <1>2, <1>5, RedisTyped, BoundTyped DEF RedisInv, RoomFits, Bound
  <2> QED BY <1>2, <1>3, <2>1, <2>2 DEF RedisInv
<1> QED BY <1>4, <1>5 DEF Count

LEMMA RecordStep ==
    ASSUME RedisInv, NEW r \in room, Record(r)
    PROVE  RedisInv'
<1> DEFINE m == Len(entered)
<1>1. /\ zset' = zset \cup {<<asked[r], m>>} /\ entered' = Append(entered, seconds)
      /\ room' = room \ {r} /\ asked' = [asked EXCEPT ![r] = NotAsked]
      /\ UNCHANGED <<seconds, evictions>>
  BY DEF Record
<1>2. r \in Searches /\ asked[r] # NotAsked /\ asked[r] \in Int /\ seconds \in Nat
  BY DEF RedisInv, Asking
<1>3. Asking'
  BY <1>1, <1>2 DEF RedisInv, Asking, NotAsked
<1>4. /\ m \in Nat /\ entered \in Seq(Nat) /\ entered' \in Seq(Nat) /\ Len(entered') = m + 1
      /\ entered'[m + 1] = seconds /\ \A i \in 1..m : entered'[i] = entered[i]
  BY <1>1, <1>2 DEF RedisInv, Entries
<1>5. \A i \in 1..m : entered[i] \in Nat /\ entered[i] <= seconds
  BY DEF RedisInv, Entries
<1>6. Entries'
  <2>1. \A i \in 1..m + 1 : entered'[i] <= seconds
    <3>1. \A i \in 1..m + 1 : i \in 1..m \/ i = m + 1
      BY <1>4
    <3> HIDE DEF m
    <3> QED BY <1>2, <1>4, <1>5, <3>1, SMTT(40)
  <2>2. \A i, j \in 1..m + 1 : i <= j => entered'[i] <= entered'[j]
    <3> SUFFICES ASSUME NEW i \in 1..m + 1, NEW j \in 1..m + 1, i <= j
                 PROVE  entered'[i] <= entered'[j]
      OBVIOUS
    <3>1. CASE j = m + 1
      BY <2>1, <1>4, <3>1
    <3>2. CASE j # m + 1
      <4>1. i \in 1..m /\ j \in 1..m
        BY <1>4, <3>2
      <4> QED BY <1>4, <4>1 DEF RedisInv, Entries
    <3> QED BY <3>1, <3>2
  <2> QED BY <1>1, <1>4, <2>1, <2>2 DEF Entries
<1>7. Stamped'
  <2>1. IsFiniteSet(zset')
    BY <1>1, RedisTyped, FS_AddElement
  <2>2. ASSUME NEW e \in zset
        PROVE  /\ e[1] \in Int /\ e[2] \in 0 .. Len(entered') - 1
               /\ entered'[e[2] + 1] <= e[1] + Latency
    <3>1. e[1] \in Int /\ e[2] \in 0 .. m - 1 /\ entered[e[2] + 1] <= e[1] + Latency
      BY DEF RedisInv, Stamped
    <3>2. e[2] + 1 \in 1..m /\ e[2] \in 0 .. (m + 1) - 1
      <4>1. m \in Nat /\ e[2] \in 0 .. m - 1
        BY <1>4, <3>1
      <4> HIDE DEF m
      <4> QED BY <4>1
    <3> QED BY <1>4, <3>1, <3>2
  <2>3. ASSUME NEW e, e = <<asked[r], m>>
        PROVE  /\ e[1] \in Int /\ e[2] \in 0 .. Len(entered') - 1
               /\ entered'[e[2] + 1] <= e[1] + Latency
    <3>1. e[1] = asked[r] /\ e[2] = m
      BY <2>3
    <3>2. m \in 0 .. (m + 1) - 1 /\ seconds <= asked[r] + Latency
      BY <1>2, <1>4 DEF RedisInv, Asking
    <3> QED BY <1>2, <1>4, <3>1, <3>2
  <2> QED BY <1>1, <2>1, <2>2, <2>3 DEF Stamped
<1>8. PrunedIsOld'
  <2> SUFFICES ASSUME NEW i \in 1..m + 1, i - 1 \notin Members'
               PROVE  entered'[i] + Span < seconds
    BY <1>1, <1>4 DEF PrunedIsOld
  <2>1. Members \subseteq Members' /\ m \in Members'
    <3>1. zset \subseteq zset' /\ <<asked[r], m>> \in zset'
      BY <1>1
    <3>2. \A e \in zset' : e[2] \in Members'
      BY DEF Members
    <3>3. <<asked[r], m>>[2] = m
      OBVIOUS
    <3> HIDE DEF m
    <3> QED BY <3>1, <3>2, <3>3 DEF Members
  <2>2. i \in 1..m
    <3>1. i # m + 1
      BY <1>4, <2>1
    <3> QED BY <1>4, <3>1
  <2> QED BY <1>4, <2>1, <2>2 DEF RedisInv, PrunedIsOld
<1>9. RoomFits'
  <2>1. Cardinality(zset') \in Nat /\ Cardinality(zset') <= Cardinality(zset) + 1
    <3>1. Cardinality(zset') = Cardinality(zset) \/ Cardinality(zset') = Cardinality(zset) + 1
      BY <1>1, RedisTyped, FS_AddElement
    <3> QED BY <3>1, RedisTyped
  <2>2. Cardinality(room') = Cardinality(room) - 1
    BY <1>1, RedisTyped, FS_RemoveElement
  <2> QED BY <2>1, <2>2, RedisTyped, BoundTyped DEF RedisInv, RoomFits, Bound
<1> QED BY <1>3, <1>6, <1>7, <1>8, <1>9 DEF RedisInv

LEMMA RedisStepInv == RedisInv /\ [RedisNext]_redisVars => RedisInv'
<1> SUFFICES ASSUME RedisInv, [RedisNext]_redisVars PROVE RedisInv'
  OBVIOUS
<1>1. ASSUME NEW r \in Searches, Begin(r) PROVE RedisInv'
  <2>1. UNCHANGED <<seconds, room, zset, entered, evictions>> /\ asked' = [asked EXCEPT ![r] = seconds]
        /\ asked[r] = NotAsked
    BY <1>1 DEF Begin
  <2>2. Asking'
    BY <2>1, BoundTyped DEF RedisInv, Asking, NotAsked
  <2> QED BY <2>1, <2>2 DEF RedisInv, Entries, Stamped, PrunedIsOld, Members, RoomFits, Bound
<1>2. ASSUME NEW r \in Searches, FailOpen(r) PROVE RedisInv'
  <2>1. /\ UNCHANGED <<seconds, zset, entered, evictions>>
        /\ room' = room \ {r} /\ asked' = [asked EXCEPT ![r] = NotAsked]
    BY <1>2 DEF FailOpen
  <2>2. Asking'
    BY <2>1 DEF RedisInv, Asking, NotAsked
  <2>3. RoomFits'
    <3>1. Cardinality(room') \in Nat /\ Cardinality(room') <= Cardinality(room)
      BY <2>1, RedisTyped, FS_Subset, FS_CardinalityType
    <3> QED BY <2>1, <3>1, RedisTyped, BoundTyped DEF RedisInv, RoomFits, Bound
  <2> QED BY <2>1, <2>2, <2>3 DEF RedisInv, Entries, Stamped, PrunedIsOld, Members
<1>3. CASE Elapse
  <2>1. /\ UNCHANGED <<asked, room, zset, entered, evictions>> /\ seconds' = seconds + 1
        /\ \A r \in Searches : asked[r] # NotAsked => seconds - asked[r] < Latency
    BY <1>3 DEF Elapse
  <2>2. Asking'
    BY <2>1, BoundTyped DEF RedisInv, Asking
  <2>3. \A i \in 1..Len(entered) : entered[i] \in Nat
    BY DEF RedisInv, Entries
  <2>4. Entries'
    BY <2>1, <2>3, SMTT(40) DEF RedisInv, Asking, Entries
  <2>5. PrunedIsOld'
    BY <2>1, <2>3, BoundTyped, SMTT(40) DEF RedisInv, Asking, PrunedIsOld, Members
  <2> QED BY <2>1, <2>2, <2>4, <2>5 DEF RedisInv, Stamped, RoomFits, Bound
<1>4. CASE EvictKey
  <2>1. /\ UNCHANGED <<seconds, asked, room>> /\ evictions' = evictions + 1
        /\ zset' = {} /\ entered' = <<>>
    BY <1>4 DEF EvictKey
  <2>2. Asking'
    BY <2>1 DEF RedisInv, Asking
  <2>3. Entries' /\ Stamped' /\ PrunedIsOld'
    BY <2>1, FS_EmptySet DEF Entries, Stamped, PrunedIsOld
  <2>4. RoomFits'
    BY <2>1, FS_EmptySet, RedisTyped, BoundTyped DEF RedisInv, RoomFits, Bound
  <2> QED BY <2>2, <2>3, <2>4 DEF RedisInv
<1>5. CASE UNCHANGED redisVars
  BY <1>5 DEF redisVars, RedisInv, Asking, Entries, Stamped, PrunedIsOld, Members, RoomFits, Bound
<1>6. ASSUME NEW r \in Searches, Record(r) PROVE RedisInv'
  BY <1>6, RecordStep DEF Record
<1> QED BY <1>1, <1>2, <1>3, <1>4, <1>5, <1>6, CountStep DEF RedisNext

\* The invariant of the limiter of searches: what has left the sorted set is older
\* than the span, and what is in it leaves room for those that have counted.
THEOREM RedisIsInductive == RedisSpec => []RedisInv
BY RedisInitInv, RedisStepInv, PTL DEF RedisSpec

\* Every step of the limiter of searches is one of the larger window, or none.
LEMMA RedisStepSimulates ==
    RedisInv /\ [RedisNext]_redisVars => [Overrun!Next]_<<seconds, entered, evictions>>
<1> SUFFICES ASSUME RedisInv, [RedisNext]_redisVars
             PROVE  [Overrun!Next]_<<seconds, entered, evictions>>
  OBVIOUS
<1>1. ASSUME NEW r \in Searches, Record(r) PROVE Overrun!Admit
  <2>1. /\ r \in room /\ entered' = Append(entered, seconds) /\ UNCHANGED <<seconds, evictions>>
    BY <1>1 DEF Record
  <2>2. Len(entered) < Bound \/ entered[Len(entered) + 1 - Bound] + Span < seconds
    BY <2>1, RoomIsLeft
  <2> QED BY <2>1, <2>2 DEF Overrun!Admit, Bound, Span
<1>2. CASE Elapse
  BY <1>2 DEF Elapse, Overrun!Next, Overrun!Tick
<1>3. CASE EvictKey
  BY <1>3 DEF EvictKey, Overrun!Next, Overrun!Forget
<1>4. ASSUME NEW r \in Searches, Begin(r) \/ Count(r) \/ FailOpen(r)
      PROVE  UNCHANGED <<seconds, entered, evictions>>
  BY <1>4 DEF Begin, Count, FailOpen
<1>5. CASE UNCHANGED redisVars
  BY <1>5 DEF redisVars
<1> QED BY <1>1, <1>2, <1>3, <1>4, <1>5 DEF RedisNext, Overrun!Next

\* Refinement: however searches that count at the same time interleave, the limiter
\* keeps to a sliding window of its limit and one search more for each of the others.
THEOREM OverrunBounded == RedisSpec => OverrunIsBounded
<1>1. RedisInit => Overrun!Init
  BY DEF RedisInit, Overrun!Init
<1> QED BY <1>1, RedisIsInductive, RedisStepSimulates, PTL
        DEF RedisSpec, OverrunIsBounded, Overrun!Spec
=============================================================================
