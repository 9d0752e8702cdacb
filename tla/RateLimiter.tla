------------------------------ MODULE RateLimiter ------------------------------
(***************************************************************************)
(* The in-memory limiter of uploads and logins, for one client address     *)
(* (addresses share nothing but the lock).  A request reads the clock      *)
(* before it waits for the lock, so stamps can enter the deque out of      *)
(* order, and only the head of the deque is ever tested.                   *)
(* Admissions are numbered as they enter: the deque always holds those     *)
(* from low to the newest, since it grows at one end and shrinks at the    *)
(* other.                                                                  *)
(***************************************************************************)
EXTENDS Integers, Sequences

CONSTANTS
    Limit, Window,  \* max_requests, window_seconds
    Delay,          \* the longest a request waits between the clock and the lock
    Clients,        \* concurrent requests from the address
    MaxTime, MaxLosses \* bounds: the clock, and restarts

ASSUME LimiterOK == /\ Limit \in Nat \ {0}  \* 0 and less switch the limiter off
                    /\ Window \in Nat /\ Delay \in 0..Window
                    /\ MaxTime \in Nat /\ MaxLosses \in Nat

VARIABLES
    clock,
    now,     \* per request: the clock it read, None before and after
    low,     \* the deque: stamps[low], stamps[low + 1], ...
    stamps,  \* what the admissions wrote
    taken,   \* ghost: when they got the lock
    losses

limiterVars == <<clock, now, low, stamps, taken, losses>>
None == -1

LimiterInit ==
    /\ clock = 0 /\ now = [r \in Clients |-> None]
    /\ low = 1 /\ stamps = <<>> /\ taken = <<>> /\ losses = 0

\* now = time.time()
ReadClock(r) ==
    /\ now[r] = None
    /\ now' = [now EXCEPT ![r] = clock]
    /\ UNCHANGED <<clock, low, stamps, taken, losses>>

\* Mutant: an entry as old as the window goes too.
IsHeadIfWindowOpen(k, r) ==
    /\ k \in low .. Len(stamps) + 1
    /\ \A i \in low .. k - 1 : stamps[i] <= now[r] - Window
    /\ k <= Len(stamps) => stamps[k] > now[r] - Window

\* The head once those before the cutoff are popped: the loop stops at the first
\* that is not.
IsHead(k, r) ==
    /\ k \in low .. Len(stamps) + 1
    /\ \A i \in low .. k - 1 : stamps[i] < now[r] - Window
    /\ k <= Len(stamps) => stamps[k] >= now[r] - Window

\* The block under the lock, when there is room and when there is none.
Allow(r) ==
    /\ now[r] # None
    /\ \E k \in low .. Len(stamps) + 1 :
          /\ IsHead(k, r) /\ Len(stamps) + 1 - k < Limit
          /\ low' = k
    /\ stamps' = Append(stamps, now[r]) /\ taken' = Append(taken, clock)
    /\ now' = [now EXCEPT ![r] = None]
    /\ UNCHANGED <<clock, losses>>

Deny(r) ==
    /\ now[r] # None
    /\ \E k \in low .. Len(stamps) + 1 :
          /\ IsHead(k, r) /\ Len(stamps) + 1 - k >= Limit
          /\ low' = k
    /\ now' = [now EXCEPT ![r] = None]
    /\ UNCHANGED <<clock, stamps, taken, losses>>

Tick ==
    /\ clock < MaxTime
    /\ \A r \in Clients : now[r] # None => clock - now[r] < Delay
    /\ clock' = clock + 1
    /\ UNCHANGED <<now, low, stamps, taken, losses>>

\* The process restarts with an empty deque.
LimiterRestart ==
    /\ losses < MaxLosses
    /\ now' = [r \in Clients |-> None]
    /\ low' = 1 /\ stamps' = <<>> /\ taken' = <<>> /\ losses' = losses + 1
    /\ UNCHANGED clock

LimiterNext ==
    \/ \E r \in Clients : ReadClock(r) \/ Allow(r) \/ Deny(r)
    \/ Tick \/ LimiterRestart

LimiterSpec == LimiterInit /\ [][LimiterNext]_limiterVars

-----------------------------------------------------------------------------
Promise == INSTANCE SlidingWindow
    WITH Max <- Limit, Span <- Window - Delay, admitted <- taken

\* The limiter keeps the promise of a sliding window by the time a request gets
\* the lock, shorter by the time it may wait there: stamps out of order keep
\* others from being popped, and never let one more in.
LimiterKeepsPromise == Promise!Spec
=============================================================================
