--------------------------- MODULE CircuitBreaker ---------------------------
(***************************************************************************)
(* The circuit breaker that solr-search puts before Redis, Solr and the    *)
(* embeddings server.  The lock covers the test before a call and the      *)
(* record after it, not the call: a call succeeds or fails as the service  *)
(* is at some moment of it, and its result is recorded later, in any       *)
(* order, whatever the circuit and the service are by then.                *)
(***************************************************************************)
EXTENDS Naturals

CONSTANTS Callers,           \* request threads
          FailureThreshold,
          SuccessThreshold,
          RecoveryTimeout    \* in ticks

ASSUME ThresholdsOK == /\ FailureThreshold \in Nat \ {0}
                       /\ SuccessThreshold \in Nat \ {0}
                       /\ RecoveryTimeout \in Nat \ {0}

VARIABLES
    state,      \* CircuitState
    failures,   \* _failure_count, kept up to the threshold it is compared with
    successes,  \* _success_count
    elapsed,    \* time since _opened_at, up to RecoveryTimeout
    call,       \* of each thread: none, func runs, it returned or raised
    up,         \* the service behind the circuit works
    streak      \* ghost: failures recorded since a success was, up to the threshold

circuit == <<state, failures, successes, elapsed>>
vars    == <<circuit, call, up, streak>>

Init ==
    /\ state = "closed" /\ failures = 0 /\ successes = 0
    /\ elapsed = RecoveryTimeout
    /\ call = [c \in Callers |-> "none"] /\ up = TRUE /\ streak = 0

Goes(c, to) == call' = [call EXCEPT ![c] = to]

UpTo(n, bound) == IF n < bound THEN n + 1 ELSE n

-----------------------------------------------------------------------------
Expired == state = "open" /\ elapsed >= RecoveryTimeout

\* _maybe_promote, which every reader of the state runs first.
Promoted == IF Expired THEN state' = "half_open" /\ successes' = 0
                       ELSE UNCHANGED <<state, successes>>

\* state, get_status (the health endpoints).
ReadStatus ==
    /\ Promoted
    /\ UNCHANGED <<failures, elapsed, call, up, streak>>

\* call: the test under the lock lets the thread through.
Enter(c) ==
    /\ call[c] = "none"
    /\ Promoted /\ state' # "open"
    /\ Goes(c, "runs")
    /\ UNCHANGED <<failures, elapsed, up, streak>>

\* func returns, or raises an expected exception, by what the service is just then.
\* The record of it has yet to get the lock.
End(c) ==
    /\ call[c] = "runs"
    /\ Goes(c, IF up THEN "returned" ELSE "raised")
    /\ UNCHANGED <<circuit, up, streak>>

\* Mutant: a refused call starts the wait again.
RejectRestartsWait(c) ==
    /\ call[c] = "none"
    /\ state = "open" /\ ~Expired
    /\ elapsed' = 0
    /\ UNCHANGED <<state, failures, successes, call, up, streak>>

\* call: CircuitOpenError.
Reject(c) ==
    /\ call[c] = "none"
    /\ state = "open" /\ ~Expired
    /\ UNCHANGED vars

\* _transition_to_open
TransitionToOpen == state' = "open" /\ elapsed' = 0 /\ successes' = 0

\* _record_failure: half open reopens, closed opens at the threshold; a late failure
\* of an open circuit only counts.  The service may be back by now.
Fail(c) ==
    /\ call[c] = "raised"
    /\ Goes(c, "none")
    /\ failures' = UpTo(failures, FailureThreshold)
    /\ streak' = UpTo(streak, FailureThreshold)
    /\ IF state = "half_open" \/ (state = "closed" /\ failures' >= FailureThreshold)
       THEN TransitionToOpen
       ELSE UNCHANGED <<state, elapsed, successes>>
    /\ UNCHANGED up

\* Mutant: the count of failures survives the recovery.
CloseKeepsFailures ==
    /\ state' = "closed" /\ successes' = 0 /\ UNCHANGED failures

\* Back to normal: enough successes, or reset.
Close == state' = "closed" /\ failures' = 0 /\ successes' = 0

\* Mutant: one success more than the threshold asks for.
CountSuccessLate ==
    IF successes + 1 > SuccessThreshold THEN Close
    ELSE successes' = successes + 1 /\ UNCHANGED <<state, failures>>

\* _record_success, half open.
CountSuccess ==
    IF successes + 1 >= SuccessThreshold THEN Close
    ELSE successes' = successes + 1 /\ UNCHANGED <<state, failures>>

\* Mutant: a success between two failures is not noticed.
SucceedKeepsFailures(c) ==
    /\ call[c] = "returned"
    /\ Goes(c, "none")
    /\ streak' = 0
    /\ IF state = "half_open" THEN CountSuccess ELSE UNCHANGED <<state, failures, successes>>
    /\ UNCHANGED <<elapsed, up>>

\* _record_success: an open circuit does not notice.
Succeed(c) ==
    /\ call[c] = "returned"
    /\ Goes(c, "none")
    /\ streak' = 0
    /\ \/ state = "half_open" /\ CountSuccess
       \/ state = "closed" /\ failures' = 0 /\ UNCHANGED <<state, successes>>
       \/ state = "open" /\ UNCHANGED <<state, failures, successes>>
    /\ UNCHANGED <<elapsed, up>>

\* Any other exception passes through unrecorded.
Unexpected(c) ==
    /\ call[c] = "runs"
    /\ Goes(c, "none")
    /\ UNCHANGED <<circuit, up, streak>>

Reset ==
    /\ Close
    /\ UNCHANGED <<elapsed, call, up, streak>>

\* The monotonic clock; it matters while the circuit is open.
Tick ==
    /\ state = "open" /\ elapsed < RecoveryTimeout
    /\ elapsed' = elapsed + 1
    /\ UNCHANGED <<state, failures, successes, call, up, streak>>

\* The service behind the circuit goes down or comes back.
Toggle == up' = ~up /\ UNCHANGED <<circuit, call, streak>>

-----------------------------------------------------------------------------
Next == \/ \E c \in Callers : \/ Enter(c) \/ Reject(c)
                              \/ End(c) \/ Succeed(c) \/ Fail(c) \/ Unexpected(c)
        \/ ReadStatus \/ Reset \/ Tick \/ Toggle

Spec == Init /\ [][Next]_vars

\* Time passes, requests keep coming, a result is recorded once it is there, and not
\* every call ends in an exception that nobody expects.
FairSpec ==
    /\ Spec
    /\ WF_vars(Tick)
    /\ \A c \in Callers : WF_vars(Enter(c)) /\ SF_vars(End(c)) /\ WF_vars(Succeed(c) \/ Fail(c))

-----------------------------------------------------------------------------
\* Types: successes are counted below the threshold only, the wait never runs
\* past the timeout.
TypeOK ==
    /\ state \in {"closed", "open", "half_open"}
    /\ failures \in 0..FailureThreshold
    /\ successes \in 0..(SuccessThreshold - 1)
    /\ elapsed \in 0..RecoveryTimeout
    /\ call \in [Callers -> {"none", "runs", "returned", "raised"}]
    /\ up \in BOOLEAN
    /\ streak \in 0..FailureThreshold

\* A closed circuit has room for a failure: whatever late results were counted
\* while it was open or half open, it does not come back with the count at or
\* above the threshold, where a single error would open it again.
ClosedBelowThreshold == state = "closed" => failures < FailureThreshold

\* failure_threshold counts consecutive failures: a closed circuit opens only
\* when none of the results recorded over that many was a success, late results
\* of calls begun before an earlier opening included.
OpensOnConsecutive ==
    [][state = "closed" /\ state' = "open" => streak' >= FailureThreshold]_vars

\* A service that has come back for good is used again for good: the circuit is
\* neither left open nor half open, and the failures of calls that met the outage, which
\* are recorded late and may open it once more, do not keep it from closing.
RecoversWhenUp == <>[]up => <>[](state = "closed")
=============================================================================
