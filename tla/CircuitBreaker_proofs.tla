----------------------- MODULE CircuitBreaker_proofs -----------------------
(* Proofs about the circuit breaker, for any threads and any thresholds.   *)
EXTENDS CircuitBreaker, TLAPS

LEMMA Counting ==
    ASSUME NEW n, NEW bound, bound \in Nat \ {0}, n \in 0..bound
    PROVE  /\ UpTo(n, bound) \in 0..bound
           /\ UpTo(n, bound) >= n
           /\ UpTo(n, bound) # 0
BY DEF UpTo

LEMMA TypeStep == TypeOK /\ [Next]_vars => TypeOK'
<1> SUFFICES ASSUME TypeOK, [Next]_vars PROVE TypeOK'
  OBVIOUS
<1> USE ThresholdsOK DEF TypeOK, circuit, Goes
<1>1. ASSUME NEW c \in Callers, Enter(c) PROVE TypeOK'
  BY <1>1 DEF Enter, Promoted
<1>2. ASSUME NEW c \in Callers, Reject(c) PROVE TypeOK'
  BY <1>2 DEF Reject, vars
<1>3. ASSUME NEW c \in Callers, Succeed(c) PROVE TypeOK'
  BY <1>3 DEF Succeed, CountSuccess, Close
<1>4. ASSUME NEW c \in Callers, Fail(c) PROVE TypeOK'
  <2>1. failures' \in 0..FailureThreshold /\ streak' \in 0..FailureThreshold
    BY <1>4, Counting DEF Fail
  <2> QED BY <1>4, <2>1 DEF Fail, TransitionToOpen
<1>5. ASSUME NEW c \in Callers, Unexpected(c) PROVE TypeOK'
  BY <1>5 DEF Unexpected
<1>6. CASE ReadStatus
  BY <1>6 DEF ReadStatus, Promoted
<1>7. CASE Reset
  BY <1>7 DEF Reset, Close
<1>8. CASE Tick
  BY <1>8 DEF Tick
<1>9. CASE Toggle
  BY <1>9 DEF Toggle
<1>10. ASSUME NEW c \in Callers, End(c) PROVE TypeOK'
  BY <1>10 DEF End
<1>11. CASE UNCHANGED vars
  BY <1>11 DEF vars
<1> QED BY <1>1, <1>2, <1>3, <1>4, <1>5, <1>6, <1>7, <1>8, <1>9, <1>10, <1>11 DEF Next

\* Every variable keeps its type; successes never reach the threshold without
\* the circuit closing.
THEOREM TypeCorrect == Spec => []TypeOK
<1>1. Init => TypeOK
  BY ThresholdsOK DEF Init, TypeOK
<1> QED BY <1>1, TypeStep, PTL DEF Spec
-----------------------------------------------------------------------------
\* ClosedBelowThreshold is inductive on its own; that the circuit opens on
\* consecutive failures needs the count to be no longer than the streak.
CountInv == state = "closed" => failures < FailureThreshold /\ failures <= streak

LEMMA CountStep == TypeOK /\ CountInv /\ [Next]_vars => CountInv'
<1> SUFFICES ASSUME TypeOK, CountInv, [Next]_vars PROVE CountInv'
  OBVIOUS
<1> USE ThresholdsOK DEF TypeOK, CountInv, circuit, Goes
<1>1. ASSUME NEW c \in Callers, Enter(c) PROVE CountInv'
  BY <1>1 DEF Enter, Promoted
<1>2. ASSUME NEW c \in Callers, Reject(c) PROVE CountInv'
  BY <1>2 DEF Reject, vars
<1>3. ASSUME NEW c \in Callers, Succeed(c) PROVE CountInv'
  BY <1>3 DEF Succeed, CountSuccess, Close
<1>4. ASSUME NEW c \in Callers, Fail(c) PROVE CountInv'
  BY <1>4 DEF Fail, TransitionToOpen, UpTo
<1>5. ASSUME NEW c \in Callers, Unexpected(c) PROVE CountInv'
  BY <1>5 DEF Unexpected
<1>6. CASE ReadStatus
  BY <1>6 DEF ReadStatus, Promoted
<1>7. CASE Reset
  BY <1>7 DEF Reset, Close
<1>8. CASE Tick
  BY <1>8 DEF Tick
<1>9. CASE Toggle
  BY <1>9 DEF Toggle
<1>10. ASSUME NEW c \in Callers, End(c) PROVE CountInv'
  BY <1>10 DEF End
<1>11. CASE UNCHANGED vars
  BY <1>11 DEF vars
<1> QED BY <1>1, <1>2, <1>3, <1>4, <1>5, <1>6, <1>7, <1>8, <1>9, <1>10, <1>11 DEF Next

LEMMA CountInvariant == Spec => []CountInv
<1>1. Init => CountInv
  BY ThresholdsOK DEF Init, CountInv
<1> QED BY <1>1, CountStep, TypeCorrect, PTL DEF Spec

\* A closed circuit is never one stale count away from opening.
THEOREM ClosedHasRoom == Spec => []ClosedBelowThreshold
<1>1. CountInv => ClosedBelowThreshold
  BY DEF CountInv, ClosedBelowThreshold
<1> QED BY <1>1, CountInvariant, PTL

LEMMA OpenStep ==
    TypeOK /\ CountInv /\ [Next]_vars =>
        [state = "closed" /\ state' = "open" => streak' >= FailureThreshold]_vars
<1> SUFFICES ASSUME TypeOK, CountInv, Next, state = "closed", state' = "open"
             PROVE  streak' >= FailureThreshold
  OBVIOUS
<1> USE ThresholdsOK DEF TypeOK, CountInv, circuit, Goes
<1>1. PICK c \in Callers : Fail(c)
  BY DEF Next, Enter, Reject, End, Succeed, CountSuccess, Close, Unexpected, ReadStatus, Reset,
         Tick, Toggle, Promoted, Expired, vars
<1>2. failures' >= FailureThreshold
  BY <1>1 DEF Fail
<1> QED BY <1>1, <1>2 DEF Fail, UpTo

\* Only FailureThreshold failures in a row open a closed circuit, in whatever
\* order the results of the threads come in.
THEOREM OpensAfterFailures == Spec => OpensOnConsecutive
BY OpenStep, TypeCorrect, CountInvariant, PTL DEF Spec, OpensOnConsecutive
=============================================================================
