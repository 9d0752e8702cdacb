SPECIFICATION FairSpec
CONSTANTS
    Callers = {c1, c2, c3}
    FailureThreshold = 3
    SuccessThreshold = 2
    RecoveryTimeout = 2
INVARIANTS TypeOK ClosedBelowThreshold
PROPERTIES OpensOnConsecutive RecoversWhenUp
