SPECIFICATION FairSpec
CONSTANTS
    MaxBacklog = 2
    MaxCrashes = 1
    MaxDrops = 2
    MaxCloses = 1
    MaxFaults = 2
INVARIANTS TypeOK IdleStateAgrees PauseIsDurable InheritedPauseHolds
PROPERTIES OnlyResumeEndsPause PauseReachesLoop ResumeReachesLoop ShutdownEnds
