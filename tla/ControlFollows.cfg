SPECIFICATION FairSpec
CONSTANTS
    MaxBacklog = 1
    MaxCrashes = 0
    MaxDrops = 1
    MaxCloses = 0
    MaxFaults = 0
PROPERTIES ConsumerFollows
