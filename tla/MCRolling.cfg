SPECIFICATION FairSpec
CONSTANTS
    MaxReplicas = 2
    MaxImage = 1
    MaxConfig = 1
    MaxResizes = 1
    MaxBackups = 1
    MaxFaults = 1
    Starts <- ResizedOrUpgraded
INVARIANTS
    TypeOK
    OneRestartAtATime
PROPERTIES
    FollowersFirst
    WantedClaimsKept
    EventuallyConverged
CHECK_DEADLOCK FALSE
