SPECIFICATION FairSpec
CONSTANTS
    Backups = {1, 2}
    Asked <- MCAsked
    Nil = Nil
    MaxRuns = 2
    MaxTries = 2
    MaxFaults = 1
INVARIANTS
    TypeOK
    RecordedStored
PROPERTIES
    LastForward
    
    EventuallyScheduled
CHECK_DEADLOCK FALSE
