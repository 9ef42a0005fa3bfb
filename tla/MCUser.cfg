SPECIFICATION FairSpec
CONSTANTS
    h1 = h1
    h2 = h2
    Hosts = {h1, h2}
    FirstHosts = {h1}
    MaxEdits = 2
    MaxPassword = 1
    MaxDrops = 1
    MaxFaults = 1
INVARIANTS
    TypeOK
    RecordedUsersGuarded
PROPERTIES
    RecordedUsersDropped
    EventuallyProvisioned
    EventuallyQuiet
    DeletionEnds
CHECK_DEADLOCK FALSE
