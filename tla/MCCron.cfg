SPECIFICATION FairSpec
CONSTANTS
    n1 = n1
    a = a
    s1 = s1
    s2 = s2
    nfs1 = nfs1
    i1 = i1
    i2 = i2
    Bad = Bad
    None = None
    Namespaces = {n1}
    Names = {a}
    Schedules = {s1, s2}
    Addresses = {nfs1}
    Images = {i1, i2}
    Limits = {1}
    Runs = {1}
    MaxEdits = 2
    MaxBackups = 0
    MaxFaults = 1
INVARIANTS
    TypeOK
    AskedRegistered
PROPERTIES
    EventuallyRegistered
CHECK_DEADLOCK FALSE
