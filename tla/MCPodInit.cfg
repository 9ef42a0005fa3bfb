SPECIFICATION Spec
CONSTANTS
    Pods = {"mysql-0", "mysql-1", "ro-0"}
    ReadOnly = {"ro-0"}
    Ordinal <- MCOrdinal
    Configs <- MCConfigs
    MaxFaults = 1
    MaxRebuilds = 2
INVARIANTS TypeOK ServedPrepared Identified RebuiltFromAsked
PROPERTIES RemadeKeepsData EventuallyUp
CHECK_DEADLOCK FALSE
