SPECIFICATION Spec
CONSTANTS
    Backups = {1}
    Asked <- MCAsked
    Nil = Nil
    MaxRuns = 1
    MaxTries = 1
    MaxFaults = 1
INVARIANTS
    RecordedWhole
CHECK_DEADLOCK FALSE
