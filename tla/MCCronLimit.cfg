SPECIFICATION Spec
CONSTANTS
    n1 = n1
    a = a
    s1 = s1
    i1 = i1
    Bad = Bad
    None = None
    Namespaces = {n1}
    Names = {a}
    Schedules = {s1}
    Addresses = {}
    Images = {i1}
    Limits = {1, 2}
    Runs = {}
    MaxEdits = 2
    MaxBackups = 0
    MaxFaults = 0
INVARIANTS
    LimitFollows
CHECK_DEADLOCK FALSE
