SPECIFICATION Spec
CONSTANTS
    Nodes = {"n0", "n1", "n2"}
    First = "n0"
    Restarted = {"n1"}
    AutoRebuild = TRUE
    MaxStops = 1
    MaxFaults = 0
PROPERTIES RebuildSafe
