SPECIFICATION Spec
CONSTANTS
    Clusters = {"a", "b", "c", "d"}
    Starts <- MCStarts
    First <- MCFirst
    Edits <- MCEdits
    Deletable = {"b", "c"}
    Names = {"r", "q"}
    Secrets = {"r"}
    MaxEvents = 3
    None = None
INVARIANTS TypeOK ClaimsKeepUp
PROPERTIES EventuallyAsAsked ServicesComeBack EventuallyGone
