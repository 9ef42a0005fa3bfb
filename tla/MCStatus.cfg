SPECIFICATION FairSpec
CONSTANTS
    MaxReplicas = 2
    MaxReadOnlys = 1
    Remote = FALSE
    Nil = Nil
    MaxEvents = 1
    MaxUpdates = 1
INVARIANTS
    TypeOK
PROPERTIES
    ImplementsPhase
    EventuallySettled
    EventuallyMembers
    EventuallyLabelled
