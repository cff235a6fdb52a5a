SPECIFICATION Spec
CONSTANTS
    Backends = {"nw", "socket"}
    OwnerDisconnects = TRUE
    RequestUpdates = TRUE
    MaxQueued = 1
INVARIANTS
    TypeOK
    EndIsNeverLost
    EndedMeansReleased
    AtMostOneLateMessage
PROPERTIES
    ImplementsLifecycle
    LoopsEnd
    LostServerIsReported
