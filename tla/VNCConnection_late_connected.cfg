SPECIFICATION SafeSpec
CONSTANTS
    Backends = {"nw"}
    OwnerDisconnects = TRUE
    RequestUpdates = FALSE
    MaxQueued = 1
PROPERTY NeverConnectedAfterDisconnected
