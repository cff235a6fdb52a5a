SPECIFICATION Spec
CONSTANTS
    Backends = {"nw", "socket"}
    Lengths = {0, 2}
    Versions <- MCVersions
    Offers <- MCOffers
INVARIANTS
    TypeOK
    InStep
    FailsForAReason
    ConnectedTogether
PROPERTY HandshakeEnds
CHECK_DEADLOCK FALSE
