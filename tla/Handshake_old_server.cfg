SPECIFICATION Spec
CONSTANTS
    Backends = {"nw"}
    Lengths = {0, 2}
    Versions <- MCOldVersions
    Offers <- MCNoneOffered
PROPERTY HandshakeEnds
CHECK_DEADLOCK FALSE
