SPECIFICATION Spec
CONSTANTS
    Sessions = {s1, s2}
    Handlers = {h1, h2}
INVARIANTS
    TypeOK
    ConnectedIsReachable
PROPERTIES
    ShutdownEndsSessions
CHECK_DEADLOCK FALSE
