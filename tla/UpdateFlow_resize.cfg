SPECIFICATION Spec
CONSTANTS
    Sizes = {1, 2}
    Depths = {8, 24}
    FirstSize = 1
    FirstDepth = 24
    RequestUpdates = TRUE
    MaxResizes = 2
    MaxDepthChanges = 0
    EndsOfCU = 2
    Overlap = TRUE
INVARIANTS
    TypeOK
    StreamAlive
    FullUpdateComing
    FollowsDesktop
PROPERTIES
    PaintedAgain
CHECK_DEADLOCK FALSE
