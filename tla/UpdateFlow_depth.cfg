SPECIFICATION Spec
CONSTANTS
    Sizes = {1, 2}
    Depths = {8, 24}
    FirstSize = 1
    FirstDepth = 24
    RequestUpdates = TRUE
    MaxResizes = 0
    MaxDepthChanges = 2
    EndsOfCU = 0
    Overlap = FALSE
PROPERTIES
    LastDepthReachesServer
CHECK_DEADLOCK FALSE
