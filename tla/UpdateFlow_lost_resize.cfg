SPECIFICATION SafeSpec
CONSTANTS
    Sizes = {1, 2}
    Depths = {8, 24}
    FirstSize = 1
    FirstDepth = 24
    RequestUpdates = TRUE
    MaxResizes = 1
    MaxDepthChanges = 1
    EndsOfCU = 0
    Overlap = TRUE
INVARIANT FollowsDesktop
CHECK_DEADLOCK FALSE
