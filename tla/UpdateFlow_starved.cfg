SPECIFICATION SafeSpec
CONSTANTS
    Sizes = {1, 2}
    Depths = {8, 24}
    FirstSize = 1
    FirstDepth = 24
    RequestUpdates = TRUE
    MaxResizes = 0
    MaxDepthChanges = 0
    EndsOfCU = 1
    Overlap = TRUE
INVARIANT UpdatesKeepComing
CHECK_DEADLOCK FALSE
