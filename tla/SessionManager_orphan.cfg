SPECIFICATION SafeSpec
CONSTANTS
    Sessions = {s1, s2}
    Handlers = {h1, h2}
PROPERTY StoppedStaysTerminated
CHECK_DEADLOCK FALSE
