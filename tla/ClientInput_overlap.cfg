SPECIFICATION SafeSpec
CONSTANTS
    Callers = {c1}
    Keys = {k}
    Buttons = {}
    Wheels = {}
    Texts = {}
    NoText = NoText
    InputEnabled = TRUE
    ClipboardEnabled = FALSE
    Overlap = TRUE
    MaxSteps = 0
    MaxEvents = 2
INVARIANT NothingStuck
CHECK_DEADLOCK FALSE
