SPECIFICATION Spec
CONSTANTS
    Callers = {c1}
    Keys = {k}
    Buttons = {left}
    Wheels = {up}
    Texts = {a}
    NoText = NoText
    InputEnabled = TRUE
    ClipboardEnabled = TRUE
    Overlap = FALSE
    MaxSteps = 2
    MaxEvents = 2
INVARIANTS
    TypeOK
    NothingStuck
    SilentAfterEnd
PROPERTIES
    ImplementsChannel
    CopiedTextArrives
CHECK_DEADLOCK FALSE
