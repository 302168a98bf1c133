SPECIFICATION Spec
CONSTANTS
    Segments = 4
    WindowSize = 3
    MaxCopies = 1
    MaxAcks = 2
    MaxHeld = 2
    Lossy = TRUE
    Reorders = TRUE
INVARIANTS
    InOrder
CHECK_DEADLOCK FALSE
