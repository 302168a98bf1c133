SPECIFICATION FairSpec
CONSTANTS
    Segments = 4
    WindowSize = 3
    MaxCopies = 2
    MaxAcks = 2
    MaxHeld = 3
    Lossy = FALSE
    Reorders = FALSE
INVARIANTS
    ReleasedWasRead
PROPERTIES
    IsLiveStream
