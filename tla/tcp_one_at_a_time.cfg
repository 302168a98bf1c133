SPECIFICATION FairSpec
CONSTANTS
    Segments = 4
    WindowSize = 1
    MaxCopies = 2
    MaxAcks = 2
    MaxHeld = 3
    Lossy = TRUE
    Reorders = TRUE
PROPERTIES
    IsLiveStream
