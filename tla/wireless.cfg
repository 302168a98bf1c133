SPECIFICATION FairSpec
CONSTANTS
    Stations = {a, b}
    Frequencies = {f, g}
    Places <- MCPlaces
    LongestLine = 2
    Near = 2
    MaxStep = 2
    MaxMessages = 1
    MaxEvents = 3
INVARIANTS
    TunedTogether
    HeardOnce
    GoneWasHeard
PROPERTIES
    IsHeard
CHECK_DEADLOCK FALSE
