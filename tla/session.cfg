SPECIFICATION FairSpec
CONSTANTS
    Clients = {c1, c2}
    Nobody = Nobody
    Sockets <- MCSockets
    Parts = 1
    MaxLosses = 3
    MaxToggles = 3
INVARIANTS
    DoneHasAll
    SessionsAreReal
    CrashesOnlyWhenClosed
    ListensAgain
PROPERTIES
    SessionsEnd
CHECK_DEADLOCK FALSE
