SPECIFICATION FairSpec
CONSTANTS
    Switches <- MCSwitches
    Cables <- MCCables
    Ends <- MCEnds
    PathCost <- MCPathCost
    Bid <- MCBid
    SendingInterval = 1
    StableInterval = 3
    RootTimeout = 5
    StabilizingTime = 7
    PortTimeout = 7
    MaxAge = 4
    MaxDistance = 8
    Hosts <- MCHosts
    SwitchOf <- MCSwitchOf
    ItemLifetime = 4
    MaxChanges = 1
    Asker = 11
    Asked = 12
    MaxQuestions = 1
    MaxPending = 2
    Loose = {1}
    Sleepers = {1}
PROPERTIES
    OneRoot
    Converges
    StormsEnd
    QuestionsAnswered
