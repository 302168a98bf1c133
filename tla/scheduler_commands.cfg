SPECIFICATION FairSpec
CONSTANTS
    Proc = {p1, p2}
    NoProc = NoProc
    StartupModes <- NoStartup
    StartModes <- Modes
    Yields <- Replies
    ShellCommands <- EveryCommand
    WatchCommands <- EveryCommand
INVARIANTS
    OnePlace
PROPERTIES
    TimeoutsServed
CHECK_DEADLOCK FALSE
