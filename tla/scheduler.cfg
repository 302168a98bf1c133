SPECIFICATION Spec
CONSTANTS
    Proc = {p1, p2, p3}
    NoProc = NoProc
    StartupModes <- SwitchStartup
    StartModes <- Modes
    Yields <- AllYields
    ShellCommands <- Gentle
    WatchCommands <- None
SYMMETRY Symmetry
INVARIANTS
    TypeOK
    NoProcessLost
    DeadStayDead
    NoDoubles
PROPERTIES
    ShutdownEndsAll
CHECK_DEADLOCK FALSE
