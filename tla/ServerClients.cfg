SPECIFICATION FairSpec
CONSTANTS
    c1 = c1
    c2 = c2
    Clients <- Two
    None = None
    MaxClients = 3
    MaxViewers = 1
    Settings <- BothWin
    Wishes = {"shared", "exclusive"}
INVARIANTS TypeOK ListsConsistent ServedHasDesktop NobodyNoDesktop QuitSignalUnused
PROPERTIES ShutdownEnds
CHECK_DEADLOCK FALSE
