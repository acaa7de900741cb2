SPECIFICATION FairSpec
CONSTANTS
    c1 = c1
    c2 = c2
    Clients <- Two
    None = None
    MaxClients = 3
    MaxViewers = 2
    Settings <- OnlyExisting
    Wishes = {"shared", "exclusive"}
PROPERTIES ListenerCloses
CHECK_DEADLOCK FALSE
