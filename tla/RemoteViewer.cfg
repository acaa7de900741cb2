SPECIFICATION FairSpec
CONSTANTS
    MaxProcesses = 3
    MaxTurns = 2
    MaxQuits = 1
    MaxQueue = 1
INVARIANTS TypeOK OneViewer NoViewerLeft
PROPERTIES Relinked Unlinked
CHECK_DEADLOCK FALSE
