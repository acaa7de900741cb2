SPECIFICATION FairSpec
CONSTANTS
    ta = ta
    tb = tb
    tc = tc
    picture = picture
    None = None
    ViewerCopies <- AtViewer
    ServerCopies <- AtServer
    MaxCopies <- OneAndTwo
    MaxCommands = 0

PROPERTY CalmCopyArrives
CHECK_DEADLOCK FALSE
