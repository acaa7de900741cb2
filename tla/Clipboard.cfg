SPECIFICATION FairSpec
CONSTANTS
    ta = ta
    tb = tb
    tc = tc
    picture = picture
    None = None
    ViewerCopies <- AtViewer
    ServerCopies <- AtServer
    MaxCopies <- OneAndTwo
    MaxCommands = 1
INVARIANTS TypeOK NoPingPong
PROPERTIES ViewerCopyArrives ServerCopyArrives
CHECK_DEADLOCK FALSE
