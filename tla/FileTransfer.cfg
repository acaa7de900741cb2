SPECIFICATION FairSpec
CONSTANTS
    a = a
    b = b
    up1 = up1
    up2 = up2
    down1 = down1
    down2 = down2
    NoFile = NoFile
    Zero = Zero
    Content <- FourFiles
    Uploads <- UploadLists
    Downloads <- DownloadLists
    Leftovers <- OldParts
    Faults = {"create", "withdraw"}
    Permitted = {TRUE, FALSE}
    MaxDeletes = 2
    MaxLists = 2
    Ahead = 0
    Patient = TRUE
INVARIANTS TypeOK FileIntact StreamInSync
PROPERTIES EndOfFileCompletes PartialKept CommandEnds ControlsReturn ListTransferred
CHECK_DEADLOCK FALSE
