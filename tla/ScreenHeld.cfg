SPECIFICATION Spec
CONSTANTS
    Screen <- Row2
    black = black
    white = white
    Pixel <- Pixels
    Moves <- Sideways
    Patches <- LeftPixel
    Windows <- Row2Pixels
    Events = {"hold", "resize", "switch"}
    Grid = {}
    Displacements = {}
SYMMETRY Colours
INVARIANTS NoStalePixel CopySourcesCurrent CopySourceOnScreen Inductive
PROPERTIES AnswerIsCurrent
CHECK_DEADLOCK FALSE
