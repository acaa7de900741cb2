SPECIFICATION Spec
CONSTANTS
    Screen <- Row2
    black = black
    white = white
    Pixel <- Pixels
    Moves = {}
    Patches <- Row2Pixels
    Windows = {}
    Events = {"cache", "hold"}
    Grid <- Grid5x3
    Displacements <- Around
SYMMETRY Colours
PROPERTIES AnswerIsCurrent MovedAsOne
CHECK_DEADLOCK FALSE
