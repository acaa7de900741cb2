SPECIFICATION FairSpec
CONSTANTS
    Others = FALSE
    Events = {"size", "pixels", "hangup"}
    MaxChanges = 1
    MaxTokens = 2
INVARIANTS RequestKept
PROPERTIES AnsweredLater TakenDown
CHECK_DEADLOCK FALSE
