SPECIFICATION Spec
CONSTANTS
    Others = TRUE
    Events = {"pixels", "size", "format", "cursor", "idle", "ext", "hangup"}
    MaxChanges = 2
    MaxTokens = 2
INVARIANTS TypeOK NoUpdateWhileDisabled ProtocolBalanced
CHECK_DEADLOCK FALSE
