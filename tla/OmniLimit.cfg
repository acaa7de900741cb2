SPECIFICATION Spec
CONSTANTS
    Threads = {t1, t2, t3}
    None = None
    MaxTokens = 1
    Kinds = {"waitTimeout"}
INVARIANTS BroadcastEnds
SYMMETRY Alike
CHECK_DEADLOCK FALSE
