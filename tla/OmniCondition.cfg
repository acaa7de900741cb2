SPECIFICATION Spec
CONSTANTS
    Threads = {t1, t2, t3}
    None = None
    MaxTokens = 2
    Kinds = {"wait", "timedwait"}
INVARIANTS ListIntact SemaphoreInStep
PROPERTIES KeepsPromise
CHECK_DEADLOCK FALSE
