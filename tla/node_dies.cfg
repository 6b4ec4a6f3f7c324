SPECIFICATION Spec
CONSTANTS
    Pages <- MCPages
    Warmup = TRUE
    CrashAttempts = 2
    GotoTries = 2
    CheckTries = 2
CHECK_DEADLOCK FALSE
INVARIANT ReapedOnEveryExit
