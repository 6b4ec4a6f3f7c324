SPECIFICATION FairSpec
CONSTANTS
    Pages <- MCPages
    Warmup = TRUE
    CrashAttempts = 4
    GotoTries = 3
    CheckTries = 5
CHECK_DEADLOCK FALSE
INVARIANTS
    OneDocument
    MarkersRemoved
PROPERTIES
    CrashIsRetried
    ClicksSpareChallenges
    EveryRunEnds
