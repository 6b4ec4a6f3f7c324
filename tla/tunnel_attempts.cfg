CONSTANTS
    Container <- MCContainer
    Attempts <- MCAttempts
    Kept = {}
    Probing = {}
    Faulty = {"tunnel2"}
    Transports = {"none", "native", "docker"}
SPECIFICATION FairSpec
INVARIANTS RetryAfterTeardown PassedStopsTunnels
PROPERTY RunEnds
CHECK_DEADLOCK FALSE
