SPECIFICATION Spec
CONSTANTS
    s0 = s0
    s1 = s1
    s2 = s2
    h1 = h1
    h2 = h2
    p1 = p1
    NoSession = NoSession
    NoBrowser = NoBrowser
    Session = {s0, s1, s2}
    Host = {h1, h2}
    Pid = {p1}
    Scope = {"scope"}
    ScopeOf <- OneScope
    MaxRound = 1
    MaxTry = 2
    Conformance = {}
    Legacy = {s0}
    Faults = {}
SYMMETRY Symmetry
INVARIANTS Recoverable NoOrphanAfterExit ReapedBeforeRetry
PROPERTIES LiveLockKept
CHECK_DEADLOCK FALSE
