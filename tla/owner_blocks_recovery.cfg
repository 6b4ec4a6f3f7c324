SPECIFICATION Spec
CONSTANTS
    s1 = s1
    h1 = h1
    p1 = p1
    p2 = p2
    NoSession = NoSession
    NoBrowser = NoBrowser
    Session = {s1}
    Host = {h1}
    Pid = {p1, p2}
    Scope = {"scope"}
    ScopeOf <- OneScope
    MaxRound = 2
    MaxTry = 1
    Conformance = {}
    Legacy = {}
    Faults = {"termination"}
INVARIANTS Recoverable
CHECK_DEADLOCK FALSE
