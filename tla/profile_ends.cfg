SPECIFICATION FairSpec
CONSTANTS
    s1 = s1
    s2 = s2
    h1 = h1
    p1 = p1
    NoSession = NoSession
    NoBrowser = NoBrowser
    Session = {s1, s2}
    Host = {h1}
    Pid = {p1}
    Scope = {"scope"}
    ScopeOf <- OneScope
    MaxRound = 1
    MaxTry = 2
    Conformance = {s1}
    Legacy = {}
    Faults = {}
INVARIANTS BoundaryIsPreOwner
PROPERTIES EveryCaptureEnds
CHECK_DEADLOCK FALSE
