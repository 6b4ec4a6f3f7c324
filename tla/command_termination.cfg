SPECIFICATION Spec
CONSTANTS
    m1 = m1
    m2 = m2
    m3 = m3
    m4 = m4
    Member = {m1, m2, m3, m4}
    Faults = {"procfs"}
SYMMETRY Symmetry
INVARIANTS SuccessMeansGone ForeignSpared FailureAfterKill
CHECK_DEADLOCK FALSE
