SPECIFICATION FairSpec
CONSTANTS
    m1 = m1
    m2 = m2
    Member = {m1, m2}
    Faults = {"leader", "procfs"}
INVARIANTS ReturnedMeansGone ForeignSpared GivesUpAfterKill
PROPERTIES TerminationIsEffective
CHECK_DEADLOCK FALSE
