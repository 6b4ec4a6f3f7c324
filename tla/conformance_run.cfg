CONSTANTS
    Container <- MCContainer
    Kept <- MCKept
    Probing <- MCProbing
    Kind <- MCKind
    Cookied = {"seed", "verify"}
    Seed = "seed"
    Versions <- MCVersions
    Scenarios <- MCScenarios
    Faulty = {"crash", "volume"}
    Causes = {"deadline"}
SPECIFICATION FairSpec
INVARIANTS CleanMeansGone NoLostWakeup EvidenceIsReal PassingReport PassedIsComplete
PROPERTIES RunEnds SessionsInTurn
CHECK_DEADLOCK FALSE
