CONSTANTS
    Container <- MCContainer
    Kept <- MCKept
    Probing <- MCProbing
    Kind <- MCKind
    Cookied = {"seed", "verify"}
    Seed = "seed"
    Versions <- None
    Scenarios <- None
    Faulty = {"direct"}
    Causes = {}
SPECIFICATION Spec
INVARIANT PassedLeavesNothing
CHECK_DEADLOCK FALSE
