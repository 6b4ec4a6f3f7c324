SPECIFICATION OneSpec
CONSTANTS
    Task = {"step", "product", "diagnostic"}
    Agent = {"worker", "other"}
    Executor = {"e1", "e2"}
    NoAgent = "nobody"
    StepTask = "step"
    Worker = "worker"
    TaskOf <- MCTaskOf
    Diagnostic = TRUE
    EvidenceReads = 3
    Foreign = {}
CHECK_DEADLOCK FALSE
INVARIANTS
    TypeOK
    PassedIsProven
    PreviewOwnsNothing
    SummaryIsCoherent
    PreviewIsVerified
    FailureIsFinal
PROPERTIES
    StepEnds
    RunEnds
    PromisesKept
