SPECIFICATION Spec

CONSTANTS
    NumQueries = 1
    MaxQueries = 0
    NumTargets = 2
    ProviderOf <- TwoProviders
    RunsPerQuery = 1
    MaxRunNumber = 2
    MaxBackgroundJobs = 2
    r1 = r1
    Slots = {r1}
    DevCalls = {}
    Operations = {"enqueue", "retry", "cancel"}
    Faults = {"database"}
    MaxCrashes = 1

INVARIANTS
    TypeOK
    OnePipeline
    DerivedDataIsCurrent
    SnapshotNeverOverstates

PROPERTIES
    AnswersAreFinal
    LedgerSpec

\* the system stops when nobody calls the API any more
CHECK_DEADLOCK FALSE
