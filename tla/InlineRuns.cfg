SPECIFICATION Spec

CONSTANTS
    NumQueries = 1
    MaxQueries = 0
    NumTargets = 1
    ProviderOf <- OneProvider
    RunsPerQuery = 1
    MaxRunNumber = 1
    MaxBackgroundJobs = 1
    r1 = r1
    d1 = d1
    Slots = {r1}
    DevCalls = {d1}
    Operations = {"enqueue", "trigger", "cancel", "dev"}
    Faults = {"database", "config"}
    MaxCrashes = 1

INVARIANTS
    RowsAgree
    LivePipelineIsActive
    

\* the system stops when nobody calls the API any more
CHECK_DEADLOCK FALSE
