SPECIFICATION FairSpec

CONSTANTS
    NumQueries = 2
    MaxQueries = 1
    NumTargets = 2
    ProviderOf <- TwoProviders
    RunsPerQuery = 1
    MaxRunNumber = 2
    MaxBackgroundJobs = 2
    r1 = r1
    d1 = d1
    Slots = {r1}
    DevCalls = {d1}
    Operations = {"enqueue", "dev", "retry"}
    Faults = {}
    MaxCrashes = 0

PROPERTIES
    PipelinesDrain

\* the system stops when nobody calls the API any more
CHECK_DEADLOCK FALSE
