SPECIFICATION Spec

CONSTANTS
    NumQueries = 1
    MaxQueries = 0
    NumTargets = 2
    ProviderOf <- TwoProviders
    RunsPerQuery = 1
    MaxRunNumber = 3
    MaxBackgroundJobs = 3
    r1 = r1
    Slots = {r1}
    DevCalls = {}
    Operations = {"enqueue", "retry", "cancel"}
    Faults = {}
    MaxCrashes = 0

INVARIANTS
    CompletedMeansAnswered
    FailedMeansNothingUsable
    PartialMeansUsable

\* the system stops when nobody calls the API any more
CHECK_DEADLOCK FALSE
