SPECIFICATION Spec

CONSTANTS
    NumQueries = 1
    MaxQueries = 0
    NumTargets = 2
    ProviderOf <- TwoProviders
    RunsPerQuery = 1
    MaxRunNumber = 1
    MaxBackgroundJobs = 2
    r1 = r1
    r2 = r2
    Slots = {r1, r2}
    DevCalls = {}
    Operations = {"enqueue"}
    Faults = {}
    MaxCrashes = 0

PROPERTIES
    AnswersAreFinal

\* the system stops when nobody calls the API any more
CHECK_DEADLOCK FALSE
