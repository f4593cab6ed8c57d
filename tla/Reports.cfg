SPECIFICATION FairSpec

CONSTANTS
    Queries = {"q1"}
    Targets = {"t1", "t2"}
    LevelOf <- BothLevels
    ModelOf <- OneModel
    ScdlLevel = "L1"
    Verdicts = {"correct", "unknown"}
    MaxRuns = 2
    Slots = {s1, s2}
    Snapshotters = {pipeline, cancel}

INVARIANTS
    TypeOK
    OneSnapshotPerAudit
    NoCircularWait
    TrendAgreesWithSummary
    MatrixAgreesWithSummary

PROPERTIES
    RerunIsAtomic
    RerunsEnd

CHECK_DEADLOCK FALSE
