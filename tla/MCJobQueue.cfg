SPECIFICATION FairSpec
CONSTANTS
    Callers = {c1, c2}
    Slots = {s1, s2}
    Reclaimers = {s1}
    Projects = {p1}
    Refs = {i1, i2}
    NoRef = NoRef
    NoOne = NoOne
    MaxTxns = 2
    MaxBatch = 2
    MaxActive = 2
    Lease = 1
    MaxRun = 1
    ReclaimEvery = 1
    MaxFaults = 1
    Poison = {i2}
INVARIANTS
    QueueIsSound
    ExclusiveExecution
    AppliedOnce
PROPERTIES
    ImplementsLedger
    AcceptedRunsEnd
