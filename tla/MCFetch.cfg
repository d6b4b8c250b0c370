SPECIFICATION FairSpec
CONSTANTS
    N = 2
    MaxTime = 1
    Branches = 2
    BatchSize = 1
    PipeSize = 1
    MaxOrphans = 1
    Fault = {"kill", "server", "rename", "lock"}
    None = None
INVARIANTS RefsComplete InStep
PROPERTIES OkIsCurrent FetchEnds
