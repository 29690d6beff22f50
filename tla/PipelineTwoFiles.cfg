SPECIFICATION Spec
CONSTANTS
    f1 = f1
    f2 = f2
    p1 = p1
    p2 = p2
    Files = {f1, f2}
    FileText <- AllText
    Batches = 1
    Procs = {p1}
    Slots <- OneProcess
    NoSlot = NoSlot
    Attempts <- TwoAttempts
    MaxStalled = 1
    FaultKinds = {}
    MaxFaults = 0
    FaultyProcs = {}
    Deletable = {}
    DocDeletable = FALSE
    MaxReindex = 0
\* The pipeline of one document comes to rest when all its jobs ended.
CHECK_DEADLOCK FALSE
INVARIANT
    EveryFileIsIndexed
