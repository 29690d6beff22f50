SPECIFICATION Spec
CONSTANTS
    f1 = f1
    f2 = f2
    p1 = p1
    p2 = p2
    Files = {f1, f2}
    FileText <- TextNone
    Batches = 1
    Procs = {p1, p2}
    Slots <- ParsingSlots
    NoSlot = NoSlot
    Attempts <- TwoAttempts
    MaxStalled = 1
    FaultKinds = {"throw", "lock"}
    MaxFaults = 1
    FaultyProcs = {p2}
    Deletable = {f2}
    DocDeletable = TRUE
    MaxReindex = 0
\* The pipeline of one document comes to rest when all its jobs ended.
CHECK_DEADLOCK FALSE
INVARIANTS
    AvailableWasSentToChunking
    ReadinessPublished
