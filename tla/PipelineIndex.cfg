SPECIFICATION Spec
CONSTANTS
    f1 = f1
    f2 = f2
    p1 = p1
    p2 = p2
    Files = {f1}
    FileText <- AllText
    Batches = 2
    Procs = {p1, p2}
    Slots <- IndexSlots
    NoSlot = NoSlot
    Attempts <- TwoAttempts
    MaxStalled = 1
    FaultKinds = {"throw", "crash", "timeout", "lock"}
    MaxFaults = 1
    FaultyProcs = {p2}
    Deletable = {}
    DocDeletable = FALSE
    MaxReindex = 0
\* The pipeline of one document comes to rest when all its jobs ended.
CHECK_DEADLOCK FALSE
INVARIANTS
    TypeOK
    EmbeddedWhenCompleted
    NoWorkIsLost
