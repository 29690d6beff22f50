\* Two requests whose indexes differ, and one invalidation.
CONSTANTS
    Answers = {"a1", "a2"}
    Indexes = {"en", "pt"}
    Requests = {"r1", "r2"}
    MaxEntries = 1
    Invalidations = {"v1"}
    MaxInvalidations = 2
\* The stream is there and stays quiet.
    p1 = p1
    p2 = p2
    Procs = {p1}
    ConsumerId <- OwnNames
    MaxMessages = 1
    MaxFaults = 0
SPECIFICATION ScenesSpec
INVARIANTS
    InvalidationDeletesAll
\* Requests and invalidations are bounded, so a behaviour may stop.
CHECK_DEADLOCK FALSE
