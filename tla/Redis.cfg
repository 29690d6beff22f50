\* The cache of one document with two indexes, the cap of an index reached.
CONSTANTS
    Answers = {"a1", "a2"}
    Indexes = {"en", "pt"}
    Requests = {"r1", "r2"}
    MaxEntries = 1
    Invalidations = {"v1", "v2"}
    MaxInvalidations = 3
\* The stream, read by two processes.
    p1 = p1
    p2 = p2
    Procs = {p1, p2}
    ConsumerId <- OwnNames
    MaxMessages = 2
    MaxFaults = 2
SPECIFICATION ScenesSpec
INVARIANTS
    AckedWasEmitted
PROPERTIES
    CacheIsHonest
    OutdatedExpires
    PublishedIsAcked
\* Requests, faults and messages are bounded, so a behaviour may stop.
CHECK_DEADLOCK FALSE
