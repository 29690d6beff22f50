\* The cache is there and stays quiet.
CONSTANTS
    Answers = {"a1"}
    Indexes = {"en"}
    Requests = {"r1"}
    MaxEntries = 1
    Invalidations = {"v1"}
    MaxInvalidations = 0
\* One API process, as in the compose files, and one failure.
    p1 = p1
    p2 = p2
    Procs = {p1}
    ConsumerId <- OwnNames
    MaxMessages = 1
    MaxFaults = 1
SPECIFICATION ScenesSpec
PROPERTIES
    StuckIsRetriedOrClaimed
\* Messages and faults are bounded, so a behaviour may stop.
CHECK_DEADLOCK FALSE
