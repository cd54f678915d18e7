\* Two requests at a time from one address, more creates in a row than its bucket holds
\* and than admission takes, time for a silent bucket to be dropped, for the stats
\* window to pass and for the paste to expire while an answer is being made.
CONSTANTS
    Callers = {c1, c2}
    WriteConcurrency = 1
    WriteQueue = 1
    EndTime = 3
    LockWait = 1
    Addresses = {ip1}
    Burst = 2
    SweepEvery = 2
    IdleTTL = 2
    StatsCacheFor = 2
    Expiries = {3}
    Second = 2
    CacheSeconds = 1
SPECIFICATION ApiFairSpec
INVARIANTS
    StatsAreRecent
    EdgeHonoursExpiry
    WritesBounded
PROPERTIES
    StampsApart
    KeepsItsPromise
    RequestsEnd
