\* Lifetimes and recency: a reader whose access time may be queued late, flushed late
\* or lost, against evictions and sweeps, and expired pastes that are erased although
\* creates compete for the connection, a write fails once or the process dies once.
CONSTANTS
    Creators = {c1}
    Readers = {r1}
    Sizes = {1}
    Lifetimes = {0, 2}
    Caps = {1}
    TTLAccess = 2
    TTLCreate = 0
    EvictBatch = 1
    ReservedSeqs = {}
    LastSeq = 2
    WriteConcurrency = 0
    WriteQueue = 0
    StartTime = 10
    EndTime = 12
    MaxFaults = 1
SPECIFICATION FairSpec
INVARIANTS
    TypeOK
PROPERTIES
    RowsAgeForward
    DeadLinksStayDead
    ExpiredAreErased
