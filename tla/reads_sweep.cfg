\* Two readers against the access TTL: what they queued before a sweep counts in
\* it, and the sweep takes what they no longer see, through failed writes and a
\* crash.
CONSTANTS
    Creators = {c1}
    Readers = {r1, r2}
    Sizes = {1}
    Lifetimes = {0}
    Caps = {0}
    TTLAccess = 2
    TTLCreate = 0
    EvictBatch = 1
    ReservedSeqs = {2}
    LastSeq = 1
    WriteConcurrency = 0
    WriteQueue = 0
    StartTime = 10
    EndTime = 12
    MaxFaults = 1
SPECIFICATION SpecReads
SYMMETRY Symmetric
PROPERTIES
    QueuedReadsCount
    SweepMatchesReaders
