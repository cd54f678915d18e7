\* A flush that fails once, under an access TTL.
CONSTANTS
    Creators = {c1}
    Readers = {r1}
    Sizes = {1}
    Lifetimes = {0}
    Caps = {0}
    TTLAccess = 2
    TTLCreate = 0
    EvictBatch = 1
    ReservedSeqs = {2}
    LastSeq = 1
    WriteConcurrency = 0
    WriteQueue = 0
    StartTime = 10
    EndTime = 13
    MaxFaults = 1
SPECIFICATION SpecReads
SYMMETRY Symmetric
PROPERTIES
    LostFlushLosesNoPaste
