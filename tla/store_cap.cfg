\* The byte cap and admission: two creates of different sizes, stamped in one order
\* and committed in the other, refused, cancelled or failing anywhere, batches of
\* two rows, a sweeper that expires rows and then evicts, a restart that may lower
\* the cap and find rows gone, and what readers are served at the same instant.
CONSTANTS
    Creators = {c1, c2}
    Readers = {}
    Sizes = {1, 3}
    Lifetimes = {2}
    Caps = {2, 3}
    TTLAccess = 0
    TTLCreate = 0
    EvictBatch = 2
    ReservedSeqs = {2}
    LastSeq = 5
    WriteConcurrency = 2
    WriteQueue = 1
    StartTime = 10
    EndTime = 12
    MaxFaults = 1
SPECIFICATION Spec
SYMMETRY Symmetric
INVARIANTS
    StoredBytesExact
    ConnectionHasALiveOwner
    AdmissionIntact
PROPERTIES
    NeverGrowsPastCap
    CreateEvictsShortestPrefix
    SeqsAreFresh
    ChangesAllAtOnce
