---------------------------- MODULE AtomicStore ----------------------------
(***************************************************************************)
(* What internal/store is to whoever does not look inside: a table that    *)
(* changes in four ways, each all at once.  No transactions, no queue of   *)
(* access times, no batches, no byte counter and nobody waiting in line.   *)
(***************************************************************************)
EXTENDS PasteRows

CONSTANTS
    Sizes, Lifetimes, Caps,          \* as in PasteStore
    TTLAccess, TTLCreate, ReservedSeqs, LastSeq, StartTime

VARIABLES
    rows,      \* the pastes
    seq,       \* the last sequence number used up
    cap,       \* the cap on their bytes, 0: none
    clock,     \* unix seconds
    faults     \* deaths of the process and failed writes so far

storeState == <<rows, seq, cap, clock, faults>>

\* Moments at which an operation that has an effect now may have taken the time.
Past == StartTime .. clock

\* What `table` and `extra` bytes more exceed the cap by.
Over(table, extra) == IF cap > 0 THEN Bytes(table) + extra - cap ELSE 0

\* `gone` is what leaves `table` to free `need`: nothing when nothing is needed.
MakesRoom(table, gone, need) ==
    IF need > 0 THEN FreesExactly(table, gone, need) ELSE gone = {}

\* A paste appears under the next number that is not reserved, and the least
\* recently used make room for it.
Publish ==
    /\ UNCHANGED <<cap, clock, faults>>
    /\ seq' \in seq + 1 .. LastSeq
    /\ seq' \notin ReservedSeqs /\ seq + 1 .. seq' - 1 \subseteq ReservedSeqs
    /\ \E size \in Sizes, ttl \in Lifetimes, at \in Past, gone \in SUBSET DOMAIN rows :
         /\ cap > 0 => size <= cap
         /\ MakesRoom(rows, gone, Over(rows, size))
         /\ rows' = With(Without(rows, gone), seq',
                         [bytes |-> size, created |-> at, accessed |-> at,
                          expires |-> IF ttl > 0 THEN at + ttl ELSE NoExpiry])

\* Reads of the past become known: some rows turn out more recently used.
Renew ==
    /\ UNCHANGED <<seq, cap, clock, faults>>
    /\ \E known \in SUBSET DOMAIN rows : \E at \in [known -> Past] : rows' = Touch(rows, at)

\* Retention, in order: what outlived itself, what exceeds the cap, what nobody
\* read for long, what is old.
Retain ==
    /\ UNCHANGED <<seq, cap, clock, faults>>
    /\ \E now \in Past :
         LET live == Without(rows, PastLifetime(rows, now))
         IN  \E gone \in SUBSET DOMAIN live :
               /\ MakesRoom(live, gone, Over(live, 0))
               /\ LET left == Without(live, gone)
                  IN  rows' = Without(left, AccessStale(left, Cutoff(now, TTLAccess))
                                              \cup CreateStale(left, Cutoff(now, TTLCreate)))

\* The file is opened again: some rows may be missing, the cap may be another.
Reopen ==
    /\ faults' = faults + 1
    /\ UNCHANGED <<seq, clock>>
    /\ cap' \in Caps
    /\ \E kept \in SUBSET DOMAIN rows : rows' = Restrict(rows, kept)

\* A write that fails changes nothing.
FailWrite ==
    /\ faults' = faults + 1
    /\ UNCHANGED <<rows, seq, cap, clock>>

PassTime ==
    /\ clock' = clock + 1
    /\ UNCHANGED <<rows, seq, cap, faults>>

AtomicInit ==
    /\ rows = EmptyTable /\ seq = 0
    /\ cap \in Caps
    /\ clock = StartTime /\ faults = 0

AtomicNext == Publish \/ Renew \/ Retain \/ Reopen \/ FailWrite \/ PassTime

AtomicSpec == AtomicInit /\ [][AtomicNext]_storeState
=============================================================================
