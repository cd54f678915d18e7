----------------------------- MODULE PasteStore -----------------------------
(***************************************************************************)
(* internal/store: the pastes table, its two counters, the in-memory map   *)
(* of access times, and the operations that race over them: Create from    *)
(* many requests, Get from many requests, the sweeper goroutine of         *)
(* cmd/haste, and a process that may die and reopen the file.              *)
(*                                                                         *)
(* One writer connection serialises transactions.  A transaction is a      *)
(* private copy of the database, published by its commit; readers see only *)
(* what is published.  Steps inside one transaction are separate where     *)
(* the code loops (eviction) or can fail, since a reader, the clock and    *)
(* admission go on meanwhile.                                              *)
(*                                                                         *)
(* A share code is written as the sequence number it is a permutation of.  *)
(***************************************************************************)
EXTENDS PasteRows

CONSTANTS
    Creators,          \* goroutines that call Create
    Readers,           \* goroutines that call Get
    Sizes,             \* sizes a compressed body can have
    Lifetimes,         \* ttl arguments: 0 for none, or one of TTLOptions
    Caps,              \* values MaxBytes may have, at each start; 0: no cap
    TTLAccess,         \* HASTE_TTL_ACCESS, 0: off
    TTLCreate,         \* HASTE_TTL_CREATE, 0: off
    EvictBatch,        \* rows one eviction statement looks at (64)
    ReservedSeqs,      \* sequence numbers whose code spells a fixed route
    LastSeq,           \* capacity of the code space: Code fails beyond it
    WriteConcurrency,
    WriteQueue,
    StartTime,         \* the unix second of the first start
    EndTime,           \* bound: the clock stops here
    MaxFaults          \* bound: crashes, and failures of the sweeper's writes

NoOne == "no one"
Sweeper == "sweeper"

ASSUME StoreAssumption ==
    /\ IsFiniteSet(Creators) /\ IsFiniteSet(Readers)
    /\ NoOne \notin Creators /\ Sweeper \notin Creators
    /\ Sizes \subseteq Nat \ {0}
    /\ Lifetimes \subseteq Nat
    /\ Caps \subseteq Nat /\ Caps # {}
    /\ TTLAccess \in Nat /\ TTLCreate \in Nat
    /\ EvictBatch \in Nat \ {0}
    /\ LastSeq \in Nat
    /\ WriteConcurrency \in Nat /\ WriteQueue \in Nat
    /\ StartTime \in Nat /\ EndTime \in Nat /\ MaxFaults \in Nat

VARIABLES
    db,        \* what is committed: the rows, paste_seq and stored_bytes
    tx,        \* the transaction on the writer connection
    access,    \* Store.access: sequence number -> time of the last read
    maxBytes,  \* opts.MaxBytes of this process
    create,    \* each Create in progress
    read,      \* each Get in progress
    sweeper,   \* the sweeper goroutine
    place, queued, slots,   \* write admission, see WriteGate
    clock,     \* unix seconds
    faults     \* crashes and failures so far

Gate == INSTANCE WriteGate WITH Callers <- Creators

storeVars == <<db, tx, access, maxBytes, create, read, sweeper, clock, faults>>
gateVars == <<place, queued, slots>>
vars == <<storeVars, gateVars>>

-----------------------------------------------------------------------------
(* Counters and transactions.                                              *)

\* addStoredBytes: UPDATE counters SET value = MAX(0, value + delta).
AddStoredBytes(d, delta) ==
    [d EXCEPT !.stored = IF d.stored + delta < 0 THEN 0 ELSE d.stored + delta]

\* deleteWhere: remove rows and keep the counter in step.
DeleteRows(d, gone) ==
    AddStoredBytes([d EXCEPT !.rows = Without(d.rows, gone)],
                   -Bytes(Restrict(d.rows, gone)))

\* need and freed are the argument and the running result of evict.
NoTx == [owner |-> NoOne, db |-> [rows |-> EmptyTable, seq |-> 0, stored |-> 0],
         need |-> 0, freed |-> 0]

Free == tx.owner = NoOne

\* The new body left out of the reckoning.
ExcessWithoutExtra(d, extra) == IF maxBytes > 0 THEN d.stored - maxBytes ELSE 0

\* storedBytes + extra - MaxBytes, when there is a cap.
Excess(d, extra) == IF maxBytes > 0 THEN d.stored + extra - maxBytes ELSE 0

Doomed == EvictLRU(tx.db.rows, EvictBatch, tx.need - tx.freed)

Evicting == tx.freed < tx.need /\ Doomed # {}

\* Rows evicted and the counter left as it was.
EvictedUncounted == tx.db

\* What is left to commit once evict's loop is over: the counter follows.
Evicted == IF tx.freed > 0 THEN AddStoredBytes(tx.db, -tx.freed) ELSE tx.db

\* One batch of evict's loop, in whichever transaction is open.
EvictStep ==
    /\ ~Free
    /\ Evicting
    /\ tx' = [tx EXCEPT !.db.rows = Without(tx.db.rows, Doomed),
                        !.freed = tx.freed + Bytes(Restrict(tx.db.rows, Doomed))]
    /\ UNCHANGED <<db, access, maxBytes, create, read, sweeper, clock, faults>>
    /\ UNCHANGED gateVars

-----------------------------------------------------------------------------
(* Create.                                                                 *)

NoCreate == [pc |-> "idle", size |-> 0, ttl |-> 0, now |-> 0]

Enter(c) ==
    /\ Gate!Enter(c)
    /\ UNCHANGED storeVars

InLine(c) ==
    /\ Gate!Take(c) \/ Gate!GiveUp(c) \/ Gate!Depart(c)
    /\ UNCHANGED storeVars

(* Compress, refuse what can never fit (ErrNoRoom), and take the time: the *)
(* stamp is taken before the wait for the connection.                      *)
Stamp(c) ==
    /\ place[c] = "writing" /\ create[c].pc = "idle"
    /\ \E size \in Sizes, ttl \in Lifetimes :
         create' = [create EXCEPT ![c] =
            IF maxBytes > 0 /\ size > maxBytes
            THEN [NoCreate EXCEPT !.pc = "return"]
            ELSE [pc |-> "begin", size |-> size, ttl |-> ttl, now |-> clock]]
    /\ UNCHANGED <<db, tx, access, maxBytes, read, sweeper, clock, faults>>
    /\ UNCHANGED gateVars

\* BeginTx on the only connection, then how much the cap needs evicted.
BeginCreate(c) ==
    /\ create[c].pc = "begin"
    /\ Free
    /\ tx' = [owner |-> c, db |-> db, freed |-> 0, need |-> Excess(db, create[c].size)]
    /\ create' = [create EXCEPT ![c].pc = "writing"]
    /\ UNCHANGED <<db, access, maxBytes, read, sweeper, clock, faults>>
    /\ UNCHANGED gateVars

\* UPDATE counters SET value = value + 1 ... RETURNING: the number it yields.
Bumped == tx.db.seq + 1

\* One turn of the loop: the code shadows a fixed route, the number is burnt.
SkipReserved(c) ==
    /\ tx.owner = c
    /\ ~Evicting
    /\ Bumped <= LastSeq /\ Bumped \in ReservedSeqs
    /\ tx' = [tx EXCEPT !.db.seq = Bumped]
    /\ UNCHANGED <<db, access, maxBytes, create, read, sweeper, clock, faults>>
    /\ UNCHANGED gateVars

NewRow(p) == [bytes |-> p.size, created |-> p.now, accessed |-> p.now,
              expires |-> IF p.ttl > 0 THEN p.now + p.ttl ELSE NoExpiry]

\* INSERT INTO pastes, under the number just allocated.
Insert(d, s, row) == [rows |-> With(d.rows, s, row), seq |-> s, stored |-> d.stored]

\* A number whose code is free to use: insert, count the bytes, commit.
CommitCreate(c) ==
    /\ tx.owner = c
    /\ ~Evicting
    /\ Bumped <= LastSeq /\ Bumped \notin ReservedSeqs
    /\ db' = AddStoredBytes(Insert(Evicted, Bumped, NewRow(create[c])), create[c].size)
    /\ tx' = NoTx
    /\ create' = [create EXCEPT ![c].pc = "return"]
    /\ UNCHANGED <<access, maxBytes, read, sweeper, clock, faults>>
    /\ UNCHANGED gateVars

\* An error return without the deferred Rollback.
FailCreateHolding(c) ==
    /\ create[c].pc \in {"begin", "writing"}
    /\ create' = [create EXCEPT ![c].pc = "return"]
    /\ UNCHANGED <<db, tx, access, maxBytes, read, sweeper, clock, faults>>
    /\ UNCHANGED gateVars

\* The request's context ends, a statement fails or the codes run out: the
\* deferred Rollback undoes the eviction and the counter alike.
FailCreate(c) ==
    /\ create[c].pc \in {"begin", "writing"}
    /\ tx' = IF tx.owner = c THEN NoTx ELSE tx
    /\ create' = [create EXCEPT ![c].pc = "return"]
    /\ UNCHANGED <<db, access, maxBytes, read, sweeper, clock, faults>>
    /\ UNCHANGED gateVars

\* Create returns: the deferred releaseWrite.
ReturnCreate(c) ==
    /\ create[c].pc = "return"
    /\ Gate!Release(c)
    /\ create' = [create EXCEPT ![c] = NoCreate]
    /\ UNCHANGED <<db, tx, access, maxBytes, read, sweeper, clock, faults>>

-----------------------------------------------------------------------------
(* Get: the time is taken first, the row is read later, the access is      *)
(* queued after decompression, when other readers may have queued theirs.  *)

NoRead == [pc |-> "idle", seq |-> 0, now |-> 0]

BeginGet(r) ==
    /\ read[r].pc = "idle"
    /\ \E s \in 1 .. LastSeq : read' = [read EXCEPT ![r] = [pc |-> "query", seq |-> s, now |-> clock]]
    /\ UNCHANGED <<db, tx, access, maxBytes, create, sweeper, clock, faults>>
    /\ UNCHANGED gateVars

Found(s, now) ==
    /\ s \in DOMAIN db.rows
    /\ Served(db.rows[s], now, Cutoff(now, TTLAccess), Cutoff(now, TTLCreate))

QueryGet(r) ==
    /\ read[r].pc = "query"
    /\ read' = [read EXCEPT ![r] =
            IF Found(read[r].seq, read[r].now) THEN [read[r] EXCEPT !.pc = "record"] ELSE NoRead]
    /\ UNCHANGED <<db, tx, access, maxBytes, create, sweeper, clock, faults>>
    /\ UNCHANGED gateVars

\* recordAccess, and the paste is returned to the client.
RecordGet(r) ==
    /\ read[r].pc = "record"
    /\ access' = [s \in DOMAIN access \cup {read[r].seq} |->
                    IF s = read[r].seq THEN read[r].now ELSE access[s]]
    /\ read' = [read EXCEPT ![r] = NoRead]
    /\ UNCHANGED <<db, tx, maxBytes, create, sweeper, clock, faults>>
    /\ UNCHANGED gateVars

\* The query or the decompression fails.
FailGet(r) ==
    /\ read[r].pc # "idle"
    /\ read' = [read EXCEPT ![r] = NoRead]
    /\ UNCHANGED <<db, tx, access, maxBytes, create, sweeper, clock, faults>>
    /\ UNCHANGED gateVars

-----------------------------------------------------------------------------
(* The sweeper goroutine: a sweep at start, then sweeps and flushes as the *)
(* two tickers fire.  Its flush holds the swapped-out map in `pending`     *)
(* while it waits for the connection; `sweeping` says whether a sweep      *)
(* called the flush.                                                       *)

EmptyMap == [s \in {} |-> 0]

Asleep == [pc |-> "idle", sweeping |-> FALSE, pending |-> EmptyMap, now |-> 0]

\* A sweep that swaps the map out and does not wait for the write.
SwapAccessUnflushed(sweeping) ==
    /\ sweeper.pc = "idle" \/ (sweeper.pc = "start" /\ sweeping)
    /\ sweeper' = [Asleep EXCEPT !.sweeping = sweeping,
                    !.pc = IF sweeping THEN "sweep" ELSE "idle"]
    /\ access' = EmptyMap
    /\ UNCHANGED <<db, tx, maxBytes, create, read, clock, faults>>
    /\ UNCHANGED gateVars

\* The first half of FlushAccess: swap the map out; nothing queued, no write.
SwapAccess(sweeping) ==
    /\ sweeper.pc = "idle" \/ (sweeper.pc = "start" /\ sweeping)
    /\ sweeper' = [Asleep EXCEPT !.sweeping = sweeping, !.pending = access,
                    !.pc = IF access # EmptyMap THEN "flush" ELSE IF sweeping THEN "sweep" ELSE "idle"]
    /\ access' = EmptyMap
    /\ UNCHANGED <<db, tx, maxBytes, create, read, clock, faults>>
    /\ UNCHANGED gateVars

\* The second half: one transaction writes the swapped-out times back.
WriteFlush ==
    /\ sweeper.pc = "flush"
    /\ Free
    /\ db' = [db EXCEPT !.rows = Touch(db.rows, sweeper.pending)]
    /\ sweeper' = IF sweeper.sweeping THEN [Asleep EXCEPT !.pc = "sweep", !.sweeping = TRUE] ELSE Asleep
    /\ UNCHANGED <<tx, access, maxBytes, create, read, clock, faults>>
    /\ UNCHANGED gateVars

\* A sweep that weighs the cap with the expired rows still in the table.
BeginSweepCapFirst ==
    /\ sweeper.pc = "sweep"
    /\ Free
    /\ LET d == DeleteRows(db, PastLifetime(db.rows, clock))
       IN  tx' = [owner |-> Sweeper, db |-> d, freed |-> 0, need |-> Excess(db, 0)]
    /\ sweeper' = [sweeper EXCEPT !.pc = "deleting", !.now = clock]
    /\ UNCHANGED <<db, access, maxBytes, create, read, clock, faults>>
    /\ UNCHANGED gateVars

\* Begin the sweep's transaction, take the time, delete what outlived its own
\* lifetime, then see how far the rest is over the cap.
BeginSweep ==
    /\ sweeper.pc = "sweep"
    /\ Free
    /\ LET d == DeleteRows(db, PastLifetime(db.rows, clock))
       IN  tx' = [owner |-> Sweeper, db |-> d, freed |-> 0, need |-> Excess(d, 0)]
    /\ sweeper' = [sweeper EXCEPT !.pc = "deleting", !.now = clock]
    /\ UNCHANGED <<db, access, maxBytes, create, read, clock, faults>>
    /\ UNCHANGED gateVars

\* After the cap's evictions: the access TTL, then the creation TTL.
PastTTLs(d, now) ==
    LET a == DeleteRows(d, AccessStale(d.rows, Cutoff(now, TTLAccess)))
    IN  DeleteRows(a, CreateStale(a.rows, Cutoff(now, TTLCreate)))

CommitSweep ==
    /\ tx.owner = Sweeper
    /\ ~Evicting
    /\ db' = PastTTLs(Evicted, sweeper.now)
    /\ tx' = NoTx
    /\ sweeper' = Asleep
    /\ UNCHANGED <<access, maxBytes, create, read, clock, faults>>
    /\ UNCHANGED gateVars

\* A sweeper whose goroutine returns on an error.
FailSweeperStopping ==
    /\ sweeper.pc \in {"flush", "sweep", "deleting"}
    /\ faults < MaxFaults
    /\ faults' = faults + 1
    /\ tx' = IF tx.owner = Sweeper THEN NoTx ELSE tx
    /\ sweeper' = [Asleep EXCEPT !.pc = "stopped"]
    /\ UNCHANGED <<db, access, maxBytes, create, read, clock>>
    /\ UNCHANGED gateVars

\* A write of the sweeper fails: the transaction rolls back, times already
\* swapped out are dropped, and the next tick tries again.
FailSweeper ==
    /\ sweeper.pc \in {"flush", "sweep", "deleting"}
    /\ faults < MaxFaults
    /\ faults' = faults + 1
    /\ tx' = IF tx.owner = Sweeper THEN NoTx ELSE tx
    /\ sweeper' = Asleep
    /\ UNCHANGED <<db, access, maxBytes, create, read, clock>>
    /\ UNCHANGED gateVars

-----------------------------------------------------------------------------
(* Time, and the death of the process.                                     *)

Tick ==
    /\ clock < EndTime
    /\ clock' = clock + 1
    /\ UNCHANGED <<db, tx, access, maxBytes, create, read, sweeper, faults>>
    /\ UNCHANGED gateVars

\* An Open that derives the sequence from the rows it finds.
RestartRecounting ==
    /\ faults < MaxFaults
    /\ faults' = faults + 1
    /\ \E kept \in SUBSET DOMAIN db.rows :
         db' = [rows |-> Restrict(db.rows, kept),
                seq |-> CHOOSE n \in kept \cup {0} : \A s \in kept : s <= n,
                stored |-> Bytes(Restrict(db.rows, kept))]
    /\ maxBytes' \in Caps
    /\ tx' = NoTx
    /\ access' = EmptyMap
    /\ create' = [c \in Creators |-> NoCreate]
    /\ read' = [r \in Readers |-> NoRead]
    /\ sweeper' = [Asleep EXCEPT !.pc = "start"]
    /\ place' = [c \in Creators |-> "out"] /\ queued' = 0 /\ slots' = 0
    /\ UNCHANGED clock

(* The process dies and Open runs on the same file, perhaps under another  *)
(* cap.  Commits survive, everything in memory is gone.  In between        *)
(* somebody may have removed rows from the file by hand (`kept` remain),   *)
(* which is why Open recomputes stored_bytes from the table.               *)
Restart ==
    /\ faults < MaxFaults
    /\ faults' = faults + 1
    /\ \E kept \in SUBSET DOMAIN db.rows :
         db' = [db EXCEPT !.rows = Restrict(db.rows, kept),
                          !.stored = Bytes(Restrict(db.rows, kept))]
    /\ maxBytes' \in Caps
    /\ tx' = NoTx
    /\ access' = EmptyMap
    /\ create' = [c \in Creators |-> NoCreate]
    /\ read' = [r \in Readers |-> NoRead]
    /\ sweeper' = [Asleep EXCEPT !.pc = "start"]
    /\ place' = [c \in Creators |-> "out"] /\ queued' = 0 /\ slots' = 0
    /\ UNCHANGED clock

-----------------------------------------------------------------------------
Init ==
    /\ db = [rows |-> EmptyTable, seq |-> 0, stored |-> 0]
    /\ tx = NoTx
    /\ access = EmptyMap
    /\ maxBytes \in Caps
    /\ create = [c \in Creators |-> NoCreate]
    /\ read = [r \in Readers |-> NoRead]
    /\ sweeper = [Asleep EXCEPT !.pc = "start"]
    /\ Gate!Init
    /\ clock = StartTime
    /\ faults = 0

CreateStep(c) ==
    \/ Enter(c) \/ InLine(c) \/ Stamp(c) \/ BeginCreate(c)
    \/ SkipReserved(c) \/ CommitCreate(c) \/ FailCreate(c) \/ ReturnCreate(c)

GetStep(r) == BeginGet(r) \/ QueryGet(r) \/ RecordGet(r) \/ FailGet(r)

SweeperStep ==
    \/ \E sweeping \in BOOLEAN : SwapAccess(sweeping)
    \/ WriteFlush \/ BeginSweep \/ CommitSweep \/ FailSweeper

Next ==
    \/ \E c \in Creators : CreateStep(c)
    \/ \E r \in Readers : GetStep(r)
    \/ SweeperStep
    \/ EvictStep
    \/ Tick
    \/ Restart

Spec == Init /\ [][Next]_vars

(***************************************************************************)
(* The sweeper's goroutine runs on (weak fairness).  Its select takes a    *)
(* ready ticker at random, and the pool hands the writer connection to a   *)
(* waiting request at random or in turn, so neither passes it over for     *)
(* ever (strong fairness).  Whoever holds the connection goes on to its    *)
(* commit or rollback, and time passes.                                    *)
(***************************************************************************)
Fairness ==
    /\ SF_vars(SwapAccess(TRUE))
    /\ SF_vars(WriteFlush)
    /\ SF_vars(BeginSweep)
    /\ WF_vars(CommitSweep)
    /\ WF_vars(EvictStep)
    /\ \A c \in Creators : WF_vars(SkipReserved(c) \/ CommitCreate(c) \/ (tx.owner = c /\ FailCreate(c)))
    /\ WF_vars(Tick)

FairSpec == Spec /\ Fairness

-----------------------------------------------------------------------------
(* Properties.                                                             *)

IsDatabase(d) ==
    /\ d = [rows |-> d.rows, seq |-> d.seq, stored |-> d.stored]
    /\ IsTable(d.rows)
    /\ d.seq \in Nat
    /\ d.stored \in Nat

IsMap(m) == DOMAIN m \subseteq Nat /\ m \in [DOMAIN m -> Nat]

TxTyped ==
    /\ tx = [owner |-> tx.owner, db |-> tx.db, need |-> tx.need, freed |-> tx.freed]
    /\ tx.owner \in Creators \cup {Sweeper, NoOne}
    /\ IsDatabase(tx.db)
    /\ tx.need \in Int /\ tx.freed \in Nat

RequestsTyped ==
    /\ create \in [Creators -> [pc : {"idle", "begin", "writing", "return"},
                                size : Sizes \cup {0}, ttl : Lifetimes \cup {0}, now : Nat]]
    /\ read \in [Readers -> [pc : {"idle", "query", "record"}, seq : Nat, now : Nat]]

SweeperTyped ==
    /\ sweeper = [pc |-> sweeper.pc, sweeping |-> sweeper.sweeping,
                  pending |-> sweeper.pending, now |-> sweeper.now]
    /\ sweeper.pc \in {"start", "idle", "flush", "sweep", "deleting"}
    /\ sweeper.sweeping \in BOOLEAN
    /\ IsMap(sweeper.pending)
    /\ sweeper.now \in Nat

TypeOK ==
    /\ IsDatabase(db)
    /\ TxTyped
    /\ IsMap(access)
    /\ RequestsTyped
    /\ SweeperTyped
    /\ Gate!TypeOK
    /\ maxBytes \in Caps /\ clock \in Nat /\ faults \in Nat

\* stored_bytes is the total of pastes.bytes whenever anybody can read it: after
\* every commit, rollback, eviction, sweep and restart, and with the clamp at
\* zero never hiding a difference (schema.sql:5-9).
StoredBytesExact == db.stored = Bytes(db.rows)

\* Inside a transaction the counter lags by exactly what evict's loop has freed
\* and not yet taken off.
TxCounterLagsByFreed ==
    tx.owner # NoOne => tx.db.stored = Bytes(tx.db.rows) + tx.freed

\* The cap is a hard guarantee (README-EN.md:291-295): no commit of anybody lets
\* the stored bytes grow beyond it, not even when a restart has lowered it
\* below what the table holds.
NeverGrowsPastCap ==
    [][maxBytes' > 0 /\ Bytes(db'.rows) > Bytes(db.rows) => Bytes(db'.rows) <= maxBytes']_vars

\* What a commit of Create takes out of the table is the shortest prefix of the
\* least-recently-used order that makes room, however many batches the loop took
\* (store.go:771-778: exactly the rows that cover need and not one more).
CreateEvictsShortestPrefix ==
    [][\A c \in Creators : CommitCreate(c) =>
         LET gone == DOMAIN db.rows \ DOMAIN db'.rows
             need == Excess(db, create[c].size)
         IN  IF need > 0 THEN FreesExactly(db.rows, gone, need) ELSE gone = {}]_vars

\* A delayed or reordered flush never drags a row's recency backwards
\* (store.go:629), and nothing else about a committed row ever changes
\* (constraints.sql: pastes are immutable).
RowsAgeForward ==
    [][\A s \in DOMAIN db.rows \cap DOMAIN db'.rows :
         /\ db'.rows[s].accessed >= db.rows[s].accessed
         /\ db'.rows[s] = [db.rows[s] EXCEPT !.accessed = db'.rows[s].accessed]]_vars

\* A sweep removes every row that readers have already stopped seeing, and takes
\* a row they could still see only under the cap, when what is left after the
\* lifetimes does not fit: expired bytes never push a live paste out
\* (store.go:648-655, 668-671).
SweepMatchesReaders ==
    [][CommitSweep =>
         LET now == sweeper.now
             seen == {s \in DOMAIN db.rows :
                        Served(db.rows[s], now, Cutoff(now, TTLAccess), Cutoff(now, TTLCreate))}
             unexpired == DOMAIN db.rows \ PastLifetime(db.rows, now)
         IN  /\ DOMAIN db'.rows \subseteq seen
             /\ \/ seen \subseteq DOMAIN db'.rows
                \/ maxBytes > 0 /\ Bytes(Restrict(db.rows, unexpired)) > maxBytes]_vars

\* A link that Get would answer "not found" never works again, whether it ran out, was
\* evicted or was erased: "a link dies exactly when it was said it would"
\* (store.go:472-475), and no sweep, restart or later create revives it.  One thing may:
\* a link that only the access TTL hid works again when a read from inside its window,
\* queued in memory till then, is written back.
DeadLinksStayDead ==
    [][\A s \in 1 .. db.seq : ~Found(s, clock) /\ Found(s, clock)' =>
         /\ WriteFlush
         /\ s \in DOMAIN db.rows
         /\ Served(db.rows[s], clock, 0, Cutoff(clock, TTLCreate))
         /\ s \in DOMAIN sweeper.pending
         /\ sweeper.pending[s] > Cutoff(clock, TTLAccess)]_vars

\* Seen from outside, the store is a table that changes all at once: whatever the
\* interleaving of requests, flushes, sweeps, batches and failures, every step is
\* one of AtomicStore's or none, and every number used up was published or is
\* reserved.
Atomic == INSTANCE AtomicStore WITH rows <- db.rows, seq <- db.seq, cap <- maxBytes

ChangesAllAtOnce == Atomic!AtomicSpec

\* A sequence number, and with it a code, is never given out twice: not after a
\* rollback, an eviction, a sweep or a crash, and never one that shadows a route.
SeqsAreFresh ==
    [][/\ db'.seq >= db.seq
       /\ \A s \in DOMAIN db'.rows \ DOMAIN db.rows :
            s > db.seq /\ s \notin ReservedSeqs /\ db'.seq >= s]_vars

\* The connection is always held by an operation that is still going to let go:
\* no return path of Create or Sweep leaves a transaction open.
ConnectionHasALiveOwner ==
    /\ \A c \in Creators : tx.owner = c <=> create[c].pc = "writing"
    /\ tx.owner = Sweeper <=> sweeper.pc = "deleting"

\* Whatever way Create ends (no room, a cancelled request, a rollback, a commit),
\* its slot is held exactly while it runs and its place in line is given back, so
\* admission still counts the callers that are really there.
AdmissionIntact ==
    /\ \A c \in Creators : create[c].pc # "idle" => place[c] = "writing"
    /\ Gate!QueuedCountsCallersInside
    /\ Gate!SlotsCountHolders

\* A paste whose lifetime ran out is erased, although creates keep competing for
\* the connection, writes of the sweeper fail and the process dies now and then.
ExpiredAreErased ==
    \A s \in 1 .. LastSeq :
        s \in PastLifetime(db.rows, clock) ~> s \notin DOMAIN db.rows
=============================================================================
