------------------------------ MODULE PasteRows ------------------------------
(***************************************************************************)
(* The table `pastes` of internal/store as a value, and the questions the  *)
(* store's SQL asks of it.  A table is a function from sequence numbers to *)
(* rows; a body is only its size, `bytes`, because nothing the store       *)
(* decides depends on its content.  No operator here changes state.        *)
(***************************************************************************)
EXTENDS Integers, FiniteSets, Functions

NoExpiry == -1                 \* the column expires_at holding NULL

Row == [bytes    : Nat \ {0},  \* LENGTH(body); a zstd frame is never empty
        created  : Nat,
        accessed : Nat,
        expires  : Nat \cup {NoExpiry}]

\* A table: finitely many sequence numbers, a row for each.
IsTable(rows) ==
    /\ IsFiniteSet(DOMAIN rows) /\ DOMAIN rows \subseteq Nat \ {0}
    /\ rows \in [DOMAIN rows -> Row]

EmptyTable == [s \in {} |-> 0]

\* The rows of `rows` with the sequence numbers `gone` deleted.
Without(rows, gone) == Restrict(rows, DOMAIN rows \ gone)

\* `rows` with a row inserted.
With(rows, s, row) == [t \in DOMAIN rows \cup {s} |-> IF t = s THEN row ELSE rows[t]]

-----------------------------------------------------------------------------
(* SELECT SUM(bytes): the number of byte positions the bodies occupy, so that *)
(* a total is the cardinality of a set and deleting rows removes elements.    *)

BytePositions(rows) == UNION {{s} \X (1 .. rows[s].bytes) : s \in DOMAIN rows}

Bytes(rows) == Cardinality(BytePositions(rows))

-----------------------------------------------------------------------------
(* ORDER BY accessed_at, seq.                                              *)

Older(rows, s, t) ==
    \/ rows[s].accessed < rows[t].accessed
    \/ rows[s].accessed = rows[t].accessed /\ s < t

OlderThan(rows, t) == {s \in DOMAIN rows : Older(rows, s, t)}

\* The same with the comparison off by one.
EvictLRUOneMore(rows, limit, need) ==
    {s \in DOMAIN rows :
        /\ Cardinality(OlderThan(rows, s)) < limit
        /\ Bytes(Restrict(rows, OlderThan(rows, s))) <= need}

(* The DELETE of evictLRU: among the `limit` least recently used rows, those *)
(* whose predecessors alone do not cover `need` (running - bytes < need).    *)
EvictLRU(rows, limit, need) ==
    {s \in DOMAIN rows :
        /\ Cardinality(OlderThan(rows, s)) < limit
        /\ Bytes(Restrict(rows, OlderThan(rows, s))) < need}

-----------------------------------------------------------------------------
(* The order in which rows have to leave.                                  *)

\* The rows that leave form a prefix of the least-recently-used order.
IsPrefix(rows, gone) ==
    /\ gone \subseteq DOMAIN rows
    /\ \A s \in gone, t \in DOMAIN rows \ gone :
         \/ rows[s].accessed < rows[t].accessed
         \/ rows[s].accessed = rows[t].accessed /\ s < t

\* Removing `gone` frees `need` bytes, or all there is, and no shorter prefix would.
FreesExactly(rows, gone, need) ==
    /\ IsPrefix(rows, gone)
    /\ gone = DOMAIN rows \/ Bytes(Restrict(rows, gone)) >= need
    /\ \A less \in SUBSET gone :
         IsPrefix(rows, less) /\ less # gone => Bytes(Restrict(rows, less)) < need

-----------------------------------------------------------------------------
(* The filter of Get and Meta, and the WHERE clauses of the sweep.         *)

\* cutoff: the second before which rows are stale; 0 when the TTL is off.
Cutoff(now, ttl) == IF ttl <= 0 THEN 0 ELSE now - ttl

Unexpired(row, now) == row.expires = NoExpiry \/ row.expires > now

Served(row, now, accessCutoff, createCutoff) ==
    /\ Unexpired(row, now)
    /\ accessCutoff = 0 \/ row.accessed > accessCutoff
    /\ createCutoff = 0 \/ row.created > createCutoff

PastLifetime(rows, now) ==
    {s \in DOMAIN rows : rows[s].expires # NoExpiry /\ rows[s].expires <= now}

\* A cutoff exclusive where Get's filter is inclusive.
AccessStaleLate(rows, c) == {s \in DOMAIN rows : c > 0 /\ rows[s].accessed < c}

AccessStale(rows, c) == {s \in DOMAIN rows : c > 0 /\ rows[s].accessed <= c}

CreateStale(rows, c) == {s \in DOMAIN rows : c > 0 /\ rows[s].created <= c}

-----------------------------------------------------------------------------
\* A flush without its guard, one that brings deleted rows back, and one that
\* renews a paste's own lifetime along with its recency.
TouchUnguarded(rows, pending) ==
    [s \in DOMAIN rows |->
        IF s \in DOMAIN pending THEN [rows[s] EXCEPT !.accessed = pending[s]] ELSE rows[s]]

TouchUpserting(rows, pending) ==
    [s \in DOMAIN rows \cup DOMAIN pending |->
        IF s \in DOMAIN rows THEN rows[s]
        ELSE [bytes |-> 0, created |-> 0, accessed |-> pending[s], expires |-> NoExpiry]]

TouchRenewing(rows, pending) ==
    [s \in DOMAIN rows |->
        IF s \in DOMAIN pending /\ rows[s].accessed < pending[s]
        THEN [rows[s] EXCEPT !.accessed = pending[s],
                             !.expires = IF @ = NoExpiry THEN @ ELSE @ + 1]
        ELSE rows[s]]

(* FlushAccess's UPDATE ... SET accessed_at = at WHERE seq = s AND          *)
(* accessed_at < at, for every entry of the queued map `pending`.           *)
Touch(rows, pending) ==
    [s \in DOMAIN rows |->
        IF s \in DOMAIN pending /\ rows[s].accessed < pending[s]
        THEN [rows[s] EXCEPT !.accessed = pending[s]]
        ELSE rows[s]]
=============================================================================
