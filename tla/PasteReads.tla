----------------------------- MODULE PasteReads -----------------------------
(***************************************************************************)
(* PasteStore with a record of what became of the access times that Gets   *)
(* queued, so that a later deletion can be compared with them.             *)
(***************************************************************************)
EXTENDS PasteStore

VARIABLES
    lastSaid,   \* sequence number -> the access time last queued for it
    heldTo,     \* lastSaid when the running sweep swapped the map out
    lost        \* sequence number -> access time dropped with a flush

history == <<lastSaid, heldTo, lost>>
allVars == <<vars, history>>

Put(m, s, t) == [x \in DOMAIN m \cup {s} |-> IF x = s THEN t ELSE m[x]]

\* Later entries of two maps.
Merge(m, n) ==
    [x \in DOMAIN m \cup DOMAIN n |->
        IF x \notin DOMAIN m THEN n[x]
        ELSE IF x \notin DOMAIN n \/ n[x] <= m[x] THEN m[x] ELSE n[x]]

ObserveRecord(r) ==
    /\ RecordGet(r)
    /\ lastSaid' = Put(lastSaid, read[r].seq, read[r].now)
    /\ UNCHANGED <<heldTo, lost>>

ObserveSwap ==
    /\ SwapAccess(TRUE)
    /\ heldTo' = lastSaid
    /\ UNCHANGED <<lastSaid, lost>>

ObserveLoss ==
    \/ /\ FailSweeper
       /\ lost' = Merge(lost, sweeper.pending)
       /\ lastSaid' = Restrict(lastSaid,
            {s \in DOMAIN lastSaid : s \in DOMAIN sweeper.pending => s \in DOMAIN access})
       /\ UNCHANGED heldTo
    \/ /\ Restart
       /\ lost' = Merge(lost, Merge(access, sweeper.pending))
       /\ lastSaid' = EmptyMap /\ heldTo' = EmptyMap

InitReads ==
    /\ Init
    /\ lastSaid = EmptyMap /\ heldTo = EmptyMap /\ lost = EmptyMap

NextReads ==
    \/ \E r \in Readers : ObserveRecord(r)
    \/ ObserveSwap
    \/ ObserveLoss
    \/ /\ \/ \E c \in Creators : CreateStep(c)
          \/ \E r \in Readers : BeginGet(r) \/ QueryGet(r) \/ FailGet(r)
          \/ SwapAccess(FALSE)
          \/ WriteFlush \/ BeginSweep \/ CommitSweep
          \/ EvictStep \/ Tick
       /\ UNCHANGED history

SpecReads == InitReads /\ [][NextReads]_allVars

-----------------------------------------------------------------------------
\* Rules other than the access TTL under which the sweep may take row s: its own
\* lifetime, its age, or the cap when the unexpired rows do not fit.
OtherwiseDue(s) ==
    \/ s \in PastLifetime(db.rows, sweeper.now)
    \/ s \in CreateStale(db.rows, Cutoff(sweeper.now, TTLCreate))
    \/ /\ maxBytes > 0
       /\ Bytes(Without(db.rows, PastLifetime(db.rows, sweeper.now))) > maxBytes

Swept == DOMAIN db.rows \ DOMAIN db'.rows

\* A read queued before the sweep swapped the map out counts in that sweep: the
\* paste is not taken by the access TTL it renewed (store.go:659, flush first).
QueuedReadsCount ==
    [][CommitSweep =>
         \A s \in Swept \cap DOMAIN heldTo :
            heldTo[s] > Cutoff(sweeper.now, TTLAccess) => OtherwiseDue(s)]_allVars

\* "Losing a flush costs recency accuracy for LRU, never data" (store.go:611): no
\* paste is erased that the lost access times would have kept.
LostFlushLosesNoPaste ==
    [][CommitSweep /\ TTLAccess > 0 =>
         \A s \in Swept \cap DOMAIN lost :
            lost[s] > Cutoff(sweeper.now, TTLAccess) => OtherwiseDue(s)]_allVars
=============================================================================
