--------------------------- MODULE Retention_proofs ---------------------------
(***************************************************************************)
(* What leaves the table, for every size of every parameter: a sweep takes *)
(* what readers no longer see, and live rows only under the cap; a create  *)
(* takes the shortest least-recently-used prefix that makes room; a read   *)
(* queued in time counts; and seen from outside, all of it is a table that *)
(* changes at once.  All need the open transaction followed through the    *)
(* eviction loop, beyond the byte counter that StoreInv follows.           *)
(***************************************************************************)
EXTENDS PasteStore_proofs, PasteReads

\* What a sweep keeps before it looks at the cap.
Unswept == DOMAIN db.rows \ PastLifetime(db.rows, sweeper.now)

\* The sweep's transaction holds unexpired rows only: all of them, unless those
\* were more than the cap allows.
SweepBranch ==
    tx.owner = Sweeper =>
        /\ DOMAIN tx.db.rows \subseteq Unswept
        /\ tx.need > 0 => maxBytes > 0 /\ Bytes(Restrict(db.rows, Unswept)) > maxBytes
        /\ DOMAIN tx.db.rows = Unswept \/ tx.need > 0

\* What the open transaction has evicted so far.
Gone == DOMAIN db.rows \ DOMAIN tx.db.rows

\* Removing `gone` was called for: any shorter prefix frees less than `need`.
NotOneMore(rows, gone, need) ==
    /\ IsPrefix(rows, gone)
    /\ \A less \in SUBSET gone :
         IsPrefix(rows, less) /\ less # gone => Bytes(Restrict(rows, less)) < need

\* The create's transaction has evicted a prefix, and no more than was called for.
CreateBranch ==
    tx.owner \in Creators => NotOneMore(db.rows, Gone, tx.need)

RetentionInv == StoreInv /\ SweepBranch /\ CreateBranch

-----------------------------------------------------------------------------
(* Parts of a table, and the order of its rows.                            *)

LEMMA BytesMonotone ==
    ASSUME NEW rows, IsTable(rows), NEW T \in SUBSET DOMAIN rows, NEW S \in SUBSET T
    PROVE  /\ Bytes(Restrict(rows, S)) \in Nat /\ Bytes(Restrict(rows, T)) \in Nat
           /\ Bytes(Restrict(rows, S)) <= Bytes(Restrict(rows, T))
<1>1. IsTable(Restrict(rows, S)) /\ IsTable(Restrict(rows, T)) /\ S \in SUBSET DOMAIN rows
  BY RestrictIsTable
<1>2. Part(Restrict(rows, S), Restrict(rows, T))
  BY DEF Part, Restrict
<1> QED BY <1>1, <1>2, BytesIsNat, PartIsNoBigger

\* The bytes of a larger part are those of the smaller one and of the rest.
LEMMA BytesOfParts ==
    ASSUME NEW rows, IsTable(rows), NEW T \in SUBSET DOMAIN rows, NEW S \in SUBSET T
    PROVE  Bytes(Restrict(rows, T)) = Bytes(Restrict(rows, S)) + Bytes(Restrict(rows, T \ S))
<1> DEFINE all == Restrict(rows, T)
<1>1. IsTable(all) /\ DOMAIN all = T
  BY RestrictIsTable
<1>2. Restrict(all, S) = Restrict(rows, S)
  BY DEF Restrict
<1>3. Without(all, S) = Restrict(rows, T \ S)
  BY DEF Without, Restrict
<1> HIDE DEF all
<1>4. Bytes(all) = Bytes(Without(all, S)) + Bytes(Restrict(all, S))
      /\ Bytes(Without(all, S)) \in Nat /\ Bytes(Restrict(all, S)) \in Nat
  BY <1>1, BytesSplit
<1> QED BY <1>2, <1>3, <1>4 DEF all

LEMMA EmptyPart ==
    ASSUME NEW rows
    PROVE  Bytes(Restrict(rows, {})) = 0
<1>1. BytePositions(Restrict(rows, {})) = {}
  BY DEF BytePositions, Restrict
<1> QED BY <1>1, FS_EmptySet DEF Bytes

LEMMA PartRestricts ==
    ASSUME NEW small, NEW big, Part(small, big), NEW S \in SUBSET DOMAIN small
    PROVE  Restrict(small, S) = Restrict(big, S)
BY DEF Part, Restrict

\* A prefix is a set whose rows are all older than the others.
LEMMA PrefixOlder ==
    ASSUME NEW rows, NEW gone
    PROVE  IsPrefix(rows, gone) <=>
             /\ gone \subseteq DOMAIN rows
             /\ \A s \in gone, t \in DOMAIN rows \ gone : Older(rows, s, t)
BY DEF IsPrefix, Older

LEMMA OlderIsTotal ==
    ASSUME NEW rows, IsTable(rows)
    PROVE  /\ \A s, t \in DOMAIN rows : s # t => Older(rows, s, t) \/ Older(rows, t, s)
           /\ \A s, t \in DOMAIN rows : ~(Older(rows, s, t) /\ Older(rows, t, s))
           /\ \A s, t, u \in DOMAIN rows :
                Older(rows, s, t) /\ Older(rows, t, u) => Older(rows, s, u)
<1>1. \A s \in DOMAIN rows : rows[s].accessed \in Nat /\ s \in Nat
  BY RowFields
<1> QED BY <1>1 DEF Older

\* What is older than a doomed row is doomed.
LEMMA DoomedIsPrefix ==
    ASSUME NEW rows, IsTable(rows), NEW limit \in Nat, NEW need \in Int
    PROVE  IsPrefix(rows, EvictLRU(rows, limit, need))
<1> DEFINE D == EvictLRU(rows, limit, need)
<1>1. ASSUME NEW s \in D, NEW t \in DOMAIN rows, Older(rows, t, s) PROVE t \in D
  <2>1. s \in DOMAIN rows /\ Cardinality(OlderThan(rows, s)) < limit
        /\ Bytes(Restrict(rows, OlderThan(rows, s))) < need
    BY DEF EvictLRU
  <2>2. OlderThan(rows, t) \subseteq OlderThan(rows, s) /\ OlderThan(rows, s) \subseteq DOMAIN rows
    BY <1>1, <2>1, OlderIsTotal DEF OlderThan
  <2>3. /\ Bytes(Restrict(rows, OlderThan(rows, t))) \in Nat
        /\ Bytes(Restrict(rows, OlderThan(rows, s))) \in Nat
        /\ Bytes(Restrict(rows, OlderThan(rows, t))) <= Bytes(Restrict(rows, OlderThan(rows, s)))
    BY <2>2, BytesMonotone
  <2>4. /\ Cardinality(OlderThan(rows, t)) \in Nat /\ Cardinality(OlderThan(rows, s)) \in Nat
        /\ Cardinality(OlderThan(rows, t)) <= Cardinality(OlderThan(rows, s))
    <3>1. IsFiniteSet(OlderThan(rows, s))
      BY <2>2, FS_Subset DEF IsTable
    <3>2. IsFiniteSet(OlderThan(rows, t))
      BY <2>2, <3>1, FS_Subset
    <3> QED BY <2>2, <3>1, <3>2, FS_Subset, FS_CardinalityType
  <2> QED BY <2>1, <2>3, <2>4 DEF EvictLRU
<1>2. D \subseteq DOMAIN rows
  BY DEF EvictLRU
<1> HIDE DEF D
<1>3. \A s \in D, t \in DOMAIN rows \ D : Older(rows, s, t)
  BY <1>1, <1>2, OlderIsTotal
<1> QED BY <1>2, <1>3, PrefixOlder DEF D

\* Of two prefixes one is part of the other.
LEMMA PrefixesNest ==
    ASSUME NEW rows, IsTable(rows), NEW P, NEW Q, IsPrefix(rows, P), IsPrefix(rows, Q)
    PROVE  P \subseteq Q \/ Q \subseteq P
<1>1. SUFFICES ASSUME NEW s \in P \ Q, NEW t \in Q \ P PROVE FALSE
  OBVIOUS
<1>2. s \in DOMAIN rows /\ t \in DOMAIN rows /\ Older(rows, s, t) /\ Older(rows, t, s)
  BY PrefixOlder
<1> QED BY <1>2, OlderIsTotal

-----------------------------------------------------------------------------
(* The eviction loop of a create.                                          *)

\* One batch keeps the promise: it takes a prefix, and its last row was needed.
LEMMA BatchTakesNoMore ==
    ASSUME NEW big, IsTable(big), NEW small, IsTable(small), Part(small, big),
           NEW limit \in Nat, NEW need \in Int, NEW freed \in Nat,
           freed = Bytes(Restrict(big, DOMAIN big \ DOMAIN small)),
           NotOneMore(big, DOMAIN big \ DOMAIN small, need),
           NEW doomed, doomed = EvictLRU(small, limit, need - freed)
    PROVE  NotOneMore(big, DOMAIN big \ DOMAIN Without(small, doomed), need)
<1> DEFINE gone == DOMAIN big \ DOMAIN small
           after == DOMAIN big \ DOMAIN Without(small, doomed)
<1>1. IsPrefix(small, doomed) /\ doomed \subseteq DOMAIN small /\ DOMAIN small \subseteq DOMAIN big
  <2>1. need - freed \in Int
    OBVIOUS
  <2>2. IsPrefix(small, doomed)
    BY <2>1, DoomedIsPrefix
  <2> QED BY <2>2, PrefixOlder DEF Part
<1>2. after = gone \cup doomed /\ gone \cap doomed = {}
  BY <1>1 DEF Without, Restrict
<1>3. \A s, t \in DOMAIN small : Older(small, s, t) <=> Older(big, s, t)
  BY DEF Part, Older
<1>4. IsPrefix(big, gone) /\ IsPrefix(small, doomed)
  BY <1>1 DEF NotOneMore
<1>5. IsPrefix(big, after)
  <2>1. after \subseteq DOMAIN big
    OBVIOUS
  <2>2. ASSUME NEW s \in after, NEW t \in DOMAIN big \ after PROVE Older(big, s, t)
    <3>1. CASE s \in gone
      BY <1>2, <1>4, <2>2, <3>1, PrefixOlder
    <3>2. CASE s \in doomed
      <4>1. t \in DOMAIN small \ doomed /\ s \in DOMAIN small
        BY <1>1, <1>2, <2>2, <3>2
      <4>2. Older(small, s, t)
        BY <1>1, <3>2, <4>1, PrefixOlder
      <4> QED BY <1>3, <4>1, <4>2
    <3> QED BY <1>2, <2>2, <3>1, <3>2
  <2> QED BY <2>1, <2>2, PrefixOlder
<1> HIDE DEF gone, after
<1>6. ASSUME NEW less \in SUBSET after, IsPrefix(big, less), less # after
      PROVE  Bytes(Restrict(big, less)) < need
  <2>1. CASE less \subseteq gone /\ less # gone
    BY <1>6, <2>1 DEF NotOneMore, gone
  <2>2. CASE gone \subseteq less
    <3>1. PICK s \in after : s \notin less
      BY <1>6
    <3>2. s \in doomed /\ s \in DOMAIN small
      BY <1>1, <1>2, <2>2, <3>1
    <3>3. less \ gone \subseteq OlderThan(small, s)
      <4>1. SUFFICES ASSUME NEW t \in less \ gone PROVE t \in OlderThan(small, s)
        OBVIOUS
      <4>2. t \in DOMAIN small
        BY <1>1, <1>2
      <4>3. s \in DOMAIN big \ less
        BY <1>1, <3>1, <3>2
      <4>4. Older(big, t, s)
        BY <1>6, <4>3, PrefixOlder
      <4> QED BY <1>3, <3>2, <4>2, <4>4 DEF OlderThan
    <3>4. OlderThan(small, s) \in SUBSET DOMAIN small
      BY DEF OlderThan
    <3>5. Bytes(Restrict(small, OlderThan(small, s))) < need - freed
      BY <3>2 DEF EvictLRU
    <3>6. /\ Bytes(Restrict(small, less \ gone)) \in Nat
          /\ Bytes(Restrict(small, OlderThan(small, s))) \in Nat
          /\ Bytes(Restrict(small, less \ gone)) <= Bytes(Restrict(small, OlderThan(small, s)))
      BY <3>3, <3>4, BytesMonotone
    <3>7. Restrict(small, less \ gone) = Restrict(big, less \ gone)
      BY <3>3, <3>4, PartRestricts
    <3>8. less \in SUBSET DOMAIN big
      BY <1>6, PrefixOlder
    <3>9. Bytes(Restrict(big, less)) = Bytes(Restrict(big, gone)) + Bytes(Restrict(big, less \ gone))
      BY <2>2, <3>8, BytesOfParts
    <3>10. freed = Bytes(Restrict(big, gone))
      BY DEF gone
    <3> QED BY <3>5, <3>6, <3>7, <3>9, <3>10
  <2> QED BY <1>4, <1>6, <2>1, <2>2, PrefixesNest
<1> QED BY <1>5, <1>6 DEF NotOneMore, after

\* When the loop is over, a prefix no longer than was called for is exactly what
\* makes room.
LEMMA RoomIsMade ==
    ASSUME NEW table, IsTable(table), NEW small, IsTable(small), Part(small, table),
           NEW gone, gone = DOMAIN table \ DOMAIN small,
           NEW need \in Int, NEW freed \in Nat,
           freed = Bytes(Restrict(table, gone)), NotOneMore(table, gone, need),
           ~(freed < need /\ EvictLRU(small, EvictBatch, need - freed) # {})
    PROVE  IF need > 0 THEN FreesExactly(table, gone, need) ELSE gone = {}
<1> USE StoreAssumption
<1>1. ASSUME need > 0 PROVE FreesExactly(table, gone, need)
  <2>1. CASE freed >= need
    BY <2>1 DEF FreesExactly, NotOneMore
  <2>2. CASE freed < need
    <3>1. EvictLRU(small, EvictBatch, need - freed) = {}
      BY <2>2
    <3>2. need - freed \in Int /\ need - freed > 0
      BY <2>2
    <3>3. DOMAIN small = {}
      BY <3>1, <3>2, SomethingToEvict
    <3>4. gone = DOMAIN table
      BY <3>3
    <3> QED BY <3>4 DEF FreesExactly, NotOneMore
  <2> QED BY <2>1, <2>2
<1>2. ASSUME ~(need > 0) PROVE gone = {}
  <2>1. SUFFICES ASSUME gone # {} PROVE FALSE
    OBVIOUS
  <2>2. IsPrefix(table, {})
    BY DEF IsPrefix
  <2>3. Bytes(Restrict(table, {})) < need
    BY <2>1, <2>2 DEF NotOneMore
  <2> QED BY <1>2, <2>3, EmptyPart
<1> QED BY <1>1, <1>2

\* In a create's transaction evict's tally is what the evicted rows took.
LEMMA FreedIsCounted ==
    ASSUME StoreInv, tx.owner \in Creators
    PROVE  /\ IsTable(db.rows) /\ IsTable(tx.db.rows) /\ Part(tx.db.rows, db.rows)
           /\ tx.need \in Int /\ tx.freed \in Nat
           /\ tx.freed = Bytes(Restrict(db.rows, Gone))
<1>1. tx.owner # NoOne
  BY StoreAssumption
<1>2. /\ Consistent(db, 0) /\ Consistent(tx.db, tx.freed) /\ Part(tx.db.rows, db.rows)
      /\ tx.need \in Int /\ tx.freed \in Nat
  BY <1>1 DEF StoreInv, Branch
<1>3. IsTable(db.rows) /\ IsTable(tx.db.rows)
      /\ db.stored = Bytes(db.rows) + 0 /\ tx.db.stored = Bytes(tx.db.rows) + tx.freed
  BY <1>2 DEF Consistent, IsDatabase
<1>4. tx.db.stored = db.stored
  BY DEF StoreInv, CreatesFit
<1>5. Without(db.rows, Gone) = tx.db.rows
  <2>1. DOMAIN db.rows \ Gone = DOMAIN tx.db.rows
    BY <1>2 DEF Gone, Part
  <2>2. Restrict(tx.db.rows, DOMAIN tx.db.rows) = tx.db.rows
    BY <1>3 DEF Restrict, IsTable
  <2> QED BY <1>2, <2>1, <2>2, PartRestricts DEF Without
<1>6. /\ Bytes(Restrict(db.rows, Gone)) \in Nat /\ Bytes(tx.db.rows) \in Nat
      /\ Bytes(db.rows) = Bytes(tx.db.rows) + Bytes(Restrict(db.rows, Gone))
  BY <1>3, <1>5, BytesSplit DEF Gone
<1> QED BY <1>2, <1>3, <1>4, <1>6
-----------------------------------------------------------------------------
(* The invariant.                                                          *)

LEMMA RetentionInit == Init => RetentionInv
<1> SUFFICES ASSUME Init PROVE RetentionInv
  OBVIOUS
<1>1. tx.owner = NoOne /\ NoOne # Sweeper /\ NoOne \notin Creators
  BY StoreAssumption DEF Init, NoTx, NoOne, Sweeper
<1> QED BY <1>1, StoreInit DEF RetentionInv, SweepBranch, CreateBranch

\* What leaves the open transaction, the committed rows and the cap alone.
LEMMA OtherSteps ==
    ASSUME StoreInv, [Next]_vars
    PROVE  \/ \E c \in Creators : BeginCreate(c)
           \/ EvictStep \/ BeginSweep
           \/ tx'.owner = NoOne
           \/ /\ tx'.owner = tx.owner /\ tx'.need = tx.need /\ tx'.freed = tx.freed
              /\ tx'.db.rows = tx.db.rows
              /\ UNCHANGED <<db, maxBytes>>
              /\ tx.owner = Sweeper => sweeper' = sweeper
<1>1. NoTx.owner = NoOne
  BY DEF NoTx
<1>2. tx.owner = Sweeper <=> sweeper.pc = "deleting"
  BY DEF StoreInv, ConnectionHasALiveOwner
<1>3. ASSUME NEW c \in Creators, SkipReserved(c)
      PROVE  /\ tx'.owner = tx.owner /\ tx'.need = tx.need /\ tx'.freed = tx.freed
             /\ tx'.db.rows = tx.db.rows
             /\ UNCHANGED <<db, maxBytes, sweeper>>
  BY <1>3 DEF SkipReserved, StoreInv, Branch, IsDatabase
<1>4. ASSUME NEW c \in Creators, CreateStep(c), ~BeginCreate(c), ~SkipReserved(c)
      PROVE  tx'.owner = NoOne \/ UNCHANGED <<db, tx, maxBytes, sweeper>>
  BY <1>1, <1>4 DEF CreateStep, Enter, InLine, Stamp, CommitCreate, FailCreate, ReturnCreate, storeVars
<1>5. ASSUME NEW r \in Readers, GetStep(r) PROVE UNCHANGED <<db, tx, maxBytes, sweeper>>
  BY <1>5 DEF GetStep, BeginGet, QueryGet, RecordGet, FailGet
<1>6. ASSUME SweeperStep, ~BeginSweep
      PROVE  tx'.owner = NoOne \/ (UNCHANGED <<db, tx, maxBytes>> /\ tx.owner # Sweeper)
  <2>1. CASE \E sweeping \in BOOLEAN : SwapAccess(sweeping)
    BY <1>2, <2>1 DEF SwapAccess
  <2>2. CASE WriteFlush
    BY <2>2 DEF WriteFlush, Free
  <2>3. CASE CommitSweep \/ FailSweeper
    BY <1>1, <2>3 DEF CommitSweep, FailSweeper
  <2> QED BY <1>6, <2>1, <2>2, <2>3 DEF SweeperStep
<1>7. CASE Tick \/ UNCHANGED vars
  BY <1>7 DEF Tick, vars, storeVars
<1>8. CASE Restart
  BY <1>1, <1>8 DEF Restart
<1> QED BY <1>3, <1>4, <1>5, <1>6, <1>7, <1>8 DEF Next

LEMMA CreateBranchStep ==
    ASSUME RetentionInv, [Next]_vars
    PROVE  CreateBranch'
<1> USE StoreAssumption
<1>0. StoreInv /\ CreateBranch
  BY DEF RetentionInv
<1>1. ASSUME NEW c \in Creators, BeginCreate(c) PROVE CreateBranch'
  <2>1. db' = db /\ tx'.db = db
    BY <1>1 DEF BeginCreate
  <2>2. Gone' = {}
    BY <2>1 DEF Gone
  <2>3. NotOneMore(db'.rows, {}, tx'.need)
    BY DEF NotOneMore, IsPrefix
  <2> QED BY <2>2, <2>3 DEF CreateBranch
<1>2. CASE EvictStep
  <2>1. /\ tx' = [tx EXCEPT !.db.rows = Without(tx.db.rows, Doomed),
                             !.freed = tx.freed + Bytes(Restrict(tx.db.rows, Doomed))]
        /\ db' = db
    BY <1>2 DEF EvictStep
  <2>2. tx'.owner = tx.owner /\ tx'.need = tx.need /\ tx'.db.rows = Without(tx.db.rows, Doomed)
    BY <1>0, <2>1 DEF StoreInv, Branch, IsDatabase
  <2>3. ASSUME tx.owner \in Creators PROVE NotOneMore(db.rows, Gone', tx.need)
    <3>1. NotOneMore(db.rows, Gone, tx.need)
      BY <1>0, <2>3 DEF CreateBranch
    <3>2. Doomed = EvictLRU(tx.db.rows, EvictBatch, tx.need - tx.freed) /\ EvictBatch \in Nat
      BY DEF Doomed
    <3>3. Gone' = DOMAIN db.rows \ DOMAIN Without(tx.db.rows, Doomed)
      BY <2>1, <2>2 DEF Gone
    <3> HIDE DEF Gone, Doomed
    <3> QED BY <1>0, <2>3, <3>1, <3>2, <3>3, FreedIsCounted, BatchTakesNoMore DEF Gone
  <2> QED BY <2>1, <2>2, <2>3 DEF CreateBranch
<1>3. CASE BeginSweep \/ tx'.owner = NoOne
  BY <1>3 DEF BeginSweep, CreateBranch
<1>4. ASSUME tx'.owner = tx.owner, tx'.need = tx.need, tx'.db.rows = tx.db.rows, db' = db
      PROVE  CreateBranch'
  BY <1>0, <1>4 DEF CreateBranch, Gone
<1> QED BY <1>0, <1>1, <1>2, <1>3, <1>4, OtherSteps

LEMMA SweepBranchStep ==
    ASSUME RetentionInv, [Next]_vars
    PROVE  SweepBranch'
<1> USE StoreAssumption
<1>0. StoreInv /\ SweepBranch
  BY DEF RetentionInv
<1>1. ASSUME NEW c \in Creators, BeginCreate(c) PROVE SweepBranch'
  BY <1>1 DEF BeginCreate, SweepBranch
<1>2. CASE EvictStep
  <2>1. /\ tx' = [tx EXCEPT !.db.rows = Without(tx.db.rows, Doomed),
                             !.freed = tx.freed + Bytes(Restrict(tx.db.rows, Doomed))]
        /\ UNCHANGED <<db, maxBytes, sweeper>> /\ tx.freed < tx.need
    BY <1>2 DEF EvictStep, Evicting
  <2>2. tx'.owner = tx.owner /\ tx'.need = tx.need /\ tx'.db.rows = Without(tx.db.rows, Doomed)
        /\ tx.freed \in Nat /\ tx.need \in Int
    BY <1>0, <2>1 DEF StoreInv, Branch, IsDatabase
  <2>3. DOMAIN tx'.db.rows \subseteq DOMAIN tx.db.rows /\ tx'.need > 0
    BY <2>1, <2>2 DEF Without, Restrict
  <2>4. Unswept' = Unswept
    BY <2>1 DEF Unswept
  <2> QED BY <1>0, <2>1, <2>2, <2>3, <2>4 DEF SweepBranch
<1>3. CASE BeginSweep
  <2> DEFINE gone == PastLifetime(db.rows, clock)
             d == DeleteRows(db, gone)
  <2>1. /\ tx' = [owner |-> Sweeper, db |-> d, freed |-> 0, need |-> Excess(d, 0)]
        /\ sweeper' = [sweeper EXCEPT !.pc = "deleting", !.now = clock]
        /\ UNCHANGED <<db, maxBytes>>
    BY <1>3 DEF BeginSweep
  <2>2. sweeper'.now = clock
    BY <1>0, <2>1 DEF StoreInv, SweeperTyped
  <2>3. Unswept' = DOMAIN db.rows \ gone
    BY <2>1, <2>2 DEF Unswept
  <2>4. Consistent(db, 0) /\ gone \in SUBSET DOMAIN db.rows
    BY <1>0 DEF StoreInv, Branch, PastLifetime
  <2> HIDE DEF gone
  <2>5. Consistent(d, 0) /\ d.rows = Restrict(db.rows, Unswept')
    BY <2>3, <2>4, DeleteKeepsConsistent DEF Without
  <2> HIDE DEF d
  <2>6. IsTable(d.rows) /\ Bytes(d.rows) \in Nat /\ d.stored = Bytes(d.rows)
    BY <2>5, BytesIsNat DEF Consistent, IsDatabase
  <2>7. tx'.need = IF maxBytes > 0 THEN d.stored + 0 - maxBytes ELSE 0
    BY <2>1 DEF Excess
  <2>8. maxBytes \in Nat
    BY <1>0 DEF StoreInv
  <2>9. tx'.need > 0 => maxBytes > 0 /\ Bytes(d.rows) > maxBytes
    BY <2>6, <2>7, <2>8
  <2>10. DOMAIN tx'.db.rows = Unswept'
    BY <2>1, <2>5 DEF Restrict
  <2>11. tx'.need > 0 => maxBytes' > 0 /\ Bytes(Restrict(db'.rows, Unswept')) > maxBytes'
    BY <2>1, <2>5, <2>9
  <2> QED BY <2>10, <2>11 DEF SweepBranch
<1>4. CASE tx'.owner = NoOne
  BY <1>4 DEF SweepBranch, NoOne, Sweeper
<1>5. ASSUME tx'.owner = tx.owner, tx'.need = tx.need, tx'.db.rows = tx.db.rows,
             UNCHANGED <<db, maxBytes>>, tx.owner = Sweeper => sweeper' = sweeper
      PROVE  SweepBranch'
  BY <1>0, <1>5 DEF SweepBranch, Unswept
<1> QED BY <1>0, <1>1, <1>2, <1>3, <1>4, <1>5, OtherSteps

LEMMA RetentionStep == RetentionInv /\ [Next]_vars => RetentionInv'
  BY StoreStep, SweepBranchStep, CreateBranchStep DEF RetentionInv

LEMMA RetentionInvariant == Spec => []RetentionInv
  BY RetentionInit, RetentionStep, PTL DEF Spec
-----------------------------------------------------------------------------
(* What leaves the table at the end of a create and of a sweep.            *)

\* The create that commits has evicted exactly what it had to.
LEMMA CommitTakesShortestPrefix ==
    ASSUME RetentionInv, NEW c \in Creators, CommitCreate(c)
    PROVE  LET gone == DOMAIN db.rows \ DOMAIN db'.rows
               need == Excess(db, create[c].size)
           IN  IF need > 0 THEN FreesExactly(db.rows, gone, need) ELSE gone = {}
<1> USE StoreAssumption
<1>1. StoreInv /\ CreateBranch /\ tx.owner = c /\ tx.owner \in Creators /\ ~Evicting
  BY DEF RetentionInv, CommitCreate
<1>2. /\ IsTable(db.rows) /\ IsTable(tx.db.rows) /\ Part(tx.db.rows, db.rows)
      /\ tx.need \in Int /\ tx.freed \in Nat
      /\ tx.freed = Bytes(Restrict(db.rows, Gone))
  BY <1>1, FreedIsCounted
<1>3. tx.need = Excess(db, create[c].size)
  BY <1>1 DEF StoreInv, CreatesFit
<1>4. DOMAIN db.rows \ DOMAIN db'.rows = Gone
  <2> DEFINE n == tx.db.seq + 1
  <2>1. Branch(db, tx) /\ tx.owner # NoOne /\ n \notin ReservedSeqs
    BY <1>1 DEF StoreInv, CommitCreate, Bumped
  <2>2. NewRow(create[c]) \in Row /\ NewRow(create[c]).bytes = create[c].size
    BY <1>1, NewRowTyped
  <2>3. db' = AddStoredBytes(Insert(EvictedOf(tx), n, NewRow(create[c])), NewRow(create[c]).bytes)
    BY <2>2 DEF CommitCreate, Bumped, Evicted, EvictedOf
  <2>4. db'.rows = With(tx.db.rows, n, NewRow(create[c]))
    BY <2>1, <2>2, <2>3, CreateCommits
  <2>5. n \notin DOMAIN db.rows
    BY <2>1 DEF Branch, Consistent, IsDatabase, IsTable
  <2> HIDE DEF n
  <2> QED BY <2>4, <2>5 DEF With, Gone
<1>5. NotOneMore(db.rows, Gone, tx.need)
  BY <1>1 DEF CreateBranch
<1>6. ~(tx.freed < tx.need /\ EvictLRU(tx.db.rows, EvictBatch, tx.need - tx.freed) # {})
  BY <1>1 DEF Evicting, Doomed
<1>7. Gone = DOMAIN db.rows \ DOMAIN tx.db.rows
  BY DEF Gone
<1> HIDE DEF Gone
<1>8. IF tx.need > 0 THEN FreesExactly(db.rows, Gone, tx.need) ELSE Gone = {}
  BY <1>2, <1>5, <1>6, <1>7, RoomIsMade
<1> QED BY <1>3, <1>4, <1>8

\* The sweep that commits has removed what readers no longer see.
LEMMA CommitMatchesReaders ==
    ASSUME RetentionInv, CommitSweep
    PROVE  LET now == sweeper.now
               seen == {s \in DOMAIN db.rows :
                          Served(db.rows[s], now, Cutoff(now, TTLAccess), Cutoff(now, TTLCreate))}
               unexpired == DOMAIN db.rows \ PastLifetime(db.rows, now)
           IN  /\ DOMAIN db'.rows \subseteq seen
               /\ \/ seen \subseteq DOMAIN db'.rows
                  \/ maxBytes > 0 /\ Bytes(Restrict(db.rows, unexpired)) > maxBytes
<1> USE StoreAssumption
<1> DEFINE now == sweeper.now
           a == Cutoff(now, TTLAccess)
           k == Cutoff(now, TTLCreate)
           seen == {s \in DOMAIN db.rows : Served(db.rows[s], now, a, k)}
<1>1. StoreInv /\ SweepBranch /\ tx.owner = Sweeper /\ tx.owner # NoOne
  BY DEF RetentionInv, CommitSweep, NoOne, Sweeper
<1>2. Branch(db, tx) /\ IsTable(db.rows) /\ Part(tx.db.rows, db.rows)
  BY <1>1 DEF StoreInv, Branch, Consistent, IsDatabase
<1>3. now \in Nat /\ a \in Int /\ k \in Int
  BY <1>1 DEF StoreInv, SweeperTyped, Cutoff
<1>5. DOMAIN db'.rows = {s \in DOMAIN tx.db.rows :
                            ~(a > 0 /\ db.rows[s].accessed <= a) /\ ~(k > 0 /\ db.rows[s].created <= k)}
  <2> DEFINE d == EvictedOf(tx)
             A == AccessStale(d.rows, a)
             d1 == DeleteRows(d, A)
             B == CreateStale(d1.rows, k)
  <2>1. db' = DeleteRows(d1, B)
    BY DEF CommitSweep, Evicted, EvictedOf, PastTTLs
  <2>2. Consistent(d, 0) /\ d.rows = tx.db.rows
    BY <1>1, <1>2, EvictedIsExact
  <2>3. A \in SUBSET DOMAIN d.rows /\ B \in SUBSET DOMAIN d1.rows
    BY DEF AccessStale, CreateStale
  <2> HIDE DEF d, A, B
  <2>4. Consistent(d1, 0) /\ d1.rows = Without(d.rows, A)
    BY <2>2, <2>3, DeleteKeepsConsistent
  <2> HIDE DEF d1
  <2>5. db'.rows = Without(d1.rows, B)
    BY <2>1, <2>3, <2>4, DeleteKeepsConsistent
  <2>6. DOMAIN db'.rows = DOMAIN d1.rows \ B
    BY <2>5 DEF Without, Restrict
  <2>7. DOMAIN d1.rows = DOMAIN tx.db.rows \ A
        /\ \A s \in DOMAIN d1.rows : d1.rows[s] = db.rows[s]
    BY <1>2, <2>2, <2>4 DEF Without, Restrict, Part
  <2>8. A = {s \in DOMAIN tx.db.rows : a > 0 /\ db.rows[s].accessed <= a}
    BY <1>2, <2>2 DEF A, AccessStale, Part
  <2>9. B = {s \in DOMAIN d1.rows : k > 0 /\ db.rows[s].created <= k}
    BY <2>7 DEF B, CreateStale
  <2> HIDE DEF a, k
  <2> QED BY <2>6, <2>7, <2>8, <2>9
<1>6. ASSUME NEW s \in DOMAIN db.rows
      PROVE  Served(db.rows[s], now, a, k) <=>
               /\ s \in Unswept
               /\ ~(a > 0 /\ db.rows[s].accessed <= a)
               /\ ~(k > 0 /\ db.rows[s].created <= k)
  <2>1. /\ db.rows[s].accessed \in Nat /\ db.rows[s].created \in Nat
        /\ db.rows[s].expires \in Nat \cup {NoExpiry}
    BY <1>2, RowFields DEF Row
  <2>2. s \in Unswept <=> Unexpired(db.rows[s], now)
    BY <1>3, <2>1 DEF Unswept, PastLifetime, Unexpired, NoExpiry
  <2>3. a = 0 \/ db.rows[s].accessed > a <=> ~(a > 0 /\ db.rows[s].accessed <= a)
    BY <1>3, <2>1
  <2>4. k = 0 \/ db.rows[s].created > k <=> ~(k > 0 /\ db.rows[s].created <= k)
    BY <1>3, <2>1
  <2> HIDE DEF a, k
  <2> QED BY <2>2, <2>3, <2>4 DEF Served
<1>7. /\ DOMAIN tx.db.rows \subseteq Unswept /\ Unswept \subseteq DOMAIN db.rows
      /\ tx.need > 0 => maxBytes > 0 /\ Bytes(Restrict(db.rows, Unswept)) > maxBytes
      /\ DOMAIN tx.db.rows = Unswept \/ tx.need > 0
  BY <1>1 DEF SweepBranch, Unswept
<1>8. Unswept = DOMAIN db.rows \ PastLifetime(db.rows, now)
  BY DEF Unswept
<1> HIDE DEF a, k, now
<1>9. DOMAIN db'.rows \subseteq seen
  BY <1>5, <1>6, <1>7
<1>10. DOMAIN tx.db.rows = Unswept => seen \subseteq DOMAIN db'.rows
  BY <1>5, <1>6, <1>7
<1> QED BY <1>7, <1>8, <1>9, <1>10 DEF a, k, now

\* However many batches the loop takes, whatever is read or flushed meanwhile, a
\* create evicts exactly the rows that make room and not one more.
THEOREM EvictionIsMinimal == Spec => CreateEvictsShortestPrefix
<1>1. RetentionInv /\ [Next]_vars =>
        [\A c \in Creators : CommitCreate(c) =>
           LET gone == DOMAIN db.rows \ DOMAIN db'.rows
               need == Excess(db, create[c].size)
           IN  IF need > 0 THEN FreesExactly(db.rows, gone, need) ELSE gone = {}]_vars
  BY CommitTakesShortestPrefix
<1> QED BY <1>1, RetentionInvariant, PTL DEF CreateEvictsShortestPrefix, Spec

\* A sweep agrees with the filter of the readers, and no expired byte pushes a
\* live paste out, for any TTLs, cap and batch.
THEOREM SweepIsFair == Spec => SweepMatchesReaders
<1>1. RetentionInv /\ [Next]_vars =>
        [CommitSweep =>
           LET now == sweeper.now
               seen == {s \in DOMAIN db.rows :
                          Served(db.rows[s], now, Cutoff(now, TTLAccess), Cutoff(now, TTLCreate))}
               unexpired == DOMAIN db.rows \ PastLifetime(db.rows, now)
           IN  /\ DOMAIN db'.rows \subseteq seen
               /\ \/ seen \subseteq DOMAIN db'.rows
                  \/ maxBytes > 0 /\ Bytes(Restrict(db.rows, unexpired)) > maxBytes]_vars
  BY CommitMatchesReaders
<1> QED BY <1>1, RetentionInvariant, PTL DEF SweepMatchesReaders, Spec
-----------------------------------------------------------------------------
(* What readers queued, followed from the map to the flush to the rows.    *)

\* While a time waits for its write it is in one of the maps; after that its row,
\* if there still is one, is at least that recent.
SaidIsKept ==
    \A s \in DOMAIN lastSaid :
        /\ lastSaid[s] \in Nat /\ s \in Nat /\ s <= db.seq
        /\ IF s \in DOMAIN access THEN access[s] = lastSaid[s]
           ELSE IF s \in DOMAIN sweeper.pending THEN sweeper.pending[s] = lastSaid[s]
           ELSE s \in DOMAIN db.rows => db.rows[s].accessed >= lastSaid[s]

\* What was queued before the sweep is in its flush or in the rows, and past the
\* flush in the rows.
HeldIsKept ==
    sweeper.sweeping =>
        \A s \in DOMAIN heldTo :
            /\ heldTo[s] \in Nat /\ s \in Nat /\ s <= db.seq
            /\ IF s \in DOMAIN sweeper.pending THEN sweeper.pending[s] = heldTo[s]
               ELSE s \in DOMAIN db.rows => db.rows[s].accessed >= heldTo[s]

\* Readers know numbers that were given out, and only a flush holds a map.
ReadsKnown ==
    /\ \A r \in Readers : read[r].pc = "record" => read[r].seq <= db.seq
    /\ sweeper.pc # "flush" => sweeper.pending = EmptyMap
    /\ sweeper.pc \in {"sweep", "deleting"} => sweeper.sweeping

ReadsInv == RetentionInv /\ SaidIsKept /\ HeldIsKept /\ ReadsKnown

LEMMA ReadsRefine ==
    ASSUME [NextReads]_allVars
    PROVE  [Next]_vars
BY DEF NextReads, ObserveRecord, ObserveSwap, ObserveLoss, allVars, Next, GetStep, SweeperStep

\* The rows of a number once given out only grow older numbers' recency.
LEMMA RowsKeepUp ==
    ASSUME StoreInv, [Next]_vars, NEW s, NEW t \in Nat, s <= db.seq,
           s \in DOMAIN db.rows => db.rows[s].accessed >= t
    PROVE  s \in DOMAIN db'.rows => db'.rows[s].accessed >= t
<1>1. Lawful(db, tx, db', tx') /\ Branch(db, tx)
  BY BranchStep DEF StoreInv
<1>2. SUFFICES ASSUME s \in DOMAIN db'.rows PROVE db'.rows[s].accessed >= t
  OBVIOUS
<1>3. IsTable(db.rows) /\ IsTable(db'.rows) /\ db.seq \in Nat
  BY <1>1 DEF Lawful, Branch, Consistent, IsDatabase
<1>4. s \in Nat
  BY <1>2, <1>3, RowFields
<1>5. s \in DOMAIN db.rows
  BY <1>1, <1>2, <1>3, <1>4 DEF Lawful, OnlyFresh
<1>6. db'.rows[s].accessed >= db.rows[s].accessed
  BY <1>1, <1>2, <1>5 DEF Lawful, OnlyAges
<1>7. db'.rows[s].accessed \in Nat /\ db.rows[s].accessed \in Nat
  BY <1>2, <1>3, <1>5, RowFields
<1> QED BY <1>5, <1>6, <1>7

LEMMA SeqGrows ==
    ASSUME StoreInv, [Next]_vars
    PROVE  db.seq \in Nat /\ db'.seq \in Nat /\ db'.seq >= db.seq
BY BranchStep DEF Lawful, OnlyFresh, StoreInv, Branch, Consistent, IsDatabase

\* Nothing of what the readers queued moves.
LEMMA MapsAlone ==
    ASSUME ReadsInv, [Next]_vars, UNCHANGED <<access, lastSaid, heldTo>>,
           sweeper'.pending = sweeper.pending, sweeper'.sweeping => sweeper.sweeping
    PROVE  SaidIsKept' /\ HeldIsKept'
<1>1. StoreInv /\ SaidIsKept /\ HeldIsKept
  BY DEF ReadsInv, RetentionInv
<1>2. db.seq \in Nat /\ db'.seq \in Nat /\ db'.seq >= db.seq
  BY <1>1, SeqGrows
<1>3. \A s \in Nat : s <= db.seq => s <= db'.seq
  BY <1>2
<1>4. ASSUME NEW s \in DOMAIN lastSaid'
      PROVE  /\ lastSaid'[s] \in Nat /\ s \in Nat /\ s <= db'.seq
             /\ IF s \in DOMAIN access' THEN access'[s] = lastSaid'[s]
                ELSE IF s \in DOMAIN sweeper'.pending THEN sweeper'.pending[s] = lastSaid'[s]
                ELSE s \in DOMAIN db'.rows => db'.rows[s].accessed >= lastSaid'[s]
  <2>1. /\ lastSaid[s] \in Nat /\ s \in Nat /\ s <= db.seq
        /\ IF s \in DOMAIN access THEN access[s] = lastSaid[s]
           ELSE IF s \in DOMAIN sweeper.pending THEN sweeper.pending[s] = lastSaid[s]
           ELSE s \in DOMAIN db.rows => db.rows[s].accessed >= lastSaid[s]
    BY <1>1 DEF SaidIsKept
  <2> QED BY <1>1, <1>3, <2>1, RowsKeepUp
<1>5. ASSUME sweeper'.sweeping, NEW s \in DOMAIN heldTo'
      PROVE  /\ heldTo'[s] \in Nat /\ s \in Nat /\ s <= db'.seq
             /\ IF s \in DOMAIN sweeper'.pending THEN sweeper'.pending[s] = heldTo'[s]
                ELSE s \in DOMAIN db'.rows => db'.rows[s].accessed >= heldTo'[s]
  <2>1. /\ heldTo[s] \in Nat /\ s \in Nat /\ s <= db.seq
        /\ IF s \in DOMAIN sweeper.pending THEN sweeper.pending[s] = heldTo[s]
           ELSE s \in DOMAIN db.rows => db.rows[s].accessed >= heldTo[s]
    BY <1>1, <1>5 DEF HeldIsKept
  <2> QED BY <1>1, <1>3, <2>1, RowsKeepUp
<1> QED BY <1>4, <1>5 DEF SaidIsKept, HeldIsKept

\* A reader queues its time.
LEMMA ReadsAfterRecord ==
    ASSUME ReadsInv, [Next]_vars, NEW r \in Readers, ObserveRecord(r)
    PROVE  SaidIsKept' /\ HeldIsKept' /\ ReadsKnown'
<1>1. StoreInv /\ SaidIsKept /\ HeldIsKept /\ ReadsKnown /\ RequestsTyped
  BY DEF ReadsInv, RetentionInv, StoreInv
<1>2. read[r].seq \in Nat /\ read[r].now \in Nat /\ read[r].pc = "record" /\ read[r].seq <= db.seq
  BY <1>1 DEF RequestsTyped, ReadsKnown, ObserveRecord, RecordGet
<1>3. /\ UNCHANGED <<db, sweeper, heldTo>>
      /\ access' = Put(access, read[r].seq, read[r].now)
      /\ lastSaid' = Put(lastSaid, read[r].seq, read[r].now)
      /\ read' = [read EXCEPT ![r] = NoRead]
  BY DEF ObserveRecord, RecordGet, Put
<1>4. SaidIsKept'
  BY <1>1, <1>2, <1>3 DEF SaidIsKept, Put
<1>5. HeldIsKept'
  BY <1>1, <1>3 DEF HeldIsKept
<1>6. ReadsKnown'
  BY <1>1, <1>3 DEF ReadsKnown, RequestsTyped, NoRead
<1> QED BY <1>4, <1>5, <1>6

\* The map is swapped out, by a sweep or by a flush of its own.
LEMMA ReadsAfterSwap ==
    ASSUME ReadsInv, [Next]_vars, NEW sweeping \in BOOLEAN, SwapAccess(sweeping),
           lastSaid' = lastSaid, sweeping => heldTo' = lastSaid
    PROVE  SaidIsKept' /\ HeldIsKept' /\ ReadsKnown'
<1>1. StoreInv /\ SaidIsKept /\ ReadsKnown
  BY DEF ReadsInv, RetentionInv
<1>2. /\ UNCHANGED <<db, read>> /\ access' = EmptyMap
      /\ sweeper'.pending = access /\ sweeper'.sweeping = sweeping
      /\ sweeper'.pc = IF access # EmptyMap THEN "flush" ELSE IF sweeping THEN "sweep" ELSE "idle"
      /\ sweeper.pc # "flush"
  BY DEF SwapAccess, Asleep
<1>3. DOMAIN EmptyMap = {} /\ sweeper.pending = EmptyMap
  BY <1>1, <1>2 DEF ReadsKnown, EmptyMap
<1>4. SaidIsKept'
  BY <1>1, <1>2, <1>3 DEF SaidIsKept
<1>5. HeldIsKept'
  BY <1>1, <1>2, <1>3 DEF SaidIsKept, HeldIsKept
<1>6. ReadsKnown'
  BY <1>1, <1>2 DEF ReadsKnown
<1> QED BY <1>4, <1>5, <1>6

\* The flush is written: a row is as recent as the time it was sent.
LEMMA ReadsAfterFlush ==
    ASSUME ReadsInv, [Next]_vars, WriteFlush, UNCHANGED history
    PROVE  SaidIsKept' /\ HeldIsKept' /\ ReadsKnown'
<1>1. StoreInv /\ SaidIsKept /\ HeldIsKept /\ ReadsKnown
  BY DEF ReadsInv, RetentionInv
<1>2. IsTable(db.rows) /\ IsMap(sweeper.pending) /\ db.seq \in Nat
      /\ db = [rows |-> db.rows, seq |-> db.seq, stored |-> db.stored]
  BY <1>1 DEF StoreInv, Branch, Consistent, IsDatabase, SweeperTyped
<1>3. UNCHANGED <<access, read, lastSaid, heldTo>>
  BY DEF WriteFlush, history
<1>4. db'.rows = Touch(db.rows, sweeper.pending) /\ db'.seq = db.seq
  <2>1. db' = [rows |-> Touch(db.rows, sweeper.pending), seq |-> db.seq, stored |-> db.stored]
    BY <1>2 DEF WriteFlush
  <2> QED BY <2>1
<1>5. DOMAIN db'.rows = DOMAIN db.rows
      /\ \A s \in DOMAIN db.rows :
           /\ db'.rows[s].accessed >= db.rows[s].accessed
           /\ s \in DOMAIN sweeper.pending => db'.rows[s].accessed >= sweeper.pending[s]
           /\ db'.rows[s].accessed \in Nat /\ db.rows[s].accessed \in Nat
  <2>1. \A s \in DOMAIN db.rows : db.rows[s] \in Row /\ db.rows[s].accessed \in Nat
    BY <1>2, RowFields
  <2>2. \A s \in DOMAIN sweeper.pending : sweeper.pending[s] \in Nat
    BY <1>2 DEF IsMap
  <2> QED BY <1>4, <2>1, <2>2 DEF Touch, Row
<1>6. /\ sweeper'.pending = EmptyMap /\ sweeper'.sweeping = sweeper.sweeping
      /\ sweeper'.pc = IF sweeper.sweeping THEN "sweep" ELSE "idle"
  <2>1. sweeper.sweeping \in BOOLEAN
    BY <1>1 DEF StoreInv, SweeperTyped
  <2>2. CASE sweeper.sweeping
    <3>1. sweeper' = [pc |-> "sweep", sweeping |-> TRUE, pending |-> EmptyMap, now |-> 0]
      BY <2>2 DEF WriteFlush, Asleep
    <3> QED BY <2>2, <3>1
  <2>3. CASE ~sweeper.sweeping
    BY <2>1, <2>3 DEF WriteFlush, Asleep
  <2> QED BY <2>1, <2>2, <2>3
<1>7. DOMAIN EmptyMap = {}
  BY DEF EmptyMap
<1>8. ASSUME NEW s, NEW t \in Nat,
             IF s \in DOMAIN sweeper.pending THEN sweeper.pending[s] = t
             ELSE s \in DOMAIN db.rows => db.rows[s].accessed >= t
      PROVE  s \in DOMAIN db'.rows => db'.rows[s].accessed >= t
  BY <1>5, <1>8
<1>9. SaidIsKept'
  BY <1>1, <1>3, <1>4, <1>6, <1>7, <1>8 DEF SaidIsKept
<1>10. HeldIsKept'
  BY <1>1, <1>3, <1>4, <1>6, <1>7, <1>8 DEF HeldIsKept
<1>11. ReadsKnown'
  BY <1>1, <1>3, <1>4, <1>6 DEF ReadsKnown
<1> QED BY <1>9, <1>10, <1>11
\* A flush fails, or the process dies: the times it held are no longer owed.
LEMMA ReadsAfterLoss ==
    ASSUME ReadsInv, [Next]_vars, ObserveLoss
    PROVE  SaidIsKept' /\ HeldIsKept' /\ ReadsKnown'
<1>1. StoreInv /\ SaidIsKept /\ ReadsKnown
  BY DEF ReadsInv, RetentionInv
<1>2. DOMAIN EmptyMap = {} /\ Asleep.pending = EmptyMap /\ Asleep.pc = "idle" /\ Asleep.sweeping = FALSE
  BY DEF EmptyMap, Asleep
<1>3. CASE FailSweeper /\ lastSaid' = Restrict(lastSaid,
                 {s \in DOMAIN lastSaid : s \in DOMAIN sweeper.pending => s \in DOMAIN access})
  <2>1. UNCHANGED <<db, access, read>> /\ sweeper' = Asleep
    BY <1>3 DEF FailSweeper
  <2>2. SaidIsKept'
    BY <1>1, <1>2, <1>3, <2>1 DEF SaidIsKept, Restrict
  <2> QED BY <1>1, <1>2, <2>1, <2>2 DEF HeldIsKept, ReadsKnown
<1>4. CASE Restart /\ lastSaid' = EmptyMap /\ heldTo' = EmptyMap
  <2>1. sweeper'.pending = EmptyMap /\ sweeper'.pc = "start" /\ ~sweeper'.sweeping
    BY <1>4 DEF Restart, Asleep
  <2>2. \A r \in Readers : read'[r].pc = "idle"
    BY <1>4 DEF Restart, NoRead
  <2> QED BY <1>2, <1>4, <2>1, <2>2 DEF SaidIsKept, HeldIsKept, ReadsKnown
<1> QED BY <1>3, <1>4 DEF ObserveLoss

LEMMA ReadsStep ==
    ASSUME ReadsInv, [NextReads]_allVars
    PROVE  ReadsInv'
<1>0. StoreInv /\ RetentionInv /\ SaidIsKept /\ HeldIsKept /\ ReadsKnown /\ [Next]_vars
      /\ RequestsTyped /\ SweeperTyped
  BY ReadsRefine DEF ReadsInv, RetentionInv, StoreInv
<1>1. RetentionInv'
  BY <1>0, RetentionStep
<1>a. SUFFICES SaidIsKept' /\ HeldIsKept' /\ ReadsKnown'
  BY <1>1 DEF ReadsInv
<1>2. db.seq \in Nat /\ db'.seq \in Nat /\ db'.seq >= db.seq
  BY <1>0, SeqGrows
<1>3. ASSUME UNCHANGED <<access, read, sweeper, history>>
      PROVE  SaidIsKept' /\ HeldIsKept' /\ ReadsKnown'
  <2>1. SaidIsKept' /\ HeldIsKept'
    BY <1>0, <1>3, MapsAlone DEF history
  <2>2. \A r \in Readers : read[r].seq \in Nat
    BY <1>0 DEF RequestsTyped
  <2>3. ReadsKnown'
    BY <1>0, <1>2, <1>3, <2>2 DEF ReadsKnown
  <2> QED BY <2>1, <2>3
<1>4. ASSUME NEW r \in Readers, BeginGet(r) \/ QueryGet(r) \/ FailGet(r), UNCHANGED history
      PROVE  SaidIsKept' /\ HeldIsKept' /\ ReadsKnown'
  <2>1. UNCHANGED <<db, access, sweeper>>
    BY <1>4 DEF BeginGet, QueryGet, FailGet
  <2>2. SaidIsKept' /\ HeldIsKept'
    BY <1>0, <1>4, <2>1, MapsAlone DEF history
  <2>3. ASSUME NEW k \in Readers, read'[k].pc = "record" PROVE read'[k].seq <= db.seq
    <3>1. CASE read'[k] = read[k]
      BY <1>0, <2>3, <3>1 DEF ReadsKnown
    <3>2. CASE BeginGet(r) /\ k = r
      BY <1>0, <2>3, <3>2 DEF BeginGet, RequestsTyped
    <3>3. CASE FailGet(r) /\ k = r
      BY <1>0, <2>3, <3>3 DEF FailGet, RequestsTyped, NoRead
    <3>4. CASE QueryGet(r) /\ k = r
      <4>1. Found(read[r].seq, read[r].now) /\ read'[r].seq = read[r].seq
        BY <1>0, <2>3, <3>4 DEF QueryGet, RequestsTyped, NoRead
      <4> QED BY <1>0, <3>4, <4>1 DEF Found, StoreInv, Branch, Consistent
    <3>5. k # r => read'[k] = read[k]
      BY <1>0, <1>4 DEF BeginGet, QueryGet, FailGet, RequestsTyped
    <3> QED BY <1>4, <3>1, <3>2, <3>3, <3>4, <3>5
  <2>4. ReadsKnown'
    BY <1>0, <2>1, <2>3 DEF ReadsKnown
  <2> QED BY <2>2, <2>4
<1>5. CASE BeginSweep /\ UNCHANGED history
  <2>1. /\ UNCHANGED <<db, access, read>> /\ sweeper.pc = "sweep"
        /\ sweeper'.pending = sweeper.pending /\ sweeper'.sweeping = sweeper.sweeping
        /\ sweeper'.pc = "deleting"
    BY <1>0, <1>5 DEF BeginSweep, SweeperTyped
  <2>2. SaidIsKept' /\ HeldIsKept'
    BY <1>0, <1>5, <2>1, MapsAlone DEF history
  <2> QED BY <1>0, <2>1, <2>2 DEF ReadsKnown
<1>6. CASE CommitSweep /\ UNCHANGED history
  <2>1. sweeper.pc = "deleting"
    BY <1>0, <1>6 DEF CommitSweep, StoreInv, ConnectionHasALiveOwner
  <2>2. /\ UNCHANGED <<access, read>>
        /\ sweeper'.pending = sweeper.pending /\ ~sweeper'.sweeping /\ sweeper'.pc = "idle"
        /\ sweeper'.pending = EmptyMap
    BY <1>0, <1>6, <2>1 DEF CommitSweep, Asleep, ReadsKnown
  <2>3. SaidIsKept' /\ HeldIsKept'
    BY <1>0, <1>6, <2>2, MapsAlone DEF history
  <2>4. \A r \in Readers : read[r].seq \in Nat
    BY <1>0 DEF RequestsTyped
  <2> QED BY <1>0, <1>2, <2>2, <2>3, <2>4 DEF ReadsKnown
<1>7. ASSUME NEW c \in Creators, CreateStep(c), UNCHANGED history
      PROVE  UNCHANGED <<access, read, sweeper, history>>
  BY <1>7 DEF CreateStep, Enter, InLine, Stamp, BeginCreate, SkipReserved, CommitCreate, FailCreate,
              ReturnCreate, storeVars
<1>8. CASE UNCHANGED allVars
  BY <1>3, <1>8 DEF allVars, vars, storeVars
<1>9. CASE (EvictStep \/ Tick) /\ UNCHANGED history
  BY <1>3, <1>9 DEF EvictStep, Tick
<1>10. CASE (\E r \in Readers : ObserveRecord(r)) \/ ObserveLoss
  BY <1>0, <1>10, ReadsAfterRecord, ReadsAfterLoss DEF ReadsInv
<1>11. CASE ObserveSwap \/ (SwapAccess(FALSE) /\ UNCHANGED history)
  BY <1>0, <1>11, ReadsAfterSwap DEF ReadsInv, ObserveSwap, history
<1>12. CASE WriteFlush /\ UNCHANGED history
  BY <1>0, <1>12, ReadsAfterFlush DEF ReadsInv
<1> QED BY <1>3, <1>4, <1>5, <1>6, <1>7, <1>8, <1>9, <1>10, <1>11, <1>12 DEF NextReads

LEMMA ReadsInit == InitReads => ReadsInv
<1> SUFFICES ASSUME InitReads PROVE ReadsInv
  OBVIOUS
<1>1. RetentionInv
  BY RetentionInit DEF InitReads
<1>2. DOMAIN EmptyMap = {} /\ lastSaid = EmptyMap
  BY DEF EmptyMap, InitReads
<1>3. sweeper.pending = EmptyMap /\ sweeper.pc = "start" /\ ~sweeper.sweeping
  BY DEF InitReads, Init, Asleep
<1>4. \A r \in Readers : read[r].pc = "idle"
  BY DEF InitReads, Init, NoRead
<1> QED BY <1>1, <1>2, <1>3, <1>4 DEF ReadsInv, SaidIsKept, HeldIsKept, ReadsKnown

\* The sweep that commits spares what the access TTL alone would have taken from
\* under a queued read.
LEMMA CommitSparesReads ==
    ASSUME ReadsInv, CommitSweep
    PROVE  \A s \in Swept \cap DOMAIN heldTo :
              heldTo[s] > Cutoff(sweeper.now, TTLAccess) => OtherwiseDue(s)
<1> USE StoreAssumption
<1> DEFINE now == sweeper.now
           a == Cutoff(now, TTLAccess)
           k == Cutoff(now, TTLCreate)
           late == Bytes(Without(db.rows, PastLifetime(db.rows, now)))
<1>1. SUFFICES ASSUME NEW s \in Swept \cap DOMAIN heldTo, heldTo[s] > a
               PROVE  OtherwiseDue(s)
  OBVIOUS
<1>2. StoreInv /\ RetentionInv /\ HeldIsKept /\ ReadsKnown /\ sweeper.pc = "deleting"
  BY DEF ReadsInv, RetentionInv, CommitSweep, StoreInv, ConnectionHasALiveOwner
<1>3. sweeper.sweeping /\ DOMAIN sweeper.pending = {}
  BY <1>2 DEF ReadsKnown, EmptyMap
<1>4. s \in DOMAIN db.rows /\ s \notin DOMAIN db'.rows
  BY <1>1 DEF Swept
<1>5. heldTo[s] \in Nat /\ db.rows[s].accessed >= heldTo[s]
  BY <1>1, <1>2, <1>3, <1>4 DEF HeldIsKept
<1>6. /\ db.rows[s].accessed \in Nat /\ db.rows[s].created \in Nat
      /\ db.rows[s].expires \in Nat \cup {NoExpiry}
  BY <1>2, <1>4, RowFields DEF StoreInv, Branch, Consistent, IsDatabase, Row
<1>7. now \in Nat /\ a \in Int /\ k \in Int
  BY <1>2 DEF StoreInv, SweeperTyped, Cutoff
<1>8. \/ ~Served(db.rows[s], now, a, k)
      \/ maxBytes > 0 /\ late > maxBytes
  BY <1>2, <1>4, CommitMatchesReaders DEF Without
<1> HIDE DEF now, a, k, late
<1>9. CASE ~Unexpired(db.rows[s], now)
  <2>1. s \in PastLifetime(db.rows, now)
    BY <1>4, <1>6, <1>7, <1>9 DEF Unexpired, PastLifetime
  <2> QED BY <2>1 DEF OtherwiseDue, now
<1>10. a = 0 \/ db.rows[s].accessed > a
  BY <1>1, <1>5, <1>6, <1>7
<1>11. CASE ~(k = 0 \/ db.rows[s].created > k)
  <2>1. k > 0 /\ db.rows[s].created <= k
    BY <1>6, <1>7, <1>11
  <2>2. s \in CreateStale(db.rows, k)
    BY <1>4, <2>1 DEF CreateStale
  <2> QED BY <2>2 DEF OtherwiseDue, k, now
<1>12. CASE maxBytes > 0 /\ late > maxBytes
  BY <1>12 DEF OtherwiseDue, late, now
<1> QED BY <1>8, <1>9, <1>10, <1>11, <1>12 DEF Served

\* A read queued before the sweep swapped the map out renews the paste in that
\* sweep, for any number of readers, in whatever order they queue and flush.
THEOREM QueuedReadsAreCounted == SpecReads => QueuedReadsCount
<1>1. ReadsInv /\ [NextReads]_allVars =>
        [CommitSweep =>
           \A s \in Swept \cap DOMAIN heldTo :
              heldTo[s] > Cutoff(sweeper.now, TTLAccess) => OtherwiseDue(s)]_allVars
  BY CommitSparesReads
<1> QED BY <1>1, ReadsInit, ReadsStep, PTL DEF SpecReads, QueuedReadsCount
-----------------------------------------------------------------------------
(* The store as a table that changes all at once: what an open transaction *)
(* and the times in flight must look like for that.                        *)

\* What a sweep has left before it looks at the cap, and what the cap took of it.
Live == Restrict(db.rows, Unswept)

Evictees == Unswept \ DOMAIN tx.db.rows

\* The sweep's loop, like the create's, takes a prefix of what lifetimes left, and
\* no more than was called for.
SweepCount ==
    tx.owner = Sweeper =>
        /\ tx.need = IF maxBytes > 0 THEN Bytes(Live) - maxBytes ELSE 0
        /\ tx.freed = Bytes(Restrict(Live, Evictees))
        /\ NotOneMore(Live, Evictees, tx.need)

\* Only reserved numbers are passed over, and only by a create.
BurntAreReserved ==
    /\ tx.owner \in Creators => \A n \in db.seq + 1 .. tx.db.seq : n \in ReservedSeqs
    /\ tx.owner = Sweeper => tx.db.seq = db.seq

\* The time anybody goes by was taken earlier.
Past == StartTime .. clock

TimesArePast ==
    /\ clock >= StartTime
    /\ \A c \in Creators :
         create[c].pc \in {"begin", "writing"} => create[c].now \in Past /\ create[c].ttl \in Lifetimes
    /\ \A r \in Readers : read[r].pc # "idle" => read[r].now \in Past
    /\ \A s \in DOMAIN access : access[s] \in Past
    /\ \A s \in DOMAIN sweeper.pending : sweeper.pending[s] \in Past
    /\ sweeper.pc = "deleting" => sweeper.now \in Past

AtomicInv == RetentionInv /\ SweepCount /\ BurntAreReserved /\ TimesArePast

\* In a sweep's transaction, what is left is a part of what lifetimes left.
LEMMA SweepLeavesPart ==
    ASSUME RetentionInv, tx.owner = Sweeper
    PROVE  /\ IsTable(Live) /\ DOMAIN Live = Unswept /\ IsTable(tx.db.rows)
           /\ Part(tx.db.rows, Live) /\ Live = Without(db.rows, PastLifetime(db.rows, sweeper.now))
           /\ tx.need \in Int /\ tx.freed \in Nat
<1>1. tx.owner # NoOne
  BY DEF NoOne, Sweeper
<1>2. /\ IsTable(db.rows) /\ IsTable(tx.db.rows) /\ Part(tx.db.rows, db.rows)
      /\ tx.need \in Int /\ tx.freed \in Nat
      /\ DOMAIN tx.db.rows \subseteq Unswept
  BY <1>1 DEF RetentionInv, StoreInv, Branch, Consistent, IsDatabase, SweepBranch
<1>3. Unswept \in SUBSET DOMAIN db.rows
  BY DEF Unswept
<1>4. IsTable(Live) /\ DOMAIN Live = Unswept
  BY <1>2, <1>3, RestrictIsTable DEF Live
<1>5. Part(tx.db.rows, Live)
  BY <1>2, <1>3 DEF Part, Live, Restrict
<1>6. Live = Without(db.rows, PastLifetime(db.rows, sweeper.now))
  BY DEF Live, Unswept, Without
<1> QED BY <1>2, <1>4, <1>5, <1>6

LEMMA SweepCountStep ==
    ASSUME RetentionInv, SweepCount, [Next]_vars
    PROVE  SweepCount'
<1> USE StoreAssumption
<1>0. StoreInv /\ SweepBranch
  BY DEF RetentionInv
<1>1. ASSUME NEW c \in Creators, BeginCreate(c) PROVE SweepCount'
  BY <1>1 DEF BeginCreate, SweepCount
<1>2. CASE EvictStep
  <2>1. SUFFICES ASSUME tx'.owner = Sweeper
                 PROVE  /\ tx'.need = IF maxBytes' > 0 THEN Bytes(Live') - maxBytes' ELSE 0
                        /\ tx'.freed = Bytes(Restrict(Live', Evictees'))
                        /\ NotOneMore(Live', Evictees', tx'.need)
    BY DEF SweepCount
  <2>2. /\ tx' = [tx EXCEPT !.db.rows = Without(tx.db.rows, Doomed),
                             !.freed = tx.freed + Bytes(Restrict(tx.db.rows, Doomed))]
        /\ UNCHANGED <<db, maxBytes, sweeper>>
    BY <1>2 DEF EvictStep
  <2>3. /\ tx'.owner = tx.owner /\ tx'.need = tx.need
        /\ tx'.db.rows = Without(tx.db.rows, Doomed)
        /\ tx'.freed = tx.freed + Bytes(Restrict(tx.db.rows, Doomed))
    BY <1>0, <2>2 DEF StoreInv, Branch, IsDatabase
  <2>4. Unswept' = Unswept /\ Live' = Live
    BY <2>2 DEF Unswept, Live
  <2>5. /\ tx.need = IF maxBytes > 0 THEN Bytes(Live) - maxBytes ELSE 0
        /\ tx.freed = Bytes(Restrict(Live, Evictees))
        /\ NotOneMore(Live, Evictees, tx.need)
    BY <2>1, <2>3 DEF SweepCount
  <2>6. /\ IsTable(Live) /\ DOMAIN Live = Unswept /\ IsTable(tx.db.rows)
        /\ Part(tx.db.rows, Live) /\ tx.need \in Int /\ tx.freed \in Nat
    BY <2>1, <2>3, SweepLeavesPart
  <2>7. Doomed = EvictLRU(tx.db.rows, EvictBatch, tx.need - tx.freed) /\ EvictBatch \in Nat
        /\ Doomed \in SUBSET DOMAIN tx.db.rows
    BY DEF Doomed, EvictLRU
  <2>8. Evictees = DOMAIN Live \ DOMAIN tx.db.rows
        /\ Evictees' = DOMAIN Live \ DOMAIN Without(tx.db.rows, Doomed)
    BY <2>3, <2>4, <2>6 DEF Evictees
  <2> HIDE DEF Doomed, Evictees, Live
  <2>9. NotOneMore(Live, Evictees', tx.need)
    BY <2>5, <2>6, <2>7, <2>8, BatchTakesNoMore
  <2>10. tx'.freed = Bytes(Restrict(Live, Evictees'))
    <3>1. DOMAIN tx.db.rows \subseteq DOMAIN Live
      BY <2>6 DEF Part
    <3>2. DOMAIN Without(tx.db.rows, Doomed) = DOMAIN tx.db.rows \ Doomed
      BY DEF Without, Restrict
    <3>3. /\ Evictees' \in SUBSET DOMAIN Live /\ Evictees \in SUBSET Evictees'
          /\ Evictees' \ Evictees = Doomed
      BY <2>7, <2>8, <3>1, <3>2
    <3>4. Restrict(tx.db.rows, Doomed) = Restrict(Live, Doomed)
      BY <2>6, <2>7, PartRestricts
    <3>5. Bytes(Restrict(Live, Evictees')) = Bytes(Restrict(Live, Evictees)) + Bytes(Restrict(Live, Doomed))
      BY <2>6, <3>3, BytesOfParts
    <3> QED BY <2>3, <2>5, <3>4, <3>5
  <2> QED BY <2>2, <2>3, <2>4, <2>5, <2>9, <2>10
<1>3. CASE BeginSweep
  <2> DEFINE gone == PastLifetime(db.rows, clock)
             d == DeleteRows(db, gone)
  <2>1. /\ tx' = [owner |-> Sweeper, db |-> d, freed |-> 0, need |-> Excess(d, 0)]
        /\ sweeper' = [sweeper EXCEPT !.pc = "deleting", !.now = clock]
        /\ UNCHANGED <<db, maxBytes>>
    BY <1>3 DEF BeginSweep
  <2>2. sweeper'.now = clock
    BY <1>0, <2>1 DEF StoreInv, SweeperTyped
  <2>3. Unswept' = DOMAIN db.rows \ gone
    BY <2>1, <2>2 DEF Unswept
  <2>4. Consistent(db, 0) /\ gone \in SUBSET DOMAIN db.rows
    BY <1>0 DEF StoreInv, Branch, PastLifetime
  <2> HIDE DEF gone
  <2>5. Consistent(d, 0) /\ d.rows = Restrict(db.rows, Unswept')
    BY <2>3, <2>4, DeleteKeepsConsistent DEF Without
  <2>6. Live' = d.rows /\ Evictees' = {}
    BY <2>1, <2>5 DEF Live, Evictees, Restrict
  <2> HIDE DEF d
  <2>7. Bytes(d.rows) \in Nat /\ d.stored = Bytes(d.rows) /\ maxBytes \in Nat
    BY <1>0, <2>5, BytesIsNat DEF Consistent, IsDatabase, StoreInv
  <2>8. tx'.need = IF maxBytes > 0 THEN d.stored + 0 - maxBytes ELSE 0
    BY <2>1 DEF Excess
  <2>9. tx'.need = IF maxBytes' > 0 THEN Bytes(Live') - maxBytes' ELSE 0
    BY <2>1, <2>6, <2>7, <2>8
  <2>10. tx'.freed = Bytes(Restrict(Live', Evictees'))
    BY <2>1, <2>6, EmptyPart
  <2>11. NotOneMore(Live', Evictees', tx'.need)
    BY <2>6 DEF NotOneMore, IsPrefix
  <2> QED BY <2>9, <2>10, <2>11 DEF SweepCount
<1>4. CASE tx'.owner = NoOne
  BY <1>4 DEF SweepCount, NoOne, Sweeper
<1>5. ASSUME tx'.owner = tx.owner, tx'.need = tx.need, tx'.freed = tx.freed,
             tx'.db.rows = tx.db.rows,
             UNCHANGED <<db, maxBytes>>, tx.owner = Sweeper => sweeper' = sweeper
      PROVE  SweepCount'
  BY <1>5 DEF SweepCount, Unswept, Live, Evictees
<1> QED BY <1>0, <1>1, <1>2, <1>3, <1>4, <1>5, OtherSteps

LEMMA BurntStep ==
    ASSUME StoreInv, BurntAreReserved, [Next]_vars
    PROVE  BurntAreReserved'
<1> USE StoreAssumption
<1>0. /\ NoTx.owner = NoOne /\ NoOne \notin Creators /\ NoOne # Sweeper
      /\ db.seq \in Nat /\ tx.db.seq \in Nat
      /\ tx = [owner |-> tx.owner, db |-> tx.db, need |-> tx.need, freed |-> tx.freed]
      /\ tx.db = [rows |-> tx.db.rows, seq |-> tx.db.seq, stored |-> tx.db.stored]
  BY DEF NoTx, NoOne, Sweeper, StoreInv, Branch, Consistent, IsDatabase
<1>1. CASE UNCHANGED <<db, tx>>
  BY <1>1 DEF BurntAreReserved
<1>2. CASE tx' = NoTx
  BY <1>0, <1>2 DEF BurntAreReserved
<1>3. ASSUME NEW c \in Creators, BeginCreate(c) PROVE BurntAreReserved'
  <2>1. tx'.owner = c /\ tx'.db = db /\ db' = db
    BY <1>3 DEF BeginCreate
  <2> QED BY <1>0, <2>1 DEF BurntAreReserved
<1>4. ASSUME NEW c \in Creators, SkipReserved(c) PROVE BurntAreReserved'
  <2>1. /\ tx.owner = c /\ tx'.owner = c /\ tx'.db.seq = tx.db.seq + 1 /\ db' = db
        /\ tx.db.seq + 1 \in ReservedSeqs
    BY <1>0, <1>4 DEF SkipReserved, Bumped
  <2> QED BY <1>0, <2>1 DEF BurntAreReserved
<1>5. CASE EvictStep
  <2>1. tx'.owner = tx.owner /\ tx'.db.seq = tx.db.seq /\ db' = db
    BY <1>0, <1>5 DEF EvictStep
  <2> QED BY <2>1 DEF BurntAreReserved
<1>6. CASE BeginSweep
  <2> DEFINE gone == PastLifetime(db.rows, clock)
  <2>1. tx'.owner = Sweeper /\ tx'.db = DeleteRows(db, gone) /\ db' = db
    BY <1>6 DEF BeginSweep
  <2>2. Consistent(db, 0) /\ gone \in SUBSET DOMAIN db.rows
    BY DEF StoreInv, Branch, PastLifetime
  <2> HIDE DEF gone
  <2>3. DeleteRows(db, gone).seq = db.seq
    BY <2>2, DeleteKeepsConsistent
  <2> QED BY <2>1, <2>3 DEF BurntAreReserved
<1>7. CASE WriteFlush
  <2>1. tx.owner = NoOne /\ tx' = tx
    BY <1>7 DEF WriteFlush, Free
  <2> QED BY <1>0, <2>1 DEF BurntAreReserved
<1>8. ASSUME NEW c \in Creators, CreateStep(c) PROVE BurntAreReserved'
  <2>1. CASE Enter(c) \/ InLine(c) \/ Stamp(c) \/ ReturnCreate(c)
    BY <1>1, <2>1 DEF Enter, InLine, Stamp, ReturnCreate, storeVars
  <2>2. CASE CommitCreate(c)
    BY <1>2, <2>2 DEF CommitCreate
  <2>3. CASE FailCreate(c)
    BY <1>1, <1>2, <2>3 DEF FailCreate
  <2> QED BY <1>3, <1>4, <1>8, <2>1, <2>2, <2>3 DEF CreateStep
<1>9. ASSUME NEW r \in Readers, GetStep(r) PROVE BurntAreReserved'
  BY <1>1, <1>9 DEF GetStep, BeginGet, QueryGet, RecordGet, FailGet
<1>10. CASE SweeperStep
  <2>1. CASE \E sweeping \in BOOLEAN : SwapAccess(sweeping)
    BY <1>1, <2>1 DEF SwapAccess
  <2>2. CASE CommitSweep
    BY <1>2, <2>2 DEF CommitSweep
  <2>3. CASE FailSweeper
    BY <1>1, <1>2, <2>3 DEF FailSweeper
  <2> QED BY <1>6, <1>7, <1>10, <2>1, <2>2, <2>3 DEF SweeperStep
<1>11. CASE Tick \/ UNCHANGED vars
  BY <1>1, <1>11 DEF Tick, vars, storeVars
<1>12. CASE Restart
  BY <1>2, <1>12 DEF Restart
<1> QED BY <1>5, <1>8, <1>9, <1>10, <1>11, <1>12 DEF Next

LEMMA TimesStep ==
    ASSUME StoreInv, TimesArePast, [Next]_vars
    PROVE  TimesArePast'
<1> USE StoreAssumption
<1>0. /\ clock \in Nat /\ StartTime \in Nat /\ clock >= StartTime /\ clock \in Past
      /\ RequestsTyped /\ SweeperTyped /\ ConnectionHasALiveOwner
  BY DEF StoreInv, TimesArePast, Past
<1>a. DOMAIN EmptyMap = {} /\ Asleep.pending = EmptyMap /\ Asleep.pc = "idle"
      /\ NoCreate.pc = "idle" /\ NoRead.pc = "idle"
  BY DEF EmptyMap, Asleep, NoCreate, NoRead
<1>1. ASSUME UNCHANGED <<create, read, access, sweeper, clock>> PROVE TimesArePast'
  BY <1>1 DEF TimesArePast, Past
<1>3. ASSUME NEW r \in Readers, \A k \in Readers \ {r} : read'[k] = read[k],
             read'[r].pc # "idle" => read'[r].now \in Past,
             \A s \in DOMAIN access' : access'[s] \in Past,
             UNCHANGED <<create, sweeper, clock>>
      PROVE  TimesArePast'
  BY <1>3 DEF TimesArePast, Past
<1>4. ASSUME UNCHANGED <<create, read, clock>>,
             \A s \in DOMAIN access' : access'[s] \in Past,
             \A s \in DOMAIN sweeper'.pending : sweeper'.pending[s] \in Past,
             sweeper'.pc = "deleting" => sweeper'.now \in Past
      PROVE  TimesArePast'
  BY <1>4 DEF TimesArePast, Past
<1>5. ASSUME NEW c \in Creators, CreateStep(c) PROVE TimesArePast'
  <2>1. CASE Enter(c) \/ InLine(c)
    BY <1>1, <2>1 DEF Enter, InLine, storeVars
  <2>2. CASE Stamp(c)
    <3>1. PICK size \in Sizes, ttl \in Lifetimes :
            create' = [create EXCEPT ![c] =
               IF maxBytes > 0 /\ size > maxBytes
               THEN [NoCreate EXCEPT !.pc = "return"]
               ELSE [pc |-> "begin", size |-> size, ttl |-> ttl, now |-> clock]]
      BY <2>2 DEF Stamp
    <3>2. create'[c].pc \in {"begin", "writing"} =>
            create'[c].now = clock /\ create'[c].ttl = ttl
      BY <1>0, <3>1 DEF RequestsTyped, NoCreate
    <3> QED BY <1>0, <2>2, <3>1, <3>2 DEF Stamp, TimesArePast, Past, RequestsTyped
  <2>3. CASE BeginCreate(c) \/ CommitCreate(c) \/ FailCreate(c)
    <3>1. /\ UNCHANGED <<read, access, sweeper, clock>>
          /\ create' = [create EXCEPT ![c].pc = create'[c].pc]
          /\ create[c].pc \in {"begin", "writing"}
      BY <1>0, <2>3 DEF BeginCreate, CommitCreate, FailCreate, ConnectionHasALiveOwner, RequestsTyped
    <3>2. create'[c].now = create[c].now /\ create'[c].ttl = create[c].ttl
      BY <1>0, <3>1 DEF RequestsTyped
    <3>3. create[c].now \in Past /\ create[c].ttl \in Lifetimes
      BY <3>1 DEF TimesArePast
    <3>4. \A k \in Creators \ {c} : create'[k] = create[k]
      BY <1>0, <3>1 DEF RequestsTyped
    <3> QED BY <3>1, <3>2, <3>3, <3>4 DEF TimesArePast, Past
  <2>4. CASE SkipReserved(c)
    BY <1>1, <2>4 DEF SkipReserved
  <2>5. CASE ReturnCreate(c)
    <3>1. create' = [create EXCEPT ![c] = NoCreate] /\ UNCHANGED <<read, access, sweeper, clock>>
      BY <2>5 DEF ReturnCreate
    <3>2. create'[c].pc = "idle" /\ \A k \in Creators \ {c} : create'[k] = create[k]
      BY <1>0, <1>a, <3>1 DEF RequestsTyped
    <3> QED BY <3>1, <3>2 DEF TimesArePast, Past
  <2> QED BY <1>5, <2>1, <2>2, <2>3, <2>4, <2>5 DEF CreateStep
<1>6. ASSUME NEW r \in Readers, GetStep(r) PROVE TimesArePast'
  <2>1. UNCHANGED <<create, sweeper, clock>> /\ \A k \in Readers \ {r} : read'[k] = read[k]
    BY <1>0, <1>6 DEF GetStep, BeginGet, QueryGet, RecordGet, FailGet, RequestsTyped
  <2>2. read'[r].pc # "idle" => read'[r].now \in Past
    <3>1. CASE BeginGet(r)
      BY <1>0, <3>1 DEF BeginGet, RequestsTyped
    <3>2. CASE QueryGet(r)
      BY <1>0, <1>a, <3>2 DEF QueryGet, RequestsTyped, TimesArePast
    <3>3. CASE RecordGet(r) \/ FailGet(r)
      BY <1>0, <1>a, <3>3 DEF RecordGet, FailGet, RequestsTyped
    <3> QED BY <1>6, <3>1, <3>2, <3>3 DEF GetStep
  <2>3. \A s \in DOMAIN access' : access'[s] \in Past
    <3>1. CASE RecordGet(r)
      <4>1. read[r].now \in Past
        BY <3>1 DEF RecordGet, TimesArePast
      <4> QED BY <3>1, <4>1 DEF RecordGet, TimesArePast
    <3>2. CASE UNCHANGED access
      BY <3>2 DEF TimesArePast
    <3> QED BY <1>6, <3>1, <3>2 DEF GetStep, BeginGet, QueryGet, FailGet
  <2> QED BY <1>3, <2>1, <2>2, <2>3
<1>7. CASE SweeperStep
  <2>1. ASSUME NEW sweeping \in BOOLEAN, SwapAccess(sweeping) PROVE TimesArePast'
    <3>1. /\ UNCHANGED <<create, read, clock>> /\ access' = EmptyMap
          /\ sweeper'.pending = access /\ sweeper'.pc # "deleting"
      BY <2>1 DEF SwapAccess, Asleep
    <3> QED BY <1>4, <1>a, <3>1 DEF TimesArePast
  <2>2. CASE WriteFlush
    <3>1. UNCHANGED <<create, read, clock, access>>
          /\ sweeper'.pending = EmptyMap /\ sweeper'.pc # "deleting"
      BY <2>2 DEF WriteFlush, Asleep
    <3> QED BY <1>4, <1>a, <3>1 DEF TimesArePast
  <2>3. CASE BeginSweep
    <3>1. UNCHANGED <<create, read, clock, access>>
          /\ sweeper'.pending = sweeper.pending /\ sweeper'.now = clock
      BY <1>0, <2>3 DEF BeginSweep, SweeperTyped
    <3> QED BY <1>0, <1>4, <3>1 DEF TimesArePast
  <2>4. CASE CommitSweep \/ FailSweeper
    <3>1. UNCHANGED <<create, read, clock, access>> /\ sweeper' = Asleep
      BY <2>4 DEF CommitSweep, FailSweeper
    <3> QED BY <1>4, <1>a, <3>1 DEF TimesArePast
  <2> QED BY <1>7, <2>1, <2>2, <2>3, <2>4 DEF SweeperStep
<1>8. CASE Tick
  <2>1. UNCHANGED <<create, read, access, sweeper>> /\ clock' = clock + 1
    BY <1>8 DEF Tick
  <2>2. \A t \in Past : t \in Past'
    BY <1>0, <2>1 DEF Past
  <2>3. clock' >= StartTime
    BY <1>0, <2>1
  <2> QED BY <2>1, <2>2, <2>3 DEF TimesArePast
<1>9. CASE EvictStep \/ UNCHANGED vars
  BY <1>1, <1>9 DEF EvictStep, vars, storeVars
<1>10. CASE Restart
  <2>1. /\ clock' = clock /\ access' = EmptyMap
        /\ sweeper'.pending = EmptyMap /\ sweeper'.pc = "start"
        /\ \A c \in Creators : create'[c].pc = "idle"
        /\ \A r \in Readers : read'[r].pc = "idle"
    BY <1>10, <1>a DEF Restart, Asleep
  <2> QED BY <1>0, <1>a, <2>1 DEF TimesArePast
<1> QED BY <1>5, <1>6, <1>7, <1>8, <1>9, <1>10 DEF Next

LEMMA AtomicInit == Init => AtomicInv
<1> SUFFICES ASSUME Init PROVE AtomicInv
  OBVIOUS
<1> USE StoreAssumption
<1>1. tx.owner = NoOne /\ NoOne # Sweeper /\ NoOne \notin Creators
  BY DEF Init, NoTx, NoOne, Sweeper
<1>2. SweepCount /\ BurntAreReserved
  BY <1>1 DEF SweepCount, BurntAreReserved
<1>3. /\ clock = StartTime /\ DOMAIN access = {} /\ DOMAIN sweeper.pending = {} /\ sweeper.pc = "start"
      /\ \A c \in Creators : create[c].pc = "idle"
      /\ \A r \in Readers : read[r].pc = "idle"
  BY DEF Init, EmptyMap, Asleep, NoCreate, NoRead
<1>4. TimesArePast
  BY <1>3 DEF TimesArePast
<1> QED BY <1>2, <1>4, RetentionInit DEF AtomicInv

LEMMA AtomicStep == AtomicInv /\ [Next]_vars => AtomicInv'
  BY RetentionStep, SweepCountStep, BurntStep, TimesStep DEF AtomicInv, RetentionInv

-----------------------------------------------------------------------------
(* The refinement, step by step.                                           *)

\* The abstract specification's words for tables mean what the store's mean.
LEMMA SameTables ==
    /\ Atomic!EmptyTable = EmptyTable /\ Atomic!NoExpiry = NoExpiry
    /\ \A r, S : Atomic!Restrict(r, S) = Restrict(r, S) /\ Atomic!Without(r, S) = Without(r, S)
    /\ \A r, k, row : Atomic!With(r, k, row) = With(r, k, row)
    /\ \A r, at : Atomic!Touch(r, at) = Touch(r, at)
    /\ \A r, now : Atomic!PastLifetime(r, now) = PastLifetime(r, now)
    /\ \A r, k : Atomic!AccessStale(r, k) = AccessStale(r, k) /\ Atomic!CreateStale(r, k) = CreateStale(r, k)
    /\ \A now, ttl : Atomic!Cutoff(now, ttl) = Cutoff(now, ttl)
    /\ Atomic!Past = Past
BY DEF Atomic!EmptyTable, EmptyTable, Atomic!NoExpiry, NoExpiry, Atomic!Restrict, Restrict,
       Atomic!Without, Without, Atomic!With, With, Atomic!Touch, Touch,
       Atomic!PastLifetime, PastLifetime, Atomic!AccessStale, AccessStale,
       Atomic!CreateStale, CreateStale, Atomic!Cutoff, Cutoff, Atomic!Past, Past

LEMMA SameBytes == \A r : Atomic!Bytes(r) = Bytes(r)
<1>1. \A S : Atomic!Cardinality(S) = Cardinality(S)
  BY DEF Atomic!Cardinality, Cardinality, Atomic!IsFiniteSet, IsFiniteSet
<1>2. \A r : Atomic!BytePositions(r) = BytePositions(r)
  BY DEF Atomic!BytePositions, BytePositions
<1> QED BY <1>1, <1>2 DEF Atomic!Bytes, Bytes

LEMMA SameRoom ==
    ASSUME NEW table, NEW gone, NEW need
    PROVE  Atomic!MakesRoom(table, gone, need) <=>
             IF need > 0 THEN FreesExactly(table, gone, need) ELSE gone = {}
<1>1. \A P : Atomic!IsPrefix(table, P) <=> IsPrefix(table, P)
  BY DEF Atomic!IsPrefix, IsPrefix
<1>2. \A P : Atomic!Restrict(table, P) = Restrict(table, P)
  BY SameTables
<1>3. Atomic!FreesExactly(table, gone, need) <=> FreesExactly(table, gone, need)
  BY <1>1, <1>2, SameBytes DEF Atomic!FreesExactly, FreesExactly
<1> QED BY <1>3 DEF Atomic!MakesRoom

\* A create that commits publishes its paste.
LEMMA CommitPublishes ==
    ASSUME AtomicInv, NEW c \in Creators, CommitCreate(c)
    PROVE  Atomic!Publish
<1> USE StoreAssumption
<1> DEFINE n == tx.db.seq + 1
           p == create[c]
           gone == DOMAIN db.rows \ DOMAIN tx.db.rows
           row == [bytes |-> p.size, created |-> p.now, accessed |-> p.now,
                   expires |-> IF p.ttl > 0 THEN p.now + p.ttl ELSE NoExpiry]
<1>1. /\ StoreInv /\ CreateBranch /\ BurntAreReserved /\ TimesArePast
      /\ tx.owner = c /\ tx.owner \in Creators /\ tx.owner # NoOne
      /\ ~Evicting /\ n <= LastSeq /\ n \notin ReservedSeqs
      /\ p.pc = "writing" /\ UNCHANGED <<maxBytes, clock, faults>>
  BY DEF AtomicInv, RetentionInv, CommitCreate, Bumped, StoreInv, ConnectionHasALiveOwner
<1>2. /\ IsTable(db.rows) /\ IsTable(tx.db.rows) /\ Part(tx.db.rows, db.rows)
      /\ tx.need \in Int /\ tx.freed \in Nat
      /\ tx.freed = Bytes(Restrict(db.rows, gone))
  BY <1>1, FreedIsCounted DEF Gone
<1>3. /\ Branch(db, tx) /\ db.seq \in Nat /\ tx.db.seq \in Nat /\ db.seq <= tx.db.seq
      /\ db.stored = Bytes(db.rows) /\ Bytes(db.rows) \in Nat
  BY <1>1, <1>2, BytesIsNat DEF StoreInv, Branch, Consistent, IsDatabase
<1>4. NewRow(p) = row /\ NewRow(p) \in Row /\ NewRow(p).bytes = p.size
  BY <1>1, NewRowTyped DEF NewRow
<1>5. db'.rows = With(tx.db.rows, n, NewRow(p)) /\ db'.seq = n
  <2>1. db' = AddStoredBytes(Insert(EvictedOf(tx), n, NewRow(p)), NewRow(p).bytes)
    BY <1>4 DEF CommitCreate, Bumped, Evicted, EvictedOf
  <2>2. Consistent(EvictedOf(tx), 0) /\ EvictedOf(tx).rows = tx.db.rows /\ EvictedOf(tx).seq = tx.db.seq
    BY <1>1, <1>3, EvictedIsExact
  <2>3. n \in Nat /\ n > EvictedOf(tx).seq
    BY <1>3, <2>2
  <2> QED BY <1>4, <2>1, <2>2, <2>3, InsertKeepsConsistent
<1>6. tx.db.rows = Without(db.rows, gone)
  <2>1. DOMAIN db.rows \ gone = DOMAIN tx.db.rows
    BY <1>2 DEF Part
  <2>2. Restrict(tx.db.rows, DOMAIN tx.db.rows) = tx.db.rows
    BY <1>2 DEF Restrict, IsTable
  <2> QED BY <1>2, <2>1, <2>2, PartRestricts DEF Without
<1>7. /\ p.size \in Sizes /\ p.ttl \in Lifetimes /\ p.now \in Past
      /\ maxBytes > 0 => p.size <= maxBytes
      /\ tx.need = Excess(db, p.size)
  BY <1>1 DEF StoreInv, CreatesFit, TimesArePast
<1>8. tx.need = Atomic!Over(db.rows, p.size)
  BY <1>3, <1>7, SameBytes DEF Excess, Atomic!Over
<1>9. Atomic!MakesRoom(db.rows, gone, Atomic!Over(db.rows, p.size))
  <2>1. NotOneMore(db.rows, gone, tx.need)
    BY <1>1 DEF CreateBranch, Gone
  <2>2. ~(tx.freed < tx.need /\ EvictLRU(tx.db.rows, EvictBatch, tx.need - tx.freed) # {})
    BY <1>1 DEF Evicting, Doomed
  <2> HIDE DEF gone
  <2>3. IF tx.need > 0 THEN FreesExactly(db.rows, gone, tx.need) ELSE gone = {}
    BY <1>2, <2>1, <2>2, RoomIsMade DEF gone
  <2> QED BY <1>8, <2>3, SameRoom
<1>10. /\ n \in db.seq + 1 .. LastSeq
       /\ db.seq + 1 .. n - 1 \subseteq ReservedSeqs
  <2>1. n \in Int /\ n >= db.seq + 1 /\ n - 1 = tx.db.seq
    BY <1>3
  <2> QED BY <1>1, <1>3, <2>1 DEF BurntAreReserved
<1>11. gone \in SUBSET DOMAIN db.rows
  OBVIOUS
<1>12. db'.rows = Atomic!With(Atomic!Without(db.rows, gone), n, row)
  BY <1>4, <1>5, <1>6, SameTables
<1> HIDE DEF n, p, gone
<1>13. /\ maxBytes > 0 => p.size <= maxBytes
       /\ Atomic!MakesRoom(db.rows, gone, Atomic!Over(db.rows, p.size))
       /\ db'.rows = Atomic!With(Atomic!Without(db.rows, gone), db'.seq,
                        [bytes |-> p.size, created |-> p.now, accessed |-> p.now,
                         expires |-> IF p.ttl > 0 THEN p.now + p.ttl ELSE Atomic!NoExpiry])
  BY <1>5, <1>7, <1>9, <1>12, SameTables
<1> QED BY <1>1, <1>5, <1>7, <1>10, <1>11, <1>13, SameTables DEF Atomic!Publish

\* A flush that commits renews rows by times of the past.
LEMMA FlushRenews ==
    ASSUME AtomicInv, WriteFlush
    PROVE  Atomic!Renew
<1> DEFINE known == DOMAIN sweeper.pending \cap DOMAIN db.rows
           at == [s \in known |-> sweeper.pending[s]]
<1>1. StoreInv /\ TimesArePast /\ IsDatabase(db)
  BY DEF AtomicInv, RetentionInv, StoreInv, Branch, Consistent
<1>2. UNCHANGED <<maxBytes, clock, faults>> /\ db' = [db EXCEPT !.rows = Touch(db.rows, sweeper.pending)]
  BY DEF WriteFlush
<1>3. db'.rows = Touch(db.rows, sweeper.pending) /\ db'.seq = db.seq
  BY <1>1, <1>2 DEF IsDatabase
<1>4. Touch(db.rows, sweeper.pending) = Touch(db.rows, at)
  BY DEF Touch
<1>5. known \in SUBSET DOMAIN db.rows /\ at \in [known -> Past]
  BY <1>1 DEF TimesArePast
<1>6. db'.rows = Atomic!Touch(db.rows, at)
  BY <1>3, <1>4, SameTables
<1> HIDE DEF known, at
<1> QED BY <1>2, <1>3, <1>5, <1>6, SameTables DEF Atomic!Renew

\* A sweep that commits retains what the rules, in their order, leave.
LEMMA SweepRetains ==
    ASSUME AtomicInv, CommitSweep
    PROVE  Atomic!Retain
<1> USE StoreAssumption
<1> DEFINE now == sweeper.now
           a == Cutoff(now, TTLAccess)
           k == Cutoff(now, TTLCreate)
           left == tx.db.rows
<1>1. /\ StoreInv /\ RetentionInv /\ SweepCount /\ BurntAreReserved /\ TimesArePast
      /\ tx.owner = Sweeper /\ tx.owner # NoOne /\ ~Evicting
      /\ UNCHANGED <<maxBytes, clock, faults>>
  BY DEF AtomicInv, RetentionInv, CommitSweep, NoOne, Sweeper
<1>2. /\ IsTable(Live) /\ DOMAIN Live = Unswept /\ IsTable(left) /\ Part(left, Live)
      /\ Live = Without(db.rows, PastLifetime(db.rows, now))
      /\ tx.need \in Int /\ tx.freed \in Nat
  BY <1>1, SweepLeavesPart
<1>3. Evictees = DOMAIN Live \ DOMAIN left
  BY <1>2 DEF Evictees
<1>4. /\ tx.need = IF maxBytes > 0 THEN Bytes(Live) - maxBytes ELSE 0
      /\ tx.freed = Bytes(Restrict(Live, Evictees))
      /\ NotOneMore(Live, Evictees, tx.need)
  BY <1>1 DEF SweepCount
<1>5. maxBytes \in Nat /\ Bytes(Live) \in Nat
  BY <1>1, <1>2, BytesIsNat DEF StoreInv
<1>6. tx.need = Atomic!Over(Live, 0)
  BY <1>4, <1>5, SameBytes DEF Atomic!Over
<1>7. ~(tx.freed < tx.need /\ EvictLRU(left, EvictBatch, tx.need - tx.freed) # {})
  BY <1>1 DEF Evicting, Doomed
<1>8. left = Without(Live, Evictees)
  <2>1. DOMAIN Live \ Evictees = DOMAIN left
    BY <1>2, <1>3 DEF Part
  <2>2. Restrict(left, DOMAIN left) = left
    BY <1>2 DEF Restrict, IsTable
  <2> QED BY <1>2, <2>1, <2>2, PartRestricts DEF Without
<1>9. db'.rows = Without(left, AccessStale(left, a) \cup CreateStale(left, k)) /\ db'.seq = db.seq
  <2> DEFINE d == EvictedOf(tx)
             A == AccessStale(d.rows, a)
             d1 == DeleteRows(d, A)
             B == CreateStale(d1.rows, k)
  <2>1. db' = DeleteRows(d1, B)
    BY DEF CommitSweep, Evicted, EvictedOf, PastTTLs
  <2>2. Consistent(d, 0) /\ d.rows = left /\ d.seq = tx.db.seq
    BY <1>1, EvictedIsExact DEF StoreInv
  <2>3. A \in SUBSET DOMAIN d.rows /\ B \in SUBSET DOMAIN d1.rows
    BY DEF AccessStale, CreateStale
  <2>4. A = AccessStale(left, a)
    BY <2>2
  <2> HIDE DEF d, A, B
  <2>5. Consistent(d1, 0) /\ d1.rows = Without(left, A) /\ d1.seq = tx.db.seq
    BY <2>2, <2>3, DeleteKeepsConsistent
  <2> HIDE DEF d1
  <2>6. db'.rows = Without(d1.rows, B) /\ db'.seq = tx.db.seq
    BY <2>1, <2>3, <2>5, DeleteKeepsConsistent
  <2>7. B = {s \in DOMAIN left \ A : k > 0 /\ left[s].created <= k}
    BY <2>5 DEF B, CreateStale, Without, Restrict
  <2>8. DOMAIN left \ (A \cup B) = DOMAIN left \ (A \cup CreateStale(left, k))
    BY <2>7 DEF CreateStale
  <2> HIDE DEF a, k, left
  <2>9. Without(d1.rows, B) = Without(left, A \cup CreateStale(left, k))
    BY <2>5, <2>8 DEF Without, Restrict
  <2>10. tx.db.seq = db.seq
    BY <1>1 DEF BurntAreReserved
  <2> QED BY <2>4, <2>6, <2>9, <2>10
<1>10. now \in Past
  BY <1>1 DEF TimesArePast, StoreInv, ConnectionHasALiveOwner
<1> HIDE DEF Evictees, Live
<1>11. Atomic!MakesRoom(Live, Evictees, Atomic!Over(Live, 0))
  <2> HIDE DEF left
  <2>1. /\ IsTable(Live) /\ IsTable(left) /\ Part(left, Live) /\ Evictees = DOMAIN Live \ DOMAIN left
        /\ tx.need \in Int /\ tx.freed \in Nat
        /\ tx.freed = Bytes(Restrict(Live, Evictees)) /\ NotOneMore(Live, Evictees, tx.need)
        /\ ~(tx.freed < tx.need /\ EvictLRU(left, EvictBatch, tx.need - tx.freed) # {})
    BY <1>2, <1>3, <1>4, <1>7
  <2>2. IF tx.need > 0 THEN FreesExactly(Live, Evictees, tx.need) ELSE Evictees = {}
    BY <2>1, RoomIsMade
  <2> QED BY <1>6, <2>2, SameRoom
<1>12. Evictees \in SUBSET DOMAIN Live
  BY <1>3
<1>13. Live = Atomic!Without(db.rows, Atomic!PastLifetime(db.rows, now))
  BY <1>2, SameTables
<1>14. left = Atomic!Without(Live, Evictees)
  BY <1>8, SameTables
<1>15. db'.rows = Atomic!Without(left, Atomic!AccessStale(left, Atomic!Cutoff(now, TTLAccess))
                                        \cup Atomic!CreateStale(left, Atomic!Cutoff(now, TTLCreate)))
  BY <1>9, SameTables
<1> HIDE DEF now, left
<1> QED BY <1>1, <1>9, <1>10, <1>11, <1>12, <1>13, <1>14, <1>15, SameTables DEF Atomic!Retain

\* A start of the process opens the file again.
LEMMA RestartReopens ==
    ASSUME AtomicInv, Restart
    PROVE  Atomic!Reopen
<1>1. IsDatabase(db)
  BY DEF AtomicInv, RetentionInv, StoreInv, Branch, Consistent
<1>2. PICK kept \in SUBSET DOMAIN db.rows :
        db' = [db EXCEPT !.rows = Restrict(db.rows, kept), !.stored = Bytes(Restrict(db.rows, kept))]
  BY DEF Restart
<1>3. db'.rows = Atomic!Restrict(db.rows, kept) /\ db'.seq = db.seq
  BY <1>1, <1>2, SameTables DEF IsDatabase
<1>4. maxBytes' \in Caps /\ clock' = clock /\ faults' = faults + 1
  BY DEF Restart
<1> QED BY <1>3, <1>4 DEF Atomic!Reopen

\* Every step is one of the table's, or none.
LEMMA StoreRefines ==
    ASSUME AtomicInv, [Next]_vars
    PROVE  [Atomic!AtomicNext]_(Atomic!storeState)
<1>a. IsDatabase(db)
  BY DEF AtomicInv, RetentionInv, StoreInv, Branch, Consistent
<1>1. ASSUME UNCHANGED <<db, maxBytes, clock, faults>> PROVE UNCHANGED Atomic!storeState
  BY <1>1 DEF Atomic!storeState
<1>2. ASSUME NEW c \in Creators, CreateStep(c), ~CommitCreate(c) PROVE UNCHANGED <<db, maxBytes, clock, faults>>
  BY <1>2 DEF CreateStep, Enter, InLine, Stamp, BeginCreate, SkipReserved, FailCreate, ReturnCreate,
              storeVars
<1>3. ASSUME NEW r \in Readers, GetStep(r) PROVE UNCHANGED <<db, maxBytes, clock, faults>>
  BY <1>3 DEF GetStep, BeginGet, QueryGet, RecordGet, FailGet
<1>4. CASE SweeperStep /\ ~WriteFlush /\ ~CommitSweep
  <2>1. CASE FailSweeper
    BY <2>1 DEF FailSweeper, Atomic!FailWrite, Atomic!AtomicNext
  <2> QED BY <1>1, <1>4, <2>1 DEF SweeperStep, SwapAccess, BeginSweep
<1>5. CASE EvictStep \/ UNCHANGED vars
  BY <1>1, <1>5 DEF EvictStep, vars, storeVars
<1>6. CASE \E c \in Creators : CommitCreate(c)
  BY <1>6, CommitPublishes DEF Atomic!AtomicNext
<1>7. CASE WriteFlush \/ CommitSweep \/ Restart
  BY <1>7, FlushRenews, SweepRetains, RestartReopens DEF Atomic!AtomicNext
<1>8. CASE Tick
  <2>1. clock' = clock + 1 /\ UNCHANGED <<db, maxBytes, faults>>
    BY <1>8 DEF Tick
  <2> QED BY <2>1 DEF Atomic!PassTime, Atomic!AtomicNext
<1> QED BY <1>1, <1>2, <1>3, <1>4, <1>5, <1>6, <1>7, <1>8 DEF Next

\* Whatever the interleaving of creates, reads, flushes, sweeps, eviction batches,
\* failures and restarts, the store implements a table that changes all at once.
THEOREM ImplementsAtomicStore == Spec => ChangesAllAtOnce
<1>1. Init => Atomic!AtomicInit
  BY SameTables DEF Init, Atomic!AtomicInit
<1>2. AtomicInv /\ [Next]_vars => [Atomic!AtomicNext]_(Atomic!storeState)
  BY StoreRefines
<1> QED BY <1>1, <1>2, AtomicInit, AtomicStep, PTL DEF Spec, ChangesAllAtOnce, Atomic!AtomicSpec
=============================================================================
