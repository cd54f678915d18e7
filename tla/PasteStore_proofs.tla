-------------------------- MODULE PasteStore_proofs --------------------------
(***************************************************************************)
(* For every size of every parameter: the byte counter is exact, sequence  *)
(* numbers are fresh, recency never moves back, the cap is never outgrown. *)
(* The inductive invariant follows the byte counter into the open          *)
(* transaction, where it lags by what the eviction loop has freed and not  *)
(* yet taken off, and ties what the loop still needs to the body that is   *)
(* to be inserted.                                                         *)
(***************************************************************************)
EXTENDS PasteStore, FiniteSetTheorems, WellFoundedInduction, TLAPS

GateP == INSTANCE WriteGate_proofs WITH Callers <- Creators

-----------------------------------------------------------------------------
(* What deleting, inserting and touching rows does to a table and to its   *)
(* byte total, for every table.                                            *)

\* What a row of a table is.
LEMMA RowFields ==
    ASSUME NEW rows, IsTable(rows), NEW s \in DOMAIN rows
    PROVE  /\ rows[s] \in Row
           /\ rows[s].bytes \in Nat /\ rows[s].bytes > 0
           /\ rows[s].accessed \in Nat
           /\ s \in Nat /\ s > 0
BY DEF IsTable, Row

\* A total is a number.
LEMMA BytesIsNat ==
    ASSUME NEW rows, IsTable(rows)
    PROVE  IsFiniteSet(BytePositions(rows)) /\ Bytes(rows) \in Nat
<1> DEFINE part == [s \in DOMAIN rows |-> {s} \X (1 .. rows[s].bytes)]
           parts == {{s} \X (1 .. rows[s].bytes) : s \in DOMAIN rows}
<1>1. part \in Surjection(DOMAIN rows, parts)
  BY DEF Surjection
<1>2. IsFiniteSet(parts)
  BY <1>1, FS_Surjection DEF IsTable
<1>3. ASSUME NEW T \in parts PROVE IsFiniteSet(T)
  <2>1. PICK s \in DOMAIN rows : T = {s} \X (1 .. rows[s].bytes)
    OBVIOUS
  <2>2. IsFiniteSet({s})
    BY FS_Singleton
  <2>3. IsFiniteSet(1 .. rows[s].bytes)
    BY RowFields, FS_Interval
  <2> QED BY <2>1, <2>2, <2>3, FS_Product
<1>4. IsFiniteSet(UNION parts)
  BY <1>2, <1>3, FS_UNION
<1> QED BY <1>4, FS_CardinalityType DEF Bytes, BytePositions

\* A part of a table is a table.
LEMMA RestrictIsTable ==
    ASSUME NEW rows, IsTable(rows), NEW S \in SUBSET DOMAIN rows
    PROVE  IsTable(Restrict(rows, S)) /\ DOMAIN Restrict(rows, S) = S
BY FS_Subset DEF IsTable, Restrict

\* Deleting rows takes exactly their bytes off the total.
LEMMA BytesSplit ==
    ASSUME NEW rows, IsTable(rows), NEW gone \in SUBSET DOMAIN rows
    PROVE  /\ IsTable(Without(rows, gone))
           /\ DOMAIN Without(rows, gone) = DOMAIN rows \ gone
           /\ Bytes(Restrict(rows, gone)) \in Nat
           /\ Bytes(Without(rows, gone)) \in Nat
           /\ Bytes(rows) = Bytes(Without(rows, gone)) + Bytes(Restrict(rows, gone))
<1> DEFINE A == BytePositions(Without(rows, gone))
           B == BytePositions(Restrict(rows, gone))
<1>1. IsTable(Without(rows, gone)) /\ DOMAIN Without(rows, gone) = DOMAIN rows \ gone
  BY RestrictIsTable DEF Without
<1>2. IsTable(Restrict(rows, gone))
  BY RestrictIsTable
<1>3. IsFiniteSet(A) /\ IsFiniteSet(B) /\ Cardinality(A) \in Nat /\ Cardinality(B) \in Nat
  BY <1>1, <1>2, BytesIsNat DEF Bytes
<1>4. A = UNION {{s} \X (1 .. rows[s].bytes) : s \in DOMAIN rows \ gone}
  BY DEF BytePositions, Without, Restrict
<1>5. B = UNION {{s} \X (1 .. rows[s].bytes) : s \in gone}
  BY DEF BytePositions, Restrict
<1>6. BytePositions(rows) = A \cup B
  BY <1>4, <1>5 DEF BytePositions
<1>7. A \cap B = {}
  BY <1>4, <1>5
<1>8. Cardinality(A \cup B) = Cardinality(A) + Cardinality(B) - Cardinality(A \cap B)
  BY <1>3, FS_Union
<1>9. Cardinality(A \cap B) = 0
  BY <1>7, FS_EmptySet
<1> QED BY <1>1, <1>3, <1>6, <1>8, <1>9 DEF Bytes

\* Inserting a row adds exactly its bytes.
LEMMA BytesInsert ==
    ASSUME NEW rows, IsTable(rows), NEW s \in Nat \ {0}, s \notin DOMAIN rows, NEW row \in Row
    PROVE  /\ IsTable(With(rows, s, row))
           /\ Bytes(With(rows, s, row)) = Bytes(rows) + row.bytes
<1> DEFINE new == With(rows, s, row)
<1>1. IsTable(new)
  BY FS_AddElement DEF IsTable, With
<1>2. DOMAIN new = DOMAIN rows \cup {s} /\ {s} \in SUBSET DOMAIN new
  BY DEF With
<1>3. Without(new, {s}) = rows
  <2>1. DOMAIN new \ {s} = DOMAIN rows
    BY <1>2
  <2>2. Restrict(new, DOMAIN rows) = [t \in DOMAIN rows |-> rows[t]]
    BY DEF Restrict, With
  <2>3. rows = [t \in DOMAIN rows |-> rows[t]]
    BY DEF IsTable
  <2> QED BY <2>1, <2>2, <2>3 DEF Without
<1>4. Bytes(new) = Bytes(rows) + Bytes(Restrict(new, {s}))
  BY <1>1, <1>2, <1>3, BytesSplit
<1>5. BytePositions(Restrict(new, {s})) = {s} \X (1 .. row.bytes)
  <2>1. Restrict(new, {s}) = [t \in {s} |-> row]
    BY DEF Restrict, With
  <2>2. BytePositions([t \in {s} |-> row]) = {s} \X (1 .. row.bytes)
    BY DEF BytePositions
  <2> QED BY <2>1, <2>2
<1>6. row.bytes \in Nat /\ row.bytes > 0
  BY DEF Row
<1>7. IsFiniteSet({s}) /\ Cardinality({s}) = 1
  BY FS_Singleton
<1>8. IsFiniteSet(1 .. row.bytes) /\ Cardinality(1 .. row.bytes) = row.bytes
  <2>1. \A n \in Nat \ {0} : IsFiniteSet(1 .. n) /\ Cardinality(1 .. n) = n
    <3>1. TAKE n \in Nat \ {0}
    <3>2. 1 \in Int /\ n \in Int
      OBVIOUS
    <3>3. IsFiniteSet(1 .. n) /\ Cardinality(1 .. n) = IF 1 > n THEN 0 ELSE n - 1 + 1
      BY <3>2, FS_Interval
    <3> QED BY <3>3
  <2> QED BY <1>6, <2>1
<1>9. Cardinality({s} \X (1 .. row.bytes)) = row.bytes
  <2>1. Cardinality({s} \X (1 .. row.bytes)) = Cardinality({s}) * Cardinality(1 .. row.bytes)
    BY <1>7, <1>8, FS_Product
  <2> QED BY <1>6, <1>7, <1>8, <2>1
<1> QED BY <1>1, <1>4, <1>5, <1>6, <1>9 DEF Bytes

\* Writing access times back changes neither the rows there are nor their bytes.
LEMMA TouchKeepsBytes ==
    ASSUME NEW rows, IsTable(rows), NEW pending, pending \in [DOMAIN pending -> Nat]
    PROVE  /\ IsTable(Touch(rows, pending))
           /\ DOMAIN Touch(rows, pending) = DOMAIN rows
           /\ Bytes(Touch(rows, pending)) = Bytes(rows)
<1> DEFINE new == Touch(rows, pending)
<1>1. DOMAIN new = DOMAIN rows
  BY DEF Touch
<1>2. ASSUME NEW s \in DOMAIN rows
      PROVE  new[s] \in Row /\ new[s].bytes = rows[s].bytes
  BY <1>2, RowFields DEF Touch, Row
<1>3. IsTable(new)
  BY <1>1, <1>2 DEF IsTable, Touch
<1>4. BytePositions(new) = BytePositions(rows)
  BY <1>1, <1>2 DEF BytePositions
<1> QED BY <1>1, <1>3, <1>4 DEF Bytes

LEMMA EmptyTableHasNoBytes == IsTable(EmptyTable) /\ Bytes(EmptyTable) = 0
<1>1. DOMAIN EmptyTable = {}
  BY DEF EmptyTable
<1>2. BytePositions(EmptyTable) = {}
  BY <1>1 DEF BytePositions
<1>3. IsTable(EmptyTable)
  BY <1>1, FS_EmptySet DEF IsTable, EmptyTable
<1> QED BY <1>2, <1>3, FS_EmptySet DEF Bytes

-----------------------------------------------------------------------------
(* The invariants.                                                         *)

\* A database whose counter is ahead of its rows by k bytes, and whose rows were
\* all numbered by its counter.
Consistent(d, k) ==
    /\ IsDatabase(d)
    /\ d.stored = Bytes(d.rows) + k
    /\ \A s \in DOMAIN d.rows : s <= d.seq

\* `small` is what is left of `big` after some rows were deleted.
Part(small, big) ==
    /\ DOMAIN small \subseteq DOMAIN big
    /\ \A s \in DOMAIN small : small[s] = big[s]

\* Transaction t is typed, and if it is open it branches off database d: some
\* rows of d deleted, perhaps some numbers burnt, and the counter still to follow.
Branch(d, t) ==
    /\ Consistent(d, 0)
    /\ t = [owner |-> t.owner, db |-> t.db, need |-> t.need, freed |-> t.freed]
    /\ t.owner \in Creators \cup {Sweeper, NoOne}
    /\ IsDatabase(t.db)
    /\ t.need \in Int /\ t.freed \in Nat
    /\ t.owner # NoOne =>
         Consistent(t.db, t.freed) /\ d.seq <= t.db.seq /\ Part(t.db.rows, d.rows)

\* A Create that got past Stamp has a body the cap can hold, and what its
\* transaction must evict is what that body lacks.
CreatesFit ==
    \A c \in Creators :
        /\ create[c].pc \in {"begin", "writing"} =>
             create[c].size \in Sizes /\ (maxBytes > 0 => create[c].size <= maxBytes)
        /\ tx.owner = c =>
             tx.need = Excess(db, create[c].size) /\ tx.db.stored = db.stored

StoreInv ==
    /\ Branch(db, tx)
    /\ IsMap(access) /\ RequestsTyped /\ SweeperTyped
    /\ maxBytes \in Caps /\ clock \in Nat /\ faults \in Nat
    /\ ConnectionHasALiveOwner
    /\ CreatesFit
    /\ GateP!GateInv
    /\ \A c \in Creators : create[c].pc # "idle" => place[c] = "writing"

-----------------------------------------------------------------------------
(* What the operations on a database do to it.                             *)

LEMMA DatabaseFields ==
    ASSUME NEW d, IsDatabase(d)
    PROVE  IsTable(d.rows) /\ d.seq \in Nat /\ d.stored \in Nat
BY DEF IsDatabase

\* What a consistent database is, field by field.
LEMMA ConsistentRecord ==
    ASSUME NEW rows, IsTable(rows), NEW n \in Nat, NEW k \in Nat,
           \A s \in DOMAIN rows : s <= n,
           NEW d, d = [rows |-> rows, seq |-> n, stored |-> Bytes(rows) + k]
    PROVE  Consistent(d, k) /\ d.rows = rows /\ d.seq = n
<1>1. d.rows = rows /\ d.seq = n /\ d.stored = Bytes(rows) + k
  OBVIOUS
<1>2. Bytes(rows) + k \in Nat
  BY BytesIsNat
<1>3. d = [rows |-> d.rows, seq |-> d.seq, stored |-> d.stored]
  BY <1>1
<1> QED BY <1>1, <1>2, <1>3 DEF Consistent, IsDatabase

LEMMA ExactRecord ==
    ASSUME NEW rows, IsTable(rows), NEW n \in Nat, \A s \in DOMAIN rows : s <= n,
           NEW d, d = [rows |-> rows, seq |-> n, stored |-> Bytes(rows)]
    PROVE  Consistent(d, 0) /\ d.rows = rows /\ d.seq = n
<1>1. Bytes(rows) = Bytes(rows) + 0
  BY BytesIsNat
<1>2. d = [rows |-> rows, seq |-> n, stored |-> Bytes(rows) + 0]
  BY <1>1
<1> QED BY <1>2, ConsistentRecord

\* Taking off what a loop has freed makes the counter exact again.
LEMMA TakeOff ==
    ASSUME NEW d, NEW k \in Nat, Consistent(d, k)
    PROVE  /\ Consistent(AddStoredBytes(d, -k), 0)
           /\ AddStoredBytes(d, -k).rows = d.rows
           /\ AddStoredBytes(d, -k).seq = d.seq
<1> DEFINE e == AddStoredBytes(d, -k)
<1>1. IsTable(d.rows) /\ d.seq \in Nat /\ d.stored \in Nat /\ Bytes(d.rows) \in Nat
  BY BytesIsNat DEF Consistent, IsDatabase
<1>2. d.stored + (-k) = Bytes(d.rows)
  BY <1>1 DEF Consistent
<1>3. e = [rows |-> d.rows, seq |-> d.seq, stored |-> Bytes(d.rows) + 0]
  BY <1>1, <1>2 DEF AddStoredBytes, Consistent, IsDatabase
<1>4. \A s \in DOMAIN d.rows : s <= d.seq
  BY DEF Consistent
<1> QED BY <1>1, <1>3, <1>4, ConsistentRecord

\* deleteWhere keeps the counter where it was relative to the rows.
LEMMA DeleteKeepsConsistent ==
    ASSUME NEW d, Consistent(d, 0), NEW gone \in SUBSET DOMAIN d.rows
    PROVE  /\ Consistent(DeleteRows(d, gone), 0)
           /\ DeleteRows(d, gone).rows = Without(d.rows, gone)
           /\ DeleteRows(d, gone).seq = d.seq
<1> DEFINE rest == Without(d.rows, gone)
           k == Bytes(Restrict(d.rows, gone))
           e == [d EXCEPT !.rows = rest]
<1>1. /\ IsTable(rest) /\ DOMAIN rest = DOMAIN d.rows \ gone
      /\ k \in Nat /\ Bytes(rest) \in Nat
      /\ Bytes(d.rows) = Bytes(rest) + k
  BY BytesSplit DEF Consistent, IsDatabase
<1>2. e = [rows |-> rest, seq |-> d.seq, stored |-> d.stored]
  BY DEF Consistent, IsDatabase
<1>3. Consistent(e, k)
  <2>1. d.stored = Bytes(rest) + k /\ d.stored \in Nat /\ d.seq \in Nat
    BY <1>1 DEF Consistent, IsDatabase
  <2>2. \A s \in DOMAIN rest : s <= d.seq
    BY <1>1 DEF Consistent
  <2> HIDE DEF rest, k, e
  <2> QED BY <1>1, <1>2, <2>1, <2>2 DEF Consistent, IsDatabase
<1>4. DeleteRows(d, gone) = AddStoredBytes(e, -k)
  BY DEF DeleteRows
<1>5. e.rows = rest /\ e.seq = d.seq
  BY <1>2
<1> HIDE DEF rest, k, e
<1>6. /\ Consistent(AddStoredBytes(e, -k), 0)
      /\ AddStoredBytes(e, -k).rows = e.rows
      /\ AddStoredBytes(e, -k).seq = e.seq
  BY <1>1, <1>3, TakeOff
<1> QED BY <1>4, <1>5, <1>6 DEF rest

\* INSERT and the counter that follows it.
LEMMA InsertKeepsConsistent ==
    ASSUME NEW d, Consistent(d, 0), NEW s \in Nat, s > d.seq, NEW row \in Row
    PROVE  /\ Consistent(AddStoredBytes(Insert(d, s, row), row.bytes), 0)
           /\ AddStoredBytes(Insert(d, s, row), row.bytes).rows = With(d.rows, s, row)
           /\ AddStoredBytes(Insert(d, s, row), row.bytes).seq = s
<1> DEFINE e == AddStoredBytes(Insert(d, s, row), row.bytes)
<1>1. /\ IsTable(d.rows) /\ d.seq \in Nat /\ Bytes(d.rows) \in Nat /\ d.stored = Bytes(d.rows)
      /\ \A t \in DOMAIN d.rows : t <= d.seq
      /\ d = [rows |-> d.rows, seq |-> d.seq, stored |-> d.stored]
  BY BytesIsNat DEF Consistent, IsDatabase
<1>2. s \in Nat \ {0} /\ s \notin DOMAIN d.rows
  BY <1>1 DEF IsTable
<1>3. /\ IsTable(With(d.rows, s, row))
      /\ Bytes(With(d.rows, s, row)) = Bytes(d.rows) + row.bytes
  BY <1>1, <1>2, BytesInsert
<1>4. row.bytes \in Nat
  BY DEF Row
<1>5. Insert(d, s, row) = [rows |-> With(d.rows, s, row), seq |-> s, stored |-> d.stored]
  BY <1>1 DEF Insert
<1>6. e = [rows |-> With(d.rows, s, row), seq |-> s,
            stored |-> Bytes(With(d.rows, s, row)) + 0]
  <2>1. ~(d.stored + row.bytes < 0) /\ d.stored + row.bytes = Bytes(With(d.rows, s, row)) + 0
    BY <1>1, <1>3, <1>4
  <2> QED BY <1>5, <2>1 DEF AddStoredBytes
<1>7. \A t \in DOMAIN With(d.rows, s, row) : t <= s
  BY <1>1 DEF With, IsTable
<1> QED BY <1>3, <1>6, <1>7, ConsistentRecord

LEMMA ConsistentAtStart ==
    Consistent([rows |-> EmptyTable, seq |-> 0, stored |-> 0], 0)
BY EmptyTableHasNoBytes DEF Consistent, IsDatabase, EmptyTable

\* NoTx is a transaction nobody has opened.
LEMMA NoTxBranches ==
    ASSUME NEW d, Consistent(d, 0)
    PROVE  Branch(d, NoTx) /\ NoTx.owner = NoOne
<1>1. NoTx.owner = NoOne /\ NoTx.need = 0 /\ NoTx.freed = 0
      /\ NoTx.db = [rows |-> EmptyTable, seq |-> 0, stored |-> 0]
      /\ NoTx = [owner |-> NoTx.owner, db |-> NoTx.db, need |-> NoTx.need, freed |-> NoTx.freed]
  BY DEF NoTx
<1>2. IsDatabase(NoTx.db)
  BY <1>1, ConsistentAtStart DEF Consistent
<1> QED BY <1>1, <1>2 DEF Branch

\* A transaction just opened on d.
LEMMA OpenBranches ==
    ASSUME NEW d, Consistent(d, 0), NEW o \in Creators \cup {Sweeper},
           NEW e, Consistent(e, 0), d.seq <= e.seq, Part(e.rows, d.rows), NEW need \in Int,
           NEW t, t = [owner |-> o, db |-> e, freed |-> 0, need |-> need]
    PROVE  Branch(d, t)
<1>1. t.owner = o /\ t.db = e /\ t.freed = 0 /\ t.need = need
      /\ t = [owner |-> t.owner, db |-> t.db, need |-> t.need, freed |-> t.freed]
  OBVIOUS
<1> QED BY <1>1 DEF Branch, Consistent

\* The batch evict deletes next.
LEMMA EvictBranches ==
    ASSUME NEW d, NEW t, Branch(d, t), t.owner # NoOne, NEW gone \in SUBSET DOMAIN t.db.rows,
           NEW u, u = [t EXCEPT !.db.rows = Without(t.db.rows, gone),
                                !.freed = t.freed + Bytes(Restrict(t.db.rows, gone))]
    PROVE  Branch(d, u) /\ u.owner = t.owner
<1> DEFINE rest == Without(t.db.rows, gone)
           k == Bytes(Restrict(t.db.rows, gone))
<1>1. IsTable(t.db.rows) /\ t.db.seq \in Nat /\ t.freed \in Nat
      /\ t.db.stored = Bytes(t.db.rows) + t.freed /\ Bytes(t.db.rows) \in Nat
      /\ \A s \in DOMAIN t.db.rows : s <= t.db.seq
  BY BytesIsNat DEF Branch, Consistent, IsDatabase
<1>2. /\ IsTable(rest) /\ DOMAIN rest = DOMAIN t.db.rows \ gone
      /\ k \in Nat /\ Bytes(rest) \in Nat
      /\ Bytes(t.db.rows) = Bytes(rest) + k
  BY <1>1, BytesSplit
<1>3. u.db = [rows |-> rest, seq |-> t.db.seq, stored |-> t.db.stored]
  BY DEF Branch, IsDatabase
<1>4. /\ u.owner = t.owner /\ u.need = t.need /\ u.freed = t.freed + k
      /\ u = [owner |-> u.owner, db |-> u.db, need |-> u.need, freed |-> u.freed]
  BY DEF Branch
<1>5. t.db.stored = Bytes(rest) + (t.freed + k) /\ t.freed + k \in Nat
  BY <1>1, <1>2
<1>6. Part(rest, t.db.rows)
  BY DEF Part, Without, Restrict
<1> HIDE DEF rest, k
<1>7. Consistent(u.db, t.freed + k) /\ u.db.rows = rest /\ u.db.seq = t.db.seq
  <2>1. \A s \in DOMAIN rest : s <= t.db.seq
    BY <1>1, <1>2
  <2> QED BY <1>1, <1>2, <1>3, <1>5, <2>1, ConsistentRecord
<1>8. Part(u.db.rows, d.rows)
  BY <1>6, <1>7 DEF Branch, Part
<1> QED BY <1>4, <1>5, <1>7, <1>8 DEF Branch, Consistent

-----------------------------------------------------------------------------
(* What the steps that commit do to the committed database.                *)

\* From d to e a row that stays only grew younger.
OnlyAges(d, e) ==
    \A s \in DOMAIN d.rows \cap DOMAIN e.rows :
        /\ e.rows[s].accessed >= d.rows[s].accessed
        /\ e.rows[s] = [d.rows[s] EXCEPT !.accessed = e.rows[s].accessed]

\* From d to e a row that comes has a number never given out before.
OnlyFresh(d, e) ==
    /\ e.seq >= d.seq
    /\ \A s \in DOMAIN e.rows \ DOMAIN d.rows :
         s > d.seq /\ s \notin ReservedSeqs /\ e.seq >= s

\* Deleting rows changes none of those that stay.
LEMMA PartOnlyAges ==
    ASSUME NEW d, IsDatabase(d), NEW e, Part(e.rows, d.rows), e.seq >= d.seq
    PROVE  OnlyAges(d, e) /\ OnlyFresh(d, e)
<1>1. ASSUME NEW s \in DOMAIN d.rows \cap DOMAIN e.rows
      PROVE  /\ e.rows[s].accessed >= d.rows[s].accessed
             /\ e.rows[s] = [d.rows[s] EXCEPT !.accessed = e.rows[s].accessed]
  <2>1. e.rows[s] = d.rows[s] /\ d.rows[s] \in Row
    BY RowFields DEF Part, IsDatabase
  <2> QED BY <2>1 DEF Row
<1> QED BY <1>1 DEF OnlyAges, OnlyFresh, Part

\* Evicted, for a transaction t.
EvictedOf(t) == IF t.freed > 0 THEN AddStoredBytes(t.db, -t.freed) ELSE t.db

LEMMA EvictedIsExact ==
    ASSUME NEW d, NEW t, Branch(d, t), t.owner # NoOne
    PROVE  /\ Consistent(EvictedOf(t), 0)
           /\ EvictedOf(t).rows = t.db.rows
           /\ EvictedOf(t).seq = t.db.seq
<1>1. Consistent(t.db, t.freed) /\ t.freed \in Nat
  BY DEF Branch
<1>2. CASE t.freed > 0
  BY <1>1, <1>2, TakeOff DEF EvictedOf
<1>3. CASE t.freed = 0
  BY <1>1, <1>3 DEF EvictedOf
<1> QED BY <1>1, <1>2, <1>3

\* The commit of Create.
LEMMA CreateCommits ==
    ASSUME NEW d, NEW t, Branch(d, t), t.owner # NoOne,
           t.db.seq + 1 \notin ReservedSeqs, NEW row \in Row,
           NEW e, e = AddStoredBytes(Insert(EvictedOf(t), t.db.seq + 1, row), row.bytes)
    PROVE  /\ Consistent(e, 0)
           /\ OnlyAges(d, e)
           /\ OnlyFresh(d, e)
           /\ e.rows = With(t.db.rows, t.db.seq + 1, row)
<1> DEFINE n == t.db.seq + 1
<1>1. t.db.seq \in Nat /\ n \in Nat /\ n > t.db.seq
  BY DEF Branch, IsDatabase
<1>2. Consistent(EvictedOf(t), 0) /\ EvictedOf(t).rows = t.db.rows /\ EvictedOf(t).seq = t.db.seq
  BY EvictedIsExact
<1>3. Consistent(e, 0) /\ e.rows = With(t.db.rows, n, row) /\ e.seq = n
  BY <1>1, <1>2, InsertKeepsConsistent
<1>4. d.seq \in Nat /\ d.seq < n /\ n \notin DOMAIN d.rows /\ IsDatabase(d)
  BY <1>1 DEF Branch, Consistent, IsDatabase
<1>5. DOMAIN e.rows = DOMAIN t.db.rows \cup {n}
      /\ \A s \in DOMAIN t.db.rows : s # n => e.rows[s] = t.db.rows[s]
  BY <1>3 DEF With
<1>6. \A s \in DOMAIN t.db.rows : s \in DOMAIN d.rows /\ t.db.rows[s] = d.rows[s]
  BY DEF Branch, Part
<1>7. ASSUME NEW s \in DOMAIN d.rows \cap DOMAIN e.rows
      PROVE  /\ e.rows[s].accessed >= d.rows[s].accessed
             /\ e.rows[s] = [d.rows[s] EXCEPT !.accessed = e.rows[s].accessed]
  <2>1. e.rows[s] = d.rows[s]
    BY <1>4, <1>5, <1>6
  <2>2. d.rows[s] \in Row
    BY <1>4, RowFields DEF IsDatabase
  <2> QED BY <2>1, <2>2 DEF Row
<1>8. OnlyAges(d, e)
  BY <1>7 DEF OnlyAges
<1>9. ASSUME NEW s \in DOMAIN e.rows \ DOMAIN d.rows PROVE s = n
  BY <1>5, <1>6
<1> HIDE DEF n
<1>10. OnlyFresh(d, e)
  BY <1>1, <1>3, <1>4, <1>9 DEF OnlyFresh, n
<1> QED BY <1>3, <1>8, <1>10 DEF n

\* deleteWhere twice, for the two TTLs.
LEMMA TTLsDelete ==
    ASSUME NEW d, Consistent(d, 0), NEW now
    PROVE  /\ Consistent(PastTTLs(d, now), 0)
           /\ Part(PastTTLs(d, now).rows, d.rows)
           /\ PastTTLs(d, now).seq = d.seq
<1> DEFINE A == AccessStale(d.rows, Cutoff(now, TTLAccess))
           a == DeleteRows(d, A)
           B == CreateStale(a.rows, Cutoff(now, TTLCreate))
<1>1. A \in SUBSET DOMAIN d.rows /\ B \in SUBSET DOMAIN a.rows
  BY DEF AccessStale, CreateStale
<1>2. PastTTLs(d, now) = DeleteRows(a, B)
  BY DEF PastTTLs
<1> HIDE DEF A, B
<1>3. Consistent(a, 0) /\ a.rows = Without(d.rows, A) /\ a.seq = d.seq
  BY <1>1, DeleteKeepsConsistent
<1> HIDE DEF a
<1>4. /\ Consistent(DeleteRows(a, B), 0) /\ DeleteRows(a, B).rows = Without(a.rows, B)
      /\ DeleteRows(a, B).seq = a.seq
  BY <1>1, <1>3, DeleteKeepsConsistent
<1> QED BY <1>2, <1>3, <1>4 DEF Part, Without, Restrict

\* The commit of the sweep.
LEMMA SweepCommits ==
    ASSUME NEW d, NEW t, Branch(d, t), t.owner # NoOne, NEW now,
           NEW e, e = PastTTLs(EvictedOf(t), now)
    PROVE  Consistent(e, 0) /\ OnlyAges(d, e) /\ OnlyFresh(d, e)
<1>1. Consistent(e, 0) /\ Part(e.rows, t.db.rows) /\ e.seq = t.db.seq
  BY EvictedIsExact, TTLsDelete
<1>2. Part(e.rows, d.rows) /\ IsDatabase(d) /\ e.seq >= d.seq
  BY <1>1 DEF Branch, Part, Consistent, IsDatabase
<1> QED BY <1>1, <1>2, PartOnlyAges

\* The commit of a flush.
LEMMA FlushCommits ==
    ASSUME NEW d, Consistent(d, 0), NEW pending, IsMap(pending),
           NEW e, e = [d EXCEPT !.rows = Touch(d.rows, pending)]
    PROVE  Consistent(e, 0) /\ OnlyAges(d, e) /\ OnlyFresh(d, e)
<1> DEFINE new == Touch(d.rows, pending)
<1>1. IsDatabase(d) /\ IsTable(d.rows) /\ d.seq \in Nat /\ d.stored = Bytes(d.rows)
      /\ \A s \in DOMAIN d.rows : s <= d.seq
  BY BytesIsNat DEF Consistent, IsDatabase
<1>2. IsTable(new) /\ DOMAIN new = DOMAIN d.rows /\ Bytes(new) = Bytes(d.rows)
  BY <1>1, TouchKeepsBytes DEF IsMap
<1>3. e = [rows |-> new, seq |-> d.seq, stored |-> Bytes(new)]
  <2>1. e = [rows |-> new, seq |-> d.seq, stored |-> d.stored]
    BY <1>1 DEF IsDatabase
  <2>2. d.stored = Bytes(new)
    BY <1>1, <1>2
  <2> QED BY <2>1, <2>2
<1>5. ASSUME NEW s \in DOMAIN d.rows
      PROVE  /\ new[s].accessed >= d.rows[s].accessed
             /\ new[s] = [d.rows[s] EXCEPT !.accessed = new[s].accessed]
  BY <1>1, <1>5, RowFields DEF Touch, Row, IsMap
<1>4. \A s \in DOMAIN new : s <= d.seq
  BY <1>1, <1>2
<1> HIDE DEF new
<1>6. Consistent(e, 0) /\ e.rows = new /\ e.seq = d.seq
  BY <1>1, <1>2, <1>3, <1>4, ExactRecord
<1> QED BY <1>1, <1>2, <1>5, <1>6 DEF OnlyAges, OnlyFresh

\* Open on a file from which rows were removed by hand: reconcile.
LEMMA OpenReconciles ==
    ASSUME NEW d, Consistent(d, 0), NEW kept \in SUBSET DOMAIN d.rows,
           NEW e, e = [d EXCEPT !.rows = Restrict(d.rows, kept),
                                !.stored = Bytes(Restrict(d.rows, kept))]
    PROVE  Consistent(e, 0) /\ OnlyAges(d, e) /\ OnlyFresh(d, e)
<1> DEFINE rest == Restrict(d.rows, kept)
<1>1. IsDatabase(d) /\ IsTable(d.rows) /\ d.seq \in Nat /\ \A s \in DOMAIN d.rows : s <= d.seq
  BY DEF Consistent, IsDatabase
<1>2. IsTable(rest) /\ DOMAIN rest = kept /\ Part(rest, d.rows)
  BY <1>1, RestrictIsTable DEF Part, Restrict
<1>3. e = [rows |-> rest, seq |-> d.seq, stored |-> Bytes(rest)]
  BY <1>1 DEF IsDatabase
<1>4. \A s \in DOMAIN rest : s <= d.seq
  BY <1>1, <1>2
<1> HIDE DEF rest
<1>5. Consistent(e, 0) /\ e.rows = rest /\ e.seq = d.seq
  BY <1>1, <1>2, <1>3, <1>4, ExactRecord
<1>6. e.seq >= d.seq
  BY <1>1, <1>5
<1> QED BY <1>1, <1>2, <1>5, <1>6, PartOnlyAges

LEMMA LeastNumber ==
    ASSUME NEW S \in SUBSET Nat, S # {}
    PROVE  \E m \in S : \A n \in S : m <= n
<1> DEFINE R == OpToRel(<, Nat)
<1>1. IsWellFoundedOn(R, Nat)
  BY NatLessThanWellFounded
<1>2. \A n, m \in Nat : n < m => <<n, m>> \in R
  <2>1. TAKE n, m \in Nat
  <2>2. <<n, m>> \in Nat \X Nat /\ <<n, m>>[1] = n /\ <<n, m>>[2] = m
    OBVIOUS
  <2>3. HAVE n < m
  <2> QED BY <2>2, <2>3 DEF OpToRel
<1> HIDE DEF R
<1>3. PICK m \in S : \A n \in S : ~(<<n, m>> \in R)
  BY <1>1, WFMin
<1>4. \A n \in S : n \in Nat /\ m \in Nat /\ ~(n < m)
  BY <1>2, <1>3
<1> QED BY <1>3, <1>4

\* evict's loop never stops short: while bytes are missing and a row is left,
\* the least recently used row is doomed.
LEMMA SomethingToEvict ==
    ASSUME NEW rows, IsTable(rows), DOMAIN rows # {},
           NEW limit \in Nat \ {0}, NEW need \in Int, need > 0
    PROVE  EvictLRU(rows, limit, need) # {}
<1> DEFINE times == {rows[s].accessed : s \in DOMAIN rows}
<1>1. PICK m \in times : \A n \in times : m <= n
  <2>1. times \in SUBSET Nat /\ times # {}
    BY RowFields
  <2> HIDE DEF times
  <2> QED BY <2>1, LeastNumber
<1> DEFINE oldest == {s \in DOMAIN rows : rows[s].accessed = m}
<1>2. PICK s \in oldest : \A t \in oldest : s <= t
  <2>1. oldest \in SUBSET Nat /\ oldest # {}
    BY RowFields
  <2> HIDE DEF oldest
  <2> QED BY <2>1, LeastNumber
<1>3. OlderThan(rows, s) = {}
  <2>1. ASSUME NEW t \in DOMAIN rows, Older(rows, t, s) PROVE FALSE
    <3>1. rows[t].accessed \in Nat /\ rows[t].accessed >= m /\ t \in Nat
      BY <1>1, RowFields
    <3>2. rows[s].accessed = m /\ m \in Nat /\ s \in Nat
      BY RowFields
    <3>3. rows[t].accessed = m => s <= t
      BY <1>2
    <3> QED BY <2>1, <3>1, <3>2, <3>3 DEF Older
  <2> QED BY <2>1 DEF OlderThan
<1>4. Cardinality(OlderThan(rows, s)) = 0
  BY <1>3, FS_EmptySet
<1>5. Bytes(Restrict(rows, OlderThan(rows, s))) = 0
  <2>1. BytePositions(Restrict(rows, {})) = {}
    BY DEF BytePositions, Restrict
  <2> QED BY <1>3, <2>1, FS_EmptySet DEF Bytes
<1>6. s \in EvictLRU(rows, limit, need)
  BY <1>4, <1>5 DEF EvictLRU
<1> QED BY <1>6

\* What is left of a table takes no more bytes.
LEMMA PartIsNoBigger ==
    ASSUME NEW big, IsTable(big), NEW small, IsTable(small), Part(small, big)
    PROVE  Bytes(small) <= Bytes(big)
<1> DEFINE gone == DOMAIN big \ DOMAIN small
<1>1. small = Without(big, gone)
  <2>1. DOMAIN big \ gone = DOMAIN small
    BY DEF Part
  <2>2. small = [s \in DOMAIN small |-> small[s]]
    BY DEF IsTable
  <2>3. [s \in DOMAIN small |-> small[s]] = [s \in DOMAIN small |-> big[s]]
    BY DEF Part
  <2> QED BY <2>1, <2>2, <2>3 DEF Without, Restrict
<1> HIDE DEF gone
<1>2. gone \in SUBSET DOMAIN big
  BY DEF gone
<1>3. /\ Bytes(Restrict(big, gone)) \in Nat /\ Bytes(small) \in Nat
      /\ Bytes(big) = Bytes(small) + Bytes(Restrict(big, gone))
  BY <1>1, <1>2, BytesSplit
<1> QED BY <1>3

-----------------------------------------------------------------------------
(* Each step, as a change of the database and the transaction.             *)

\* What a step may do to them.
Lawful(d, t, e, u) ==
    /\ Branch(e, u)
    /\ OnlyAges(d, e)
    /\ OnlyFresh(d, e)

\* The database stays; the transaction opens, goes on or ends.
LEMMA LawfulTx ==
    ASSUME NEW d, NEW t, NEW u, Branch(d, t), Branch(d, u)
    PROVE  Lawful(d, t, d, u)
<1>1. IsDatabase(d) /\ Part(d.rows, d.rows) /\ d.seq >= d.seq
  BY DEF Branch, Consistent, Part, IsDatabase
<1> QED BY <1>1, PartOnlyAges DEF Lawful

\* A commit, or a write outside any transaction.
LEMMA LawfulCommit ==
    ASSUME NEW d, NEW t, NEW e, Consistent(e, 0), OnlyAges(d, e), OnlyFresh(d, e)
    PROVE  Lawful(d, t, e, NoTx)
BY NoTxBranches DEF Lawful

LEMMA NewRowTyped ==
    ASSUME StoreInv, NEW c \in Creators, tx.owner = c
    PROVE  NewRow(create[c]) \in Row /\ NewRow(create[c]).bytes = create[c].size
<1>1. create[c].pc = "writing"
  BY DEF StoreInv, ConnectionHasALiveOwner
<1>2. create[c].size \in Sizes
  BY <1>1 DEF StoreInv, CreatesFit
<1>3. create[c].now \in Nat /\ create[c].ttl \in Lifetimes \cup {0}
  <2>1. RequestsTyped
    BY DEF StoreInv
  <2> QED BY <2>1 DEF RequestsTyped
<1>4. Sizes \subseteq Nat \ {0} /\ \A t \in Lifetimes \cup {0} : t \in Nat
  BY StoreAssumption
<1>5. create[c].ttl \in Nat
  BY <1>3, <1>4
<1>6. create[c].size \in Nat \ {0}
  BY <1>2, <1>4
<1> QED BY <1>3, <1>5, <1>6 DEF NewRow, Row, NoExpiry

LEMMA BranchStep ==
    ASSUME StoreInv, [Next]_vars
    PROVE  Lawful(db, tx, db', tx')
<1> USE StoreAssumption
<1>0. /\ Branch(db, tx) /\ Consistent(db, 0) /\ IsDatabase(db)
      /\ db.seq \in Nat /\ Part(db.rows, db.rows)
      /\ NoOne \notin Creators \cup {Sweeper}
  BY DEF StoreInv, Branch, Consistent, IsDatabase, Part, NoOne, Sweeper
<1>1. CASE UNCHANGED <<db, tx>>
  BY <1>0, <1>1, LawfulTx
<1>2. CASE EvictStep
  <2>1. Doomed \in SUBSET DOMAIN tx.db.rows
    BY DEF Doomed, EvictLRU
  <2>2. Branch(db, tx') /\ db' = db
    BY <1>0, <1>2, <2>1, EvictBranches DEF EvictStep, Free
  <2> QED BY <1>0, <2>2, LawfulTx
<1>3. ASSUME NEW c \in Creators, BeginCreate(c) PROVE Lawful(db, tx, db', tx')
  <2>1. Excess(db, create[c].size) \in Int
    <3>1. create[c].size \in Nat /\ maxBytes \in Nat /\ db.stored \in Nat
      BY <1>0 DEF StoreInv, RequestsTyped, IsDatabase
    <3> QED BY <3>1 DEF Excess
  <2>2. Branch(db, tx') /\ db' = db
    BY <1>0, <1>3, <2>1, OpenBranches DEF BeginCreate
  <2> QED BY <1>0, <2>2, LawfulTx
<1>4. ASSUME NEW c \in Creators, SkipReserved(c) PROVE Lawful(db, tx, db', tx')
  <2>1. Consistent(tx.db, tx.freed) /\ db.seq <= tx.db.seq /\ Part(tx.db.rows, db.rows)
    BY <1>0, <1>4 DEF SkipReserved, Branch
  <2>2. tx'.db = [rows |-> tx.db.rows, seq |-> Bumped, stored |-> tx.db.stored]
    BY <1>0, <1>4 DEF SkipReserved, Branch, IsDatabase
  <2>3. /\ tx'.owner = tx.owner /\ tx'.need = tx.need /\ tx'.freed = tx.freed
        /\ tx' = [owner |-> tx'.owner, db |-> tx'.db, need |-> tx'.need, freed |-> tx'.freed]
    BY <1>0, <1>4 DEF SkipReserved, Branch
  <2>4. Bumped \in Nat /\ Bumped > tx.db.seq /\ tx.db.seq \in Nat
    BY <1>0 DEF Bumped, Branch, IsDatabase
  <2>5. Consistent(tx'.db, tx'.freed) /\ tx'.db.rows = tx.db.rows /\ tx'.db.seq = Bumped
    BY <2>1, <2>2, <2>3, <2>4 DEF Consistent, IsDatabase, IsTable
  <2>6. Branch(db, tx') /\ db' = db
    BY <1>0, <1>4, <2>1, <2>3, <2>4, <2>5 DEF SkipReserved, Branch, Consistent
  <2> QED BY <1>0, <2>6, LawfulTx
<1>5. ASSUME NEW c \in Creators, CommitCreate(c) PROVE Lawful(db, tx, db', tx')
  <2>1. tx.owner = c /\ tx.owner # NoOne /\ tx' = NoTx
    BY <1>5 DEF CommitCreate
  <2>2. NewRow(create[c]) \in Row /\ NewRow(create[c]).bytes = create[c].size
    BY <2>1, NewRowTyped
  <2>3. tx.db.seq + 1 \notin ReservedSeqs
        /\ db' = AddStoredBytes(Insert(EvictedOf(tx), tx.db.seq + 1, NewRow(create[c])),
                                NewRow(create[c]).bytes)
    BY <1>5, <2>2 DEF CommitCreate, Bumped, Evicted, EvictedOf
  <2>4. Consistent(db', 0) /\ OnlyAges(db, db') /\ OnlyFresh(db, db')
    BY <1>0, <2>1, <2>2, <2>3, CreateCommits
  <2> QED BY <2>1, <2>4, LawfulCommit
<1>6. CASE WriteFlush
  <2>1. IsMap(sweeper.pending)
    BY DEF StoreInv, SweeperTyped
  <2>2. db' = [db EXCEPT !.rows = Touch(db.rows, sweeper.pending)] /\ tx' = tx /\ tx.owner = NoOne
    BY <1>6 DEF WriteFlush, Free
  <2>3. Consistent(db', 0) /\ OnlyAges(db, db') /\ OnlyFresh(db, db')
    BY <1>0, <2>1, <2>2, FlushCommits
  <2>4. Branch(db', tx')
    BY <1>0, <2>2, <2>3 DEF Branch
  <2> QED BY <2>3, <2>4 DEF Lawful
<1>7. CASE BeginSweep
  <2> DEFINE gone == PastLifetime(db.rows, clock)
             d == DeleteRows(db, gone)
  <2>1. gone \in SUBSET DOMAIN db.rows
    BY DEF PastLifetime
  <2>2. tx' = [owner |-> Sweeper, db |-> d, freed |-> 0, need |-> Excess(d, 0)] /\ db' = db
    BY <1>7 DEF BeginSweep
  <2> HIDE DEF gone
  <2>3. Consistent(d, 0) /\ d.rows = Without(db.rows, gone) /\ d.seq = db.seq
    BY <1>0, <2>1, DeleteKeepsConsistent
  <2> HIDE DEF d
  <2>4. Part(d.rows, db.rows) /\ db.seq <= d.seq
    BY <1>0, <2>3 DEF Part, Without, Restrict
  <2>5. Excess(d, 0) \in Int
    <3>1. d.stored \in Nat /\ maxBytes \in Nat
      BY <2>3 DEF Consistent, IsDatabase, StoreInv
    <3> QED BY <3>1 DEF Excess
  <2>6. Branch(db, tx')
    BY <1>0, <2>2, <2>3, <2>4, <2>5, OpenBranches
  <2> QED BY <1>0, <2>2, <2>6, LawfulTx
<1>8. CASE CommitSweep
  <2>1. tx.owner # NoOne /\ tx' = NoTx /\ db' = PastTTLs(EvictedOf(tx), sweeper.now)
    BY <1>8 DEF CommitSweep, Evicted, EvictedOf, NoOne, Sweeper
  <2>2. Consistent(db', 0) /\ OnlyAges(db, db') /\ OnlyFresh(db, db')
    BY <1>0, <2>1, SweepCommits
  <2> QED BY <2>1, <2>2, LawfulCommit
<1>9. CASE (\E c \in Creators : FailCreate(c)) \/ FailSweeper
  <2>1. db' = db /\ (tx' = NoTx \/ tx' = tx)
    BY <1>9 DEF FailCreate, FailSweeper
  <2>2. Branch(db, tx')
    BY <1>0, <2>1, NoTxBranches
  <2> QED BY <1>0, <2>1, <2>2, LawfulTx
<1>10. CASE Restart
  <2>1. PICK kept \in SUBSET DOMAIN db.rows :
          db' = [db EXCEPT !.rows = Restrict(db.rows, kept),
                           !.stored = Bytes(Restrict(db.rows, kept))]
    BY <1>10 DEF Restart
  <2>2. Consistent(db', 0) /\ OnlyAges(db, db') /\ OnlyFresh(db, db')
    BY <1>0, <2>1, OpenReconciles
  <2>3. tx' = NoTx
    BY <1>10 DEF Restart
  <2> QED BY <2>2, <2>3, LawfulCommit
<1>11. CASE UNCHANGED vars
  BY <1>1, <1>11 DEF vars, storeVars
<1>12. ASSUME NEW c \in Creators, CreateStep(c) PROVE Lawful(db, tx, db', tx')
  <2>1. CASE Enter(c) \/ InLine(c) \/ Stamp(c) \/ ReturnCreate(c)
    BY <1>1, <2>1 DEF Enter, InLine, Stamp, ReturnCreate, storeVars
  <2> QED BY <1>3, <1>4, <1>5, <1>9, <1>12, <2>1 DEF CreateStep
<1>13. ASSUME NEW r \in Readers, GetStep(r) PROVE Lawful(db, tx, db', tx')
  BY <1>1, <1>13 DEF GetStep, BeginGet, QueryGet, RecordGet, FailGet
<1>14. CASE SweeperStep
  <2>1. CASE \E sweeping \in BOOLEAN : SwapAccess(sweeping)
    BY <1>1, <2>1 DEF SwapAccess
  <2> QED BY <1>6, <1>7, <1>8, <1>9, <1>14, <2>1 DEF SweeperStep
<1>15. CASE Tick
  BY <1>1, <1>15 DEF Tick
<1> QED BY <1>2, <1>10, <1>11, <1>12, <1>13, <1>14, <1>15 DEF Next

\* The rest of the invariant: requests, the sweeper, and who holds the connection.
ActorsOK ==
    /\ IsMap(access) /\ RequestsTyped /\ SweeperTyped
    /\ maxBytes \in Caps /\ clock \in Nat /\ faults \in Nat
    /\ ConnectionHasALiveOwner
    /\ CreatesFit

LEMMA ActorsStep ==
    ASSUME StoreInv, [Next]_vars
    PROVE  ActorsOK'
<1> USE StoreAssumption
<1>a. ActorsOK /\ Branch(db, tx)
  BY DEF StoreInv, ActorsOK
<1>b. IsMap(EmptyMap) /\ NoTx.owner = NoOne
  BY DEF IsMap, EmptyMap, NoTx
<1>c. NoOne # Sweeper /\ \A c \in Creators : c # Sweeper /\ c # NoOne
  BY DEF NoOne, Sweeper
<1>1. ASSUME UNCHANGED <<create, read>> PROVE RequestsTyped'
  BY <1>a, <1>1 DEF ActorsOK, RequestsTyped
<1>2. ASSUME UNCHANGED sweeper PROVE SweeperTyped'
  BY <1>a, <1>2 DEF ActorsOK, SweeperTyped
<1>3. ASSUME UNCHANGED <<create, sweeper>>, tx'.owner = tx.owner PROVE ConnectionHasALiveOwner'
  BY <1>a, <1>3 DEF ActorsOK, ConnectionHasALiveOwner
<1>4. ASSUME UNCHANGED <<db, create, maxBytes>>,
             \A c \in Creators : tx'.owner = c =>
                tx.owner = c /\ tx'.need = tx.need /\ tx'.db.stored = tx.db.stored
      PROVE  CreatesFit'
  BY <1>a, <1>4 DEF ActorsOK, CreatesFit, Excess
<1>5. CASE UNCHANGED storeVars
  BY <1>a, <1>1, <1>2, <1>3, <1>4, <1>5 DEF ActorsOK, storeVars
<1>6. ASSUME NEW c \in Creators, Stamp(c) PROVE ActorsOK'
  <2>1. PICK size \in Sizes, ttl \in Lifetimes :
          create' = [create EXCEPT ![c] =
            IF maxBytes > 0 /\ size > maxBytes
            THEN [NoCreate EXCEPT !.pc = "return"]
            ELSE [pc |-> "begin", size |-> size, ttl |-> ttl, now |-> clock]]
    BY <1>6 DEF Stamp
  <2>2. create[c].pc = "idle" /\ UNCHANGED <<db, tx, access, maxBytes, read, sweeper, clock, faults>>
    BY <1>6 DEF Stamp
  <2>3. RequestsTyped'
    BY <1>a, <2>1, <2>2 DEF ActorsOK, RequestsTyped, NoCreate
  <2>4. ConnectionHasALiveOwner'
    BY <1>a, <2>1, <2>2 DEF ActorsOK, RequestsTyped, ConnectionHasALiveOwner, NoCreate
  <2>5. CreatesFit'
    <3>1. ~(maxBytes > 0 /\ size > maxBytes) => maxBytes = 0 \/ size <= maxBytes
      BY <1>a DEF ActorsOK
    <3>2. ASSUME NEW k \in Creators
          PROVE  /\ create'[k].pc \in {"begin", "writing"} =>
                      create'[k].size \in Sizes /\ (maxBytes > 0 => create'[k].size <= maxBytes)
                 /\ tx.owner = k => k # c
      BY <1>a, <2>1, <2>2, <3>1 DEF ActorsOK, RequestsTyped, ConnectionHasALiveOwner, CreatesFit, NoCreate
    <3>3. \A k \in Creators : k # c => create'[k] = create[k]
      BY <1>a, <2>1 DEF ActorsOK, RequestsTyped
    <3> QED BY <1>a, <2>2, <3>2, <3>3 DEF ActorsOK, CreatesFit, Excess
  <2> QED BY <1>a, <1>2, <2>2, <2>3, <2>4, <2>5 DEF ActorsOK
<1>7. ASSUME NEW c \in Creators, BeginCreate(c) PROVE ActorsOK'
  <2>1. /\ UNCHANGED <<db, access, maxBytes, read, sweeper, clock, faults>>
        /\ create' = [create EXCEPT ![c].pc = "writing"] /\ create[c].pc = "begin"
        /\ tx.owner = NoOne /\ tx'.owner = c /\ tx'.db = db /\ tx'.need = Excess(db, create[c].size)
    BY <1>7 DEF BeginCreate, Free
  <2>2. RequestsTyped'
    BY <1>a, <2>1 DEF ActorsOK, RequestsTyped
  <2>3. ConnectionHasALiveOwner'
    <3>1. \A k \in Creators : create'[k].pc = IF k = c THEN "writing" ELSE create[k].pc
      BY <1>a, <2>1 DEF ActorsOK, RequestsTyped
    <3>2. /\ \A k \in Creators : create[k].pc # "writing"
          /\ sweeper'.pc # "deleting" /\ c # Sweeper
      BY <1>a, <1>c, <2>1 DEF ActorsOK, ConnectionHasALiveOwner
    <3> QED BY <2>1, <3>1, <3>2 DEF ConnectionHasALiveOwner
  <2>4. CreatesFit'
    <3>1. \A k \in Creators : create'[k].size = create[k].size
            /\ (create'[k].pc \in {"begin", "writing"} <=> create[k].pc \in {"begin", "writing"})
      BY <1>a, <2>1 DEF ActorsOK, RequestsTyped
    <3> QED BY <1>a, <2>1, <3>1 DEF ActorsOK, CreatesFit, Excess
  <2> QED BY <1>a, <1>2, <2>1, <2>2, <2>3, <2>4 DEF ActorsOK
<1>8. ASSUME (\E c \in Creators : SkipReserved(c)) \/ EvictStep PROVE ActorsOK'
  <2>1. UNCHANGED <<db, access, maxBytes, create, read, sweeper, clock, faults>>
        /\ tx'.owner = tx.owner /\ tx'.need = tx.need /\ tx'.db.stored = tx.db.stored
    BY <1>a, <1>8 DEF SkipReserved, EvictStep, Branch, IsDatabase
  <2> QED BY <1>a, <1>1, <1>2, <1>3, <1>4, <2>1 DEF ActorsOK
<1>9. ASSUME NEW c \in Creators, CommitCreate(c) \/ FailCreate(c) PROVE ActorsOK'
  <2>1. /\ UNCHANGED <<access, maxBytes, read, sweeper, clock, faults>>
        /\ create' = [create EXCEPT ![c].pc = "return"] /\ create[c].pc \in {"begin", "writing"}
    BY <1>a, <1>9 DEF CommitCreate, FailCreate, ActorsOK, ConnectionHasALiveOwner
  <2>2. /\ tx.owner = c => tx'.owner = NoOne
        /\ tx.owner # c => tx' = tx /\ db' = db
    BY <1>b, <1>9 DEF CommitCreate, FailCreate
  <2>3. /\ \A k \in Creators : create'[k].size = create[k].size
        /\ \A k \in Creators : k # c => create'[k].pc = create[k].pc
        /\ create'[c].pc = "return"
    BY <1>a, <2>1 DEF ActorsOK, RequestsTyped
  <2>4. RequestsTyped'
    BY <1>a, <2>1 DEF ActorsOK, RequestsTyped
  <2>5. ConnectionHasALiveOwner'
    <3>1. CASE tx.owner = c
      <4>1. sweeper'.pc # "deleting" /\ tx'.owner # Sweeper /\ \A k \in Creators : tx'.owner # k
        BY <1>a, <1>c, <2>1, <2>2, <3>1 DEF ActorsOK, ConnectionHasALiveOwner
      <4>2. \A k \in Creators : create'[k].pc # "writing"
        BY <1>a, <2>3, <3>1 DEF ActorsOK, ConnectionHasALiveOwner
      <4> QED BY <4>1, <4>2 DEF ConnectionHasALiveOwner
    <3>2. CASE tx.owner # c
      BY <1>a, <2>1, <2>2, <2>3, <3>2 DEF ActorsOK, ConnectionHasALiveOwner
    <3> QED BY <3>1, <3>2
  <2>6. CreatesFit'
    <3>1. CASE tx.owner = c
      BY <1>a, <2>1, <2>2, <2>3, <3>1 DEF ActorsOK, CreatesFit
    <3>2. CASE tx.owner # c
      BY <1>a, <2>1, <2>2, <2>3, <3>2 DEF ActorsOK, CreatesFit, Excess
    <3> QED BY <3>1, <3>2
  <2> QED BY <1>a, <1>2, <2>1, <2>4, <2>5, <2>6 DEF ActorsOK
<1>10. ASSUME NEW c \in Creators, ReturnCreate(c) PROVE ActorsOK'
  <2>1. UNCHANGED <<db, tx, access, maxBytes, read, sweeper, clock, faults>>
        /\ create' = [create EXCEPT ![c] = NoCreate] /\ create[c].pc = "return"
    BY <1>10 DEF ReturnCreate
  <2>2. RequestsTyped'
    BY <1>a, <2>1 DEF ActorsOK, RequestsTyped, NoCreate
  <2>3. /\ \A k \in Creators : k # c => create'[k] = create[k]
        /\ create'[c].pc = "idle"
    BY <1>a, <2>1 DEF ActorsOK, RequestsTyped, NoCreate
  <2>4. ConnectionHasALiveOwner' /\ CreatesFit'
    BY <1>a, <2>1, <2>3 DEF ActorsOK, ConnectionHasALiveOwner, CreatesFit, Excess
  <2> QED BY <1>a, <1>2, <2>1, <2>2, <2>4 DEF ActorsOK
<1>11. ASSUME NEW r \in Readers, GetStep(r) PROVE ActorsOK'
  <2>1. UNCHANGED <<db, tx, maxBytes, create, sweeper, clock, faults>>
    BY <1>11 DEF GetStep, BeginGet, QueryGet, RecordGet, FailGet
  <2>2. RequestsTyped'
    <3>1. CASE BeginGet(r)
      BY <1>a, <2>1, <3>1 DEF BeginGet, ActorsOK, RequestsTyped
    <3>2. CASE QueryGet(r)
      BY <1>a, <2>1, <3>2 DEF QueryGet, ActorsOK, RequestsTyped, NoRead
    <3>3. CASE RecordGet(r) \/ FailGet(r)
      BY <1>a, <2>1, <3>3 DEF RecordGet, FailGet, ActorsOK, RequestsTyped, NoRead
    <3> QED BY <1>11, <3>1, <3>2, <3>3 DEF GetStep
  <2>3. IsMap(access)'
    <3>1. CASE RecordGet(r)
      <4>1. read[r].seq \in Nat /\ read[r].now \in Nat
        BY <1>a DEF ActorsOK, RequestsTyped
      <4> QED BY <1>a, <3>1, <4>1 DEF RecordGet, ActorsOK, IsMap
    <3>2. CASE access' = access
      BY <1>a, <3>2 DEF ActorsOK
    <3> QED BY <1>11, <3>1, <3>2 DEF GetStep, BeginGet, QueryGet, FailGet
  <2> QED BY <1>a, <1>2, <1>3, <1>4, <2>1, <2>2, <2>3 DEF ActorsOK
<1>12. CASE SweeperStep
  <2>1. UNCHANGED <<maxBytes, create, read, clock>>
    BY <1>12 DEF SweeperStep, SwapAccess, WriteFlush, BeginSweep, CommitSweep, FailSweeper
  <2>2. IsMap(access)' /\ faults' \in Nat
    <3>1. access' = access \/ access' = EmptyMap
      BY <1>12 DEF SweeperStep, SwapAccess, WriteFlush, BeginSweep, CommitSweep, FailSweeper
    <3>2. faults' = faults \/ faults' = faults + 1
      BY <1>12 DEF SweeperStep, SwapAccess, WriteFlush, BeginSweep, CommitSweep, FailSweeper
    <3> QED BY <1>a, <1>b, <3>1, <3>2 DEF ActorsOK
  <2>3. SweeperTyped' /\ ConnectionHasALiveOwner'
    <3>1. Asleep = [pc |-> "idle", sweeping |-> FALSE, pending |-> EmptyMap, now |-> 0]
      BY DEF Asleep
    <3>2. ASSUME NEW sweeping \in BOOLEAN, SwapAccess(sweeping)
          PROVE  SweeperTyped' /\ ConnectionHasALiveOwner'
      <4>1. sweeper' = [pc |-> sweeper'.pc, sweeping |-> sweeping, pending |-> access, now |-> 0]
            /\ sweeper'.pc \in {"flush", "sweep", "idle"} /\ sweeper.pc \in {"idle", "start"}
            /\ tx' = tx /\ create' = create
        BY <3>1, <3>2 DEF SwapAccess
      <4>2. SweeperTyped'
        BY <1>a, <4>1 DEF ActorsOK, SweeperTyped
      <4> QED BY <1>a, <4>1, <4>2 DEF ActorsOK, ConnectionHasALiveOwner
    <3>3. ASSUME WriteFlush \/ CommitSweep \/ FailSweeper
          PROVE  SweeperTyped' /\ ConnectionHasALiveOwner'
      <4>1. /\ sweeper' = [pc |-> sweeper'.pc, sweeping |-> sweeper'.sweeping,
                           pending |-> EmptyMap, now |-> 0]
            /\ sweeper'.pc \in {"idle", "sweep"} /\ sweeper'.sweeping \in BOOLEAN
            /\ create' = create
        <5>1. sweeper' = Asleep \/ sweeper' = [Asleep EXCEPT !.pc = "sweep", !.sweeping = TRUE]
          BY <3>3 DEF WriteFlush, CommitSweep, FailSweeper
        <5>2. create' = create
          BY <3>3 DEF WriteFlush, CommitSweep, FailSweeper
        <5>3. CASE sweeper' = Asleep
          BY <3>1, <5>2, <5>3
        <5>4. CASE sweeper' = [Asleep EXCEPT !.pc = "sweep", !.sweeping = TRUE]
          <6>1. sweeper' = [pc |-> "sweep", sweeping |-> TRUE, pending |-> EmptyMap, now |-> 0]
            BY <5>4 DEF Asleep
          <6> QED BY <5>2, <6>1
        <5> QED BY <5>1, <5>3, <5>4
      <4>2. tx'.owner # Sweeper /\ \A c \in Creators : tx'.owner = c <=> tx.owner = c
        BY <1>a, <1>b, <1>c, <3>3 DEF WriteFlush, CommitSweep, FailSweeper, Free
      <4>3. SweeperTyped'
        BY <1>b, <4>1 DEF SweeperTyped
      <4> QED BY <1>a, <4>1, <4>2, <4>3 DEF ActorsOK, ConnectionHasALiveOwner
    <3>4. ASSUME BeginSweep
          PROVE  SweeperTyped' /\ ConnectionHasALiveOwner'
      <4>1. /\ sweeper' = [sweeper EXCEPT !.pc = "deleting", !.now = clock]
            /\ create' = create /\ tx.owner = NoOne /\ tx'.owner = Sweeper
        BY <3>4 DEF BeginSweep, Free
      <4>2. SweeperTyped' /\ sweeper'.pc = "deleting"
        BY <1>a, <4>1 DEF ActorsOK, SweeperTyped
      <4> QED BY <1>a, <1>c, <4>1, <4>2 DEF ActorsOK, ConnectionHasALiveOwner
    <3> QED BY <1>12, <3>2, <3>3, <3>4 DEF SweeperStep
  <2>4. CreatesFit'
    <3>1. ASSUME NEW c \in Creators, tx'.owner = c PROVE tx' = tx /\ db' = db
      <4>1. CASE (\E sweeping \in BOOLEAN : SwapAccess(sweeping)) \/ FailSweeper
        BY <1>b, <1>c, <3>1, <4>1 DEF SwapAccess, FailSweeper
      <4>2. CASE WriteFlush \/ BeginSweep \/ CommitSweep
        BY <1>b, <1>c, <3>1, <4>2 DEF WriteFlush, BeginSweep, CommitSweep, Free
      <4> QED BY <1>12, <4>1, <4>2 DEF SweeperStep
    <3> QED BY <1>a, <2>1, <3>1 DEF ActorsOK, CreatesFit, Excess
  <2> QED BY <1>a, <1>1, <2>1, <2>2, <2>3, <2>4 DEF ActorsOK
<1>13. CASE Tick
  BY <1>a, <1>1, <1>2, <1>3, <1>4, <1>13 DEF Tick, ActorsOK
<1>14. CASE Restart
  <2>1. /\ tx' = NoTx /\ access' = EmptyMap /\ maxBytes' \in Caps
        /\ create' = [c \in Creators |-> NoCreate] /\ read' = [r \in Readers |-> NoRead]
        /\ sweeper' = [Asleep EXCEPT !.pc = "start"]
        /\ clock' = clock /\ faults' = faults + 1
    BY <1>14 DEF Restart
  <2>2. RequestsTyped'
    BY <2>1 DEF RequestsTyped, NoCreate, NoRead
  <2>3. SweeperTyped' /\ sweeper'.pc = "start"
    BY <1>b, <2>1 DEF SweeperTyped, Asleep
  <2>4. \A c \in Creators : create'[c].pc = "idle" /\ tx'.owner # c
    BY <1>b, <2>1 DEF NoCreate
  <2>5. ConnectionHasALiveOwner' /\ CreatesFit'
    BY <1>b, <1>c, <2>1, <2>3, <2>4 DEF ConnectionHasALiveOwner, CreatesFit
  <2> QED BY <1>a, <1>b, <2>1, <2>2, <2>3, <2>5 DEF ActorsOK
<1>15. CASE UNCHANGED vars
  BY <1>5, <1>15 DEF vars
<1>16. ASSUME NEW c \in Creators, CreateStep(c) PROVE ActorsOK'
  BY <1>5, <1>6, <1>7, <1>8, <1>9, <1>10, <1>16 DEF CreateStep, Enter, InLine
<1> QED BY <1>8, <1>11, <1>12, <1>13, <1>14, <1>15, <1>16 DEF Next

\* The gate's own copies of the notions of FiniteSets.
LEMMA GateAssumptionHolds ==
    GateP!IsFiniteSet(Creators) /\ WriteConcurrency \in Nat /\ WriteQueue \in Nat
BY StoreAssumption DEF IsFiniteSet, GateP!IsFiniteSet

LEMMA SameCardinality == \A S : GateP!Cardinality(S) = Gate!Cardinality(S)
BY DEF GateP!Cardinality, Gate!Cardinality, GateP!IsFiniteSet, Gate!IsFiniteSet

LEMMA GateStepInStore ==
    ASSUME StoreInv, [Next]_vars
    PROVE  (GateP!GateInv /\ \A c \in Creators : create[c].pc # "idle" => place[c] = "writing")'
<1>0. /\ GateP!GateInv /\ create \in [Creators -> [pc : {"idle", "begin", "writing", "return"},
                              size : Sizes \cup {0}, ttl : Lifetimes \cup {0}, now : Nat]]
      /\ place \in [Creators -> GateP!Places]
      /\ \A c \in Creators : create[c].pc # "idle" => place[c] = "writing"
  BY DEF StoreInv, RequestsTyped, GateP!GateInv, GateP!TypeOK
<1>1. ASSUME NEW c \in Creators, Gate!Enter(c) \/ Gate!Take(c) \/ Gate!GiveUp(c) \/ Gate!Depart(c)
                                   \/ Gate!Release(c)
      PROVE  /\ GateP!GateInv'
             /\ \A k \in Creators : k # c => place'[k] = place[k]
             /\ create[c].pc # "idle" => Gate!Release(c)
  <2>1. GateP!Next
    BY <1>1 DEF GateP!Next, Gate!Enter, GateP!Enter, Gate!Take, GateP!Take, Gate!GiveUp, GateP!GiveUp,
                Gate!Depart, GateP!Depart, Gate!Release, GateP!Release
  <2>2. GateP!GateInv'
    BY <1>0, <2>1, GateAssumptionHolds, GateP!GateStep
  <2>3. \A k \in Creators : k # c => place'[k] = place[k]
    BY <1>0, <1>1 DEF Gate!Enter, Gate!Take, Gate!GiveUp, Gate!Depart, Gate!Release
  <2>4. create[c].pc # "idle" => Gate!Release(c)
    BY <1>0, <1>1 DEF Gate!Enter, Gate!Take, Gate!GiveUp, Gate!Depart
  <2> QED BY <2>2, <2>3, <2>4
<1>2. ASSUME UNCHANGED gateVars PROVE GateP!GateInv' /\ place' = place
  <2>1. UNCHANGED GateP!gateVars
    BY <1>2 DEF gateVars, GateP!gateVars
  <2>2. GateP!GateInv'
    BY <1>0, <2>1, GateAssumptionHolds, GateP!GateStep
  <2> QED BY <1>2, <2>2 DEF gateVars
<1>3. ASSUME NEW c \in Creators, Enter(c) \/ InLine(c)
      PROVE  (GateP!GateInv /\ \A k \in Creators : create[k].pc # "idle" => place[k] = "writing")'
  <2>1. create' = create /\ (Gate!Enter(c) \/ Gate!Take(c) \/ Gate!GiveUp(c) \/ Gate!Depart(c))
    BY <1>3 DEF Enter, InLine, storeVars
  <2>2. create[c].pc = "idle"
    BY <1>0, <2>1 DEF Gate!Enter, Gate!Take, Gate!GiveUp, Gate!Depart
  <2> QED BY <1>0, <1>1, <2>1, <2>2
<1>4. ASSUME NEW c \in Creators, ReturnCreate(c)
      PROVE  (GateP!GateInv /\ \A k \in Creators : create[k].pc # "idle" => place[k] = "writing")'
  <2>1. Gate!Release(c) /\ \A k \in Creators : create'[k] = IF k = c THEN NoCreate ELSE create[k]
    BY <1>0, <1>4 DEF ReturnCreate
  <2> QED BY <1>0, <1>1, <2>1 DEF NoCreate
<1>5. ASSUME NEW c \in Creators,
             Stamp(c) \/ BeginCreate(c) \/ SkipReserved(c) \/ CommitCreate(c) \/ FailCreate(c)
      PROVE  (GateP!GateInv /\ \A k \in Creators : create[k].pc # "idle" => place[k] = "writing")'
  <2>1. UNCHANGED gateVars
    BY <1>5 DEF Stamp, BeginCreate, SkipReserved, CommitCreate, FailCreate
  <2>2. \A k \in Creators : k # c => create'[k] = create[k]
    BY <1>0, <1>5 DEF Stamp, BeginCreate, SkipReserved, CommitCreate, FailCreate
  <2>3. place[c] = "writing" \/ create'[c] = create[c]
    BY <1>0, <1>5 DEF Stamp, BeginCreate, SkipReserved, CommitCreate, FailCreate, StoreInv,
                      ConnectionHasALiveOwner
  <2> QED BY <1>0, <1>2, <2>1, <2>2, <2>3
<1>6. ASSUME UNCHANGED gateVars, UNCHANGED create
      PROVE  (GateP!GateInv /\ \A k \in Creators : create[k].pc # "idle" => place[k] = "writing")'
  BY <1>0, <1>2, <1>6
<1>7. CASE Restart
  <2>1. /\ place' = [c \in Creators |-> "out"] /\ queued' = 0 /\ slots' = 0
        /\ create' = [c \in Creators |-> NoCreate]
    BY <1>7 DEF Restart
  <2>2. GateP!GateInv'
    BY <2>1, GateAssumptionHolds, GateP!GateRestart
  <2> QED BY <2>1, <2>2 DEF NoCreate
<1>8. ASSUME NEW r \in Readers, GetStep(r) PROVE UNCHANGED gateVars /\ UNCHANGED create
  BY <1>8 DEF GetStep, BeginGet, QueryGet, RecordGet, FailGet
<1>9. ASSUME SweeperStep \/ EvictStep \/ Tick \/ UNCHANGED vars
      PROVE  UNCHANGED gateVars /\ UNCHANGED create
  BY <1>9 DEF SweeperStep, SwapAccess, WriteFlush, BeginSweep, CommitSweep, FailSweeper, EvictStep,
              Tick, vars, storeVars
<1> QED BY <1>3, <1>4, <1>5, <1>6, <1>7, <1>8, <1>9 DEF Next, CreateStep

-----------------------------------------------------------------------------
(* The cap.                                                                *)

\* What a Create commits fits: either the loop freed what was missing, or it
\* emptied the table, and a single body is never larger than the cap.
LEMMA CommitFits ==
    ASSUME StoreInv, NEW c \in Creators, CommitCreate(c), maxBytes > 0
    PROVE  Bytes(db'.rows) <= maxBytes
<1> DEFINE size == create[c].size
           n == tx.db.seq + 1
<1>1. tx.owner = c /\ tx.owner # NoOne /\ n \notin ReservedSeqs /\ ~Evicting
      /\ db' = AddStoredBytes(Insert(Evicted, Bumped, NewRow(create[c])), create[c].size)
  BY StoreAssumption DEF CommitCreate, Bumped
<1>2. Branch(db, tx) /\ maxBytes \in Nat
  BY StoreAssumption DEF StoreInv
<1>3. create[c].pc = "writing"
  BY <1>1 DEF StoreInv, ConnectionHasALiveOwner
<1>4. size \in Sizes /\ size <= maxBytes
      /\ tx.need = Excess(db, size) /\ tx.db.stored = db.stored
  BY <1>1, <1>3 DEF StoreInv, CreatesFit
<1>5. NewRow(create[c]) \in Row /\ NewRow(create[c]).bytes = size
  BY <1>1, NewRowTyped
<1>6. size \in Nat
  BY <1>4, StoreAssumption
<1>7. /\ IsTable(tx.db.rows) /\ tx.db.seq \in Nat /\ tx.freed \in Nat
      /\ \A s \in DOMAIN tx.db.rows : s <= tx.db.seq
      /\ tx.db.stored = Bytes(tx.db.rows) + tx.freed /\ Bytes(tx.db.rows) \in Nat
  BY <1>1, <1>2, BytesIsNat DEF Branch, Consistent, IsDatabase
<1>8. db'.rows = With(tx.db.rows, n, NewRow(create[c]))
  <2>1. db' = AddStoredBytes(Insert(EvictedOf(tx), n, NewRow(create[c])), NewRow(create[c]).bytes)
    BY <1>1, <1>5 DEF Bumped, Evicted, EvictedOf
  <2> QED BY <1>1, <1>2, <1>5, <2>1, CreateCommits
<1>9. Bytes(db'.rows) = Bytes(tx.db.rows) + size
  <2>1. n \in Nat \ {0} /\ n \notin DOMAIN tx.db.rows
    BY <1>7
  <2> QED BY <1>5, <1>7, <1>8, <2>1, BytesInsert
<1>10. tx.need \in Int /\ tx.need = Bytes(tx.db.rows) + tx.freed + size - maxBytes
  <2>1. tx.need = db.stored + size - maxBytes
    BY <1>4 DEF Excess
  <2>2. db.stored = Bytes(tx.db.rows) + tx.freed
    BY <1>4, <1>7
  <2> HIDE DEF size
  <2> QED BY <1>2, <1>6, <1>7, <2>1, <2>2
<1> HIDE DEF size
<1>11. CASE tx.freed >= tx.need
  <2>1. Bytes(tx.db.rows) + size <= maxBytes
    BY <1>2, <1>6, <1>7, <1>10, <1>11
  <2> QED BY <1>9, <2>1
<1>12. CASE tx.freed < tx.need
  <2>1. EvictLRU(tx.db.rows, EvictBatch, tx.need - tx.freed) = {}
    BY <1>1, <1>12 DEF Evicting, Doomed
  <2>2. tx.need - tx.freed \in Int /\ tx.need - tx.freed > 0
    BY <1>7, <1>10, <1>12
  <2>3. DOMAIN tx.db.rows = {}
    BY <1>7, <2>1, <2>2, SomethingToEvict, StoreAssumption
  <2>4. Bytes(tx.db.rows) = 0
    BY <2>3, FS_EmptySet DEF Bytes, BytePositions
  <2> QED BY <1>4, <1>6, <1>9, <2>4
<1> QED BY <1>7, <1>10, <1>11, <1>12

\* Only a Create makes the table bigger.
LEMMA OnlyCreateGrows ==
    ASSUME StoreInv, [Next]_vars, Bytes(db'.rows) > Bytes(db.rows)
    PROVE  \E c \in Creators : CommitCreate(c)
<1>0. Branch(db, tx) /\ Consistent(db, 0) /\ IsTable(db.rows) /\ Bytes(db.rows) \in Nat
  BY BytesIsNat DEF StoreInv, Branch, Consistent, IsDatabase
<1>1. \/ \E c \in Creators : CommitCreate(c)
      \/ WriteFlush \/ CommitSweep \/ Restart
      \/ db' = db
  BY DEF Next, CreateStep, Enter, InLine, Stamp, BeginCreate, SkipReserved, FailCreate, ReturnCreate,
         GetStep, BeginGet, QueryGet, RecordGet, FailGet, SweeperStep, SwapAccess, BeginSweep,
         FailSweeper, EvictStep, Tick, vars, storeVars
<1>2. CASE WriteFlush
  <2>1. sweeper.pending \in [DOMAIN sweeper.pending -> Nat]
    BY DEF StoreInv, SweeperTyped, IsMap
  <2>2. db'.rows = Touch(db.rows, sweeper.pending)
    BY <1>0, <1>2 DEF WriteFlush, Consistent, IsDatabase
  <2>3. Bytes(db'.rows) = Bytes(db.rows)
    BY <1>0, <2>1, <2>2, TouchKeepsBytes
  <2> QED BY <1>0, <2>3
<1>3. ASSUME Part(db'.rows, db.rows), IsTable(db'.rows) PROVE FALSE
  <2>1. Bytes(db'.rows) <= Bytes(db.rows) /\ Bytes(db'.rows) \in Nat
    BY <1>0, <1>3, PartIsNoBigger, BytesIsNat
  <2> QED BY <1>0, <2>1
<1>4. IsTable(db'.rows)
  BY BranchStep DEF Lawful, Branch, Consistent, IsDatabase
<1>5. CASE CommitSweep
  <2>1. tx.owner # NoOne /\ db' = PastTTLs(EvictedOf(tx), sweeper.now)
    BY <1>5 DEF CommitSweep, Evicted, EvictedOf, NoOne, Sweeper
  <2>2. Part(db'.rows, tx.db.rows) /\ Part(tx.db.rows, db.rows)
    BY <1>0, <2>1, EvictedIsExact, TTLsDelete DEF Branch
  <2> QED BY <1>3, <1>4, <2>2 DEF Part
<1>6. CASE Restart
  <2>1. PICK kept \in SUBSET DOMAIN db.rows :
          db' = [db EXCEPT !.rows = Restrict(db.rows, kept),
                           !.stored = Bytes(Restrict(db.rows, kept))]
    BY <1>6 DEF Restart
  <2>2. db'.rows = Restrict(db.rows, kept)
    BY <1>0, <2>1 DEF Consistent, IsDatabase
  <2>3. Part(db'.rows, db.rows)
    BY <2>2 DEF Part, Restrict
  <2> QED BY <1>3, <1>4, <2>3
<1>7. CASE db' = db
  BY <1>0, <1>7
<1> QED BY <1>1, <1>2, <1>5, <1>6, <1>7

-----------------------------------------------------------------------------
(* The invariant, and what it means for whoever uses the store.            *)

LEMMA StoreInit == Init => StoreInv
<1> SUFFICES ASSUME Init PROVE StoreInv
  OBVIOUS
<1> USE StoreAssumption
<1>1. Branch(db, tx)
  BY ConsistentAtStart, NoTxBranches DEF Init
<1>2. IsMap(EmptyMap) /\ NoTx.owner = NoOne /\ NoOne # Sweeper
      /\ \A c \in Creators : NoCreate.pc = "idle" /\ c # NoOne /\ c # Sweeper
  BY DEF IsMap, EmptyMap, NoTx, NoCreate, NoOne, Sweeper
<1>3. IsMap(access) /\ RequestsTyped /\ maxBytes \in Caps /\ clock \in Nat /\ faults \in Nat
  BY <1>2 DEF Init, RequestsTyped, NoCreate, NoRead
<1>4. SweeperTyped /\ sweeper.pc = "start"
  BY <1>2 DEF Init, SweeperTyped, Asleep
<1>5. ConnectionHasALiveOwner /\ CreatesFit
  BY <1>2, <1>4 DEF Init, ConnectionHasALiveOwner, CreatesFit
<1>6. GateP!GateInv
  BY GateAssumptionHolds, GateP!GateInit DEF Init, Gate!Init, GateP!Init
<1>7. \A c \in Creators : create[c].pc = "idle"
  BY <1>2 DEF Init
<1> QED BY <1>1, <1>3, <1>4, <1>5, <1>6, <1>7 DEF StoreInv

LEMMA StoreStep == StoreInv /\ [Next]_vars => StoreInv'
<1> SUFFICES ASSUME StoreInv, [Next]_vars PROVE StoreInv'
  OBVIOUS
<1>1. Branch(db', tx')
  BY BranchStep DEF Lawful
<1>2. ActorsOK'
  BY ActorsStep
<1>3. (GateP!GateInv /\ \A c \in Creators : create[c].pc # "idle" => place[c] = "writing")'
  BY GateStepInStore
<1> QED BY <1>1, <1>2, <1>3 DEF StoreInv, ActorsOK

\* Every variable of the store keeps its type, for any number of requests and any
\* sizes, lifetimes, caps, TTLs and limits.
THEOREM TypeCorrect == Spec => []TypeOK
<1>1. StoreInv => TypeOK
  <2>1. GateP!GateInv => Gate!TypeOK
    BY DEF GateP!GateInv, GateP!TypeOK, Gate!TypeOK, Gate!Places, GateP!Places
  <2> QED BY <2>1 DEF StoreInv, TypeOK, TxTyped, Branch, Consistent
<1> QED BY <1>1, StoreInit, StoreStep, PTL DEF Spec

\* The byte counter that admission to the cap and the eviction rely on is the
\* total of the rows, and inside a transaction it lags by what evict has freed.
THEOREM CounterIsExact == Spec => [](StoredBytesExact /\ TxCounterLagsByFreed)
<1>1. StoreInv => StoredBytesExact /\ TxCounterLagsByFreed
  <2>1. StoreInv => Bytes(db.rows) \in Nat
    BY BytesIsNat DEF StoreInv, Branch, Consistent, IsDatabase
  <2> QED BY <2>1 DEF StoreInv, StoredBytesExact, TxCounterLagsByFreed, Branch, Consistent
<1> QED BY <1>1, StoreInit, StoreStep, PTL DEF Spec

\* No return path leaves a transaction open, nor the connection with anyone who has
\* gone: whoever holds it is at a step that will give it back, whatever way each
\* Create, flush and sweep ends.
THEOREM NoTransactionIsOrphaned == Spec => []ConnectionHasALiveOwner
<1>1. StoreInv => ConnectionHasALiveOwner
  BY DEF StoreInv
<1> QED BY <1>1, StoreInit, StoreStep, PTL DEF Spec

\* Admission counts the callers really there, whatever way each Create ends.
THEOREM AdmissionSurvivesCreate == Spec => []AdmissionIntact
<1>1. StoreInv => AdmissionIntact
  <2>1. GateP!GateInv => Gate!QueuedCountsCallersInside /\ Gate!SlotsCountHolders
    BY SameCardinality
       DEF GateP!GateInv, GateP!QueuedCountsCallersInside, GateP!SlotsCountHolders, GateP!At,
           Gate!QueuedCountsCallersInside, Gate!SlotsCountHolders, Gate!At
  <2> QED BY <2>1 DEF StoreInv, AdmissionIntact
<1> QED BY <1>1, StoreInit, StoreStep, PTL DEF Spec

\* Recency only moves forward and nothing else of a committed row ever changes.
THEOREM RecencyIsMonotone == Spec => RowsAgeForward
<1>1. StoreInv /\ [Next]_vars =>
        [\A s \in DOMAIN db.rows \cap DOMAIN db'.rows :
             /\ db'.rows[s].accessed >= db.rows[s].accessed
             /\ db'.rows[s] = [db.rows[s] EXCEPT !.accessed = db'.rows[s].accessed]]_vars
  BY BranchStep DEF Lawful, OnlyAges
<1> QED BY <1>1, StoreInit, StoreStep, PTL DEF Spec, RowsAgeForward

\* No sequence number, and so no share code of one setting, is given out twice.
THEOREM NumbersAreFresh == Spec => SeqsAreFresh
<1>1. StoreInv /\ [Next]_vars =>
        [/\ db'.seq >= db.seq
         /\ \A s \in DOMAIN db'.rows \ DOMAIN db.rows :
              s > db.seq /\ s \notin ReservedSeqs /\ db'.seq >= s]_vars
  BY BranchStep DEF Lawful, OnlyFresh
<1> QED BY <1>1, StoreInit, StoreStep, PTL DEF Spec, SeqsAreFresh

\* The cap is hard: whatever the sizes, the cap, the batch, the clock and the
\* interleaving, no commit lets the stored bytes grow beyond it.
THEOREM CapIsHard == Spec => NeverGrowsPastCap
<1>1. StoreInv /\ [Next]_vars =>
        [maxBytes' > 0 /\ Bytes(db'.rows) > Bytes(db.rows) => Bytes(db'.rows) <= maxBytes']_vars
  <2> SUFFICES ASSUME StoreInv, [Next]_vars, maxBytes' > 0, Bytes(db'.rows) > Bytes(db.rows)
               PROVE  Bytes(db'.rows) <= maxBytes'
    OBVIOUS
  <2>1. PICK c \in Creators : CommitCreate(c)
    BY OnlyCreateGrows
  <2>2. maxBytes' = maxBytes
    BY <2>1 DEF CommitCreate
  <2> QED BY <2>1, <2>2, CommitFits
<1> QED BY <1>1, StoreInit, StoreStep, PTL DEF Spec, NeverGrowsPastCap

\* The access time of a row that stays is changed by a flush only, to the time queued.
LEMMA OnlyFlushRenews ==
    ASSUME StoreInv, [Next]_vars, NEW s \in DOMAIN db.rows, s \in DOMAIN db'.rows,
           db'.rows[s].accessed # db.rows[s].accessed
    PROVE  /\ WriteFlush
           /\ s \in DOMAIN sweeper.pending
           /\ db'.rows[s].accessed = sweeper.pending[s]
<1>0. Branch(db, tx) /\ Consistent(db, 0) /\ IsTable(db.rows)
  BY DEF StoreInv, Branch, Consistent, IsDatabase
<1>1. \/ \E c \in Creators : CommitCreate(c)
      \/ WriteFlush \/ CommitSweep \/ Restart
      \/ db' = db
  BY DEF Next, CreateStep, Enter, InLine, Stamp, BeginCreate, SkipReserved, FailCreate, ReturnCreate,
         GetStep, BeginGet, QueryGet, RecordGet, FailGet, SweeperStep, SwapAccess, BeginSweep,
         FailSweeper, EvictStep, Tick, vars, storeVars
<1>2. CASE WriteFlush
  <2>1. db'.rows = Touch(db.rows, sweeper.pending)
    BY <1>0, <1>2 DEF WriteFlush, Consistent, IsDatabase
  <2>2. s \in DOMAIN sweeper.pending /\ db.rows[s].accessed < sweeper.pending[s]
    BY <2>1 DEF Touch
  <2>3. db'.rows[s] = [db.rows[s] EXCEPT !.accessed = sweeper.pending[s]]
    BY <2>1, <2>2 DEF Touch
  <2>4. db.rows[s] \in Row
    BY <1>0 DEF IsTable
  <2> QED BY <1>2, <2>2, <2>3, <2>4 DEF Row
<1>3. CASE CommitSweep
  <2>1. tx.owner # NoOne /\ db' = PastTTLs(EvictedOf(tx), sweeper.now)
    BY <1>3 DEF CommitSweep, Evicted, EvictedOf, NoOne, Sweeper
  <2>2. Part(db'.rows, tx.db.rows) /\ Part(tx.db.rows, db.rows)
    BY <1>0, <2>1, EvictedIsExact, TTLsDelete DEF Branch
  <2> QED BY <2>2 DEF Part
<1>4. CASE Restart
  <2>1. PICK kept \in SUBSET DOMAIN db.rows :
          db' = [db EXCEPT !.rows = Restrict(db.rows, kept),
                           !.stored = Bytes(Restrict(db.rows, kept))]
    BY <1>4 DEF Restart
  <2>2. db'.rows = Restrict(db.rows, kept)
    BY <1>0, <2>1 DEF Consistent, IsDatabase
  <2> QED BY <2>2 DEF Restrict
<1>5. ASSUME NEW c \in Creators, CommitCreate(c) PROVE FALSE
  <2>1. tx.owner = c /\ tx.owner # NoOne
    BY <1>5, StoreAssumption DEF CommitCreate
  <2>2. NewRow(create[c]) \in Row /\ NewRow(create[c]).bytes = create[c].size
    BY <2>1, NewRowTyped
  <2>3. tx.db.seq + 1 \notin ReservedSeqs
        /\ db' = AddStoredBytes(Insert(EvictedOf(tx), tx.db.seq + 1, NewRow(create[c])),
                                NewRow(create[c]).bytes)
    BY <1>5, <2>2 DEF CommitCreate, Bumped, Evicted, EvictedOf
  <2>4. db'.rows = With(tx.db.rows, tx.db.seq + 1, NewRow(create[c]))
    BY <1>0, <2>1, <2>2, <2>3, CreateCommits
  <2>5. s <= db.seq /\ db.seq <= tx.db.seq /\ db.seq \in Nat /\ tx.db.seq \in Nat /\ s \in Nat
    BY <1>0, <2>1 DEF Branch, Consistent, IsDatabase, IsTable
  <2>6. s # tx.db.seq + 1
    BY <2>5
  <2>7. s \in DOMAIN tx.db.rows /\ db'.rows[s] = tx.db.rows[s]
    BY <2>4, <2>6 DEF With
  <2>8. tx.db.rows[s] = db.rows[s]
    BY <1>0, <2>1, <2>7 DEF Branch, Part
  <2> QED BY <2>7, <2>8
<1> QED BY <1>1, <1>2, <1>3, <1>4, <1>5

\* What a cutoff lets pass, an earlier one lets pass.
LEMMA CutoffOnlyRises ==
    ASSUME NEW now \in Nat, NEW later \in Nat, later >= now, NEW ttl \in Nat, NEW at \in Nat,
           Cutoff(later, ttl) = 0 \/ at > Cutoff(later, ttl)
    PROVE  Cutoff(now, ttl) = 0 \/ at > Cutoff(now, ttl)
BY DEF Cutoff

\* What a reader is served depends on the part of a row that never changes, on its
\* access time and on the clock, which only brings death nearer.
LEMMA OnlyReadsRevive ==
    ASSUME StoreInv, [Next]_vars, NEW s \in 1 .. db.seq, ~Found(s, clock), Found(s, clock)'
    PROVE  /\ WriteFlush
           /\ s \in DOMAIN db.rows
           /\ Served(db.rows[s], clock, 0, Cutoff(clock, TTLCreate))
           /\ s \in DOMAIN sweeper.pending
           /\ sweeper.pending[s] > Cutoff(clock, TTLAccess)
<1> USE StoreAssumption
<1>1. clock \in Nat /\ clock' \in Nat /\ clock' >= clock
  <2>1. clock' = clock \/ Tick
    BY DEF Next, CreateStep, Enter, InLine, Stamp, BeginCreate, SkipReserved, CommitCreate, FailCreate,
           ReturnCreate, GetStep, BeginGet, QueryGet, RecordGet, FailGet, SweeperStep, SwapAccess,
           WriteFlush, BeginSweep, CommitSweep, FailSweeper, EvictStep, Restart, vars, storeVars
  <2> QED BY <2>1 DEF StoreInv, Tick
<1>2. /\ s \in DOMAIN db'.rows
      /\ Served(db'.rows[s], clock', Cutoff(clock', TTLAccess), Cutoff(clock', TTLCreate))
  BY DEF Found
<1>3. s \in DOMAIN db.rows
  BY <1>2, BranchStep DEF Lawful, OnlyFresh, StoreInv, Branch, Consistent, IsDatabase
<1>4. db.rows[s] \in Row
  BY <1>3 DEF StoreInv, Branch, Consistent, IsDatabase, IsTable
<1>5. db'.rows[s].expires = db.rows[s].expires /\ db'.rows[s].created = db.rows[s].created
  BY <1>2, <1>3, <1>4, BranchStep DEF Lawful, OnlyAges, Row
<1>6. Unexpired(db.rows[s], clock)
  BY <1>1, <1>2, <1>4, <1>5 DEF Served, Unexpired, Row, NoExpiry
<1>7. Cutoff(clock, TTLCreate) = 0 \/ db.rows[s].created > Cutoff(clock, TTLCreate)
  <2>1. db.rows[s].created \in Nat
    BY <1>4 DEF Row
  <2>2. Cutoff(clock', TTLCreate) = 0 \/ db.rows[s].created > Cutoff(clock', TTLCreate)
    BY <1>2, <1>5 DEF Served
  <2> QED BY <1>1, <2>1, <2>2, CutoffOnlyRises
<1>8. Served(db.rows[s], clock, 0, Cutoff(clock, TTLCreate))
  BY <1>6, <1>7 DEF Served
<1>9. Cutoff(clock, TTLAccess) # 0 /\ ~(db.rows[s].accessed > Cutoff(clock, TTLAccess))
  BY <1>3, <1>6, <1>7 DEF Found, Served
<1>10. Cutoff(clock', TTLAccess) = 0 \/ db'.rows[s].accessed > Cutoff(clock', TTLAccess)
  BY <1>2 DEF Served
<1>11. db'.rows[s].accessed # db.rows[s].accessed
  <2>1. db.rows[s].accessed \in Nat
    BY <1>4 DEF Row
  <2> QED BY <1>1, <1>9, <1>10, <2>1, CutoffOnlyRises
<1>12. /\ WriteFlush /\ s \in DOMAIN sweeper.pending
       /\ db'.rows[s].accessed = sweeper.pending[s]
  BY <1>2, <1>3, <1>11, OnlyFlushRenews
<1>13. clock' = clock
  BY <1>12 DEF WriteFlush
<1> QED BY <1>3, <1>8, <1>9, <1>10, <1>12, <1>13

\* A dead link stays dead, for any number of readers and flushes in any order, but for
\* one that a read from inside the access TTL's window, still queued, was to renew.
THEOREM LinksDieForGood == Spec => DeadLinksStayDead
<1>1. StoreInv /\ [Next]_vars =>
        [\A s \in 1 .. db.seq : ~Found(s, clock) /\ Found(s, clock)' =>
           /\ WriteFlush
           /\ s \in DOMAIN db.rows
           /\ Served(db.rows[s], clock, 0, Cutoff(clock, TTLCreate))
           /\ s \in DOMAIN sweeper.pending
           /\ sweeper.pending[s] > Cutoff(clock, TTLAccess)]_vars
  BY OnlyReadsRevive
<1> QED BY <1>1, StoreInit, StoreStep, PTL DEF Spec, DeadLinksStayDead
=============================================================================
