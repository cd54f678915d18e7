-------------------------- MODULE WriteGate_proofs --------------------------
(***************************************************************************)
(* For any set of callers and any limits: admission counts the callers     *)
(* that are really there, and both limits hold.                            *)
(***************************************************************************)
EXTENDS WriteGate, FiniteSetTheorems, TLAPS

GateInv == TypeOK /\ QueuedCountsCallersInside /\ SlotsCountHolders /\ WritesBounded

\* Who stands in one of the places `where`, when f says where each caller stands.
Standing(f, where) == {c \in Callers : f[c] \in where}

\* Where each caller stands once c has moved to p.
Move(f, c, p) == [f EXCEPT ![c] = p]

One(p, where) == IF p \in where THEN 1 ELSE 0

\* Moving one caller changes how many stand in a group of places by that caller
\* alone.
LEMMA MoveOne ==
    ASSUME NEW where, NEW c \in Callers, NEW p, NEW f \in [Callers -> Places]
    PROVE  LET n == Cardinality(Standing(f, where))
           IN  /\ n \in Nat
               /\ Cardinality(Standing(Move(f, c, p), where)) = n + One(p, where) - One(f[c], where)
               /\ f[c] \in where => n >= 1
<1> DEFINE S == Standing(f, where)
           T == Standing(Move(f, c, p), where)
<1>1. IsFiniteSet(S) /\ Cardinality(S) \in Nat
  BY FS_Subset, FS_CardinalityType, GateAssumption DEF Standing
<1>2. c \in S <=> f[c] \in where
  BY DEF Standing
<1>3. f[c] \in where => Cardinality(S) >= 1
  <2>1. S # {} => Cardinality(S) # 0
    BY <1>1, FS_EmptySet
  <2> QED BY <1>1, <1>2, <2>1
<1>4. CASE p \in where
  <2>1. T = S \cup {c}
    BY <1>4 DEF Standing, Move
  <2>2. Cardinality(T) = IF c \in S THEN Cardinality(S) ELSE Cardinality(S) + 1
    BY <1>1, <2>1, FS_AddElement
  <2> QED BY <1>1, <1>2, <1>3, <1>4, <2>2 DEF One
<1>5. CASE p \notin where
  <2>1. T = S \ {c}
    BY <1>5 DEF Standing, Move
  <2>2. Cardinality(T) = IF c \in S THEN Cardinality(S) - 1 ELSE Cardinality(S)
    BY <1>1, <2>1, FS_RemoveElement
  <2> QED BY <1>1, <1>2, <1>3, <1>5, <2>2 DEF One
<1> QED BY <1>4, <1>5

Inside == {"line", "admitted", "refused", "gaveup"}
Holding == {"admitted", "writing"}
Waiting == {"line"}

\* The invariant with its three counts spelled out.
Counts(f, q, s) ==
    LET inside == Cardinality(Standing(f, Inside))
        holding == Cardinality(Standing(f, Holding))
        waiting == Cardinality(Standing(f, Waiting))
    IN  /\ f \in [Callers -> Places] /\ q \in Nat /\ s \in Nat
        /\ q = inside
        /\ s = IF WriteConcurrency = 0 THEN 0 ELSE holding
        /\ WriteConcurrency > 0 => holding <= WriteConcurrency
        /\ WriteConcurrency > 0 /\ WriteQueue > 0 => waiting <= WriteQueue

LEMMA InvIsCounts == GateInv <=> Counts(place, queued, slots)
BY DEF GateInv, TypeOK, QueuedCountsCallersInside, SlotsCountHolders, WritesBounded,
       Counts, Standing, At, Inside, Holding, Waiting

\* One caller moves from place f[c] to p, the counters to q and s.
LEMMA CountsAfterMove ==
    ASSUME NEW f, NEW q, NEW s, Counts(f, q, s), NEW c \in Callers, NEW p \in Places,
           NEW q2 \in Int, NEW s2 \in Int,
           q2 = q + One(p, Inside)
                  - One(f[c], Inside),
           s2 = IF WriteConcurrency = 0 THEN s
                ELSE s + One(p, Holding)
                       - One(f[c], Holding),
           WriteConcurrency > 0 => s2 <= WriteConcurrency,
           WriteConcurrency > 0 /\ WriteQueue > 0 /\ p \in Waiting => q2 <= WriteQueue
    PROVE  Counts(Move(f, c, p), q2, s2)
<1> USE GateAssumption
<1> DEFINE g == Move(f, c, p)
           insideOf(h) == Standing(h, Inside)
           holdingOf(h) == Standing(h, Holding)
           waitingOf(h) == Standing(h, Waiting)
<1>1. f \in [Callers -> Places] /\ g \in [Callers -> Places]
  BY DEF Counts, Move
<1>2. /\ Cardinality(insideOf(g)) = Cardinality(insideOf(f))
            + One(p, Inside)
            - One(f[c], Inside)
      /\ Cardinality(insideOf(f)) \in Nat
      /\ f[c] \in Inside => Cardinality(insideOf(f)) >= 1
  BY <1>1, MoveOne
<1>3. /\ Cardinality(holdingOf(g)) = Cardinality(holdingOf(f))
            + One(p, Holding)
            - One(f[c], Holding)
      /\ Cardinality(holdingOf(f)) \in Nat
      /\ f[c] \in Holding => Cardinality(holdingOf(f)) >= 1
  BY <1>1, MoveOne
<1>4. /\ Cardinality(waitingOf(g)) = Cardinality(waitingOf(f))
            + One(p, Waiting)
            - One(f[c], Waiting)
      /\ Cardinality(waitingOf(f)) \in Nat
  BY <1>1, MoveOne
<1>5. Cardinality(waitingOf(g)) <= Cardinality(insideOf(g))
  <2>1. waitingOf(g) \subseteq insideOf(g) /\ insideOf(g) \subseteq Callers
    BY DEF Standing, Inside, Waiting
  <2>2. IsFiniteSet(insideOf(g))
    BY <2>1, FS_Subset
  <2> QED BY <2>1, <2>2, FS_Subset
<1>6. /\ q = Cardinality(insideOf(f)) /\ q \in Nat /\ s \in Nat
      /\ s = IF WriteConcurrency = 0 THEN 0 ELSE Cardinality(holdingOf(f))
      /\ WriteConcurrency > 0 /\ WriteQueue > 0 => Cardinality(waitingOf(f)) <= WriteQueue
  BY DEF Counts
<1>7. q2 \in Nat /\ q2 = Cardinality(insideOf(g))
  BY <1>2, <1>6 DEF One
<1>8. s2 \in Nat /\ s2 = IF WriteConcurrency = 0 THEN 0 ELSE Cardinality(holdingOf(g))
  BY <1>3, <1>6 DEF One
<1>9. WriteConcurrency > 0 => Cardinality(holdingOf(g)) <= WriteConcurrency
  BY <1>8
<1>10. WriteConcurrency > 0 /\ WriteQueue > 0 => Cardinality(waitingOf(g)) <= WriteQueue
  BY <1>4, <1>5, <1>6, <1>7 DEF One
<1> HIDE DEF g
<1> QED BY <1>1, <1>7, <1>8, <1>9, <1>10 DEF Counts, g

\* Nobody is inside when the process starts.
LEMMA CountsAtStart == Counts([c \in Callers |-> "out"], 0, 0)
<1> DEFINE f == [c \in Callers |-> "out"]
<1>1. \A where : "out" \notin where => Standing(f, where) = {}
  BY DEF Standing
<1>2. /\ Cardinality(Standing(f, Inside)) = 0
      /\ Cardinality(Standing(f, Holding)) = 0
      /\ Cardinality(Standing(f, Waiting)) = 0
  BY <1>1, FS_EmptySet DEF Inside, Holding, Waiting
<1>3. f \in [Callers -> Places]
  BY DEF Places
<1> HIDE DEF f
<1> QED BY <1>2, <1>3, GateAssumption DEF Counts, f

LEMMA GateInit == Init => GateInv
BY CountsAtStart, InvIsCounts DEF Init

\* A process that starts anew starts with nobody inside.
LEMMA GateRestart ==
    ASSUME place' = [c \in Callers |-> "out"], queued' = 0, slots' = 0
    PROVE  GateInv'
<1>1. Counts(place', queued', slots')
  BY CountsAtStart
<1> QED BY <1>1 DEF GateInv, TypeOK, QueuedCountsCallersInside, SlotsCountHolders, WritesBounded,
                    Counts, Standing, At, Inside, Holding, Waiting

\* Every step of admission preserves the invariant.
LEMMA GateStep == GateInv /\ [Next]_gateVars => GateInv'
<1> SUFFICES ASSUME Counts(place, queued, slots), [Next]_gateVars
             PROVE  Counts(place', queued', slots')
  <2>1. GateInv' <=> Counts(place', queued', slots')
    BY DEF GateInv, TypeOK, QueuedCountsCallersInside, SlotsCountHolders, WritesBounded,
           Counts, Standing, At, Inside, Holding, Waiting
  <2> QED BY <2>1, InvIsCounts
<1> USE GateAssumption
<1>0. queued \in Nat /\ slots \in Nat /\ (WriteConcurrency > 0 => slots <= WriteConcurrency)
      /\ (WriteConcurrency = 0 => slots = 0)
  BY DEF Counts
<1> DEFINE MovesTo(c, p) ==
      /\ p \in Places
      /\ place' = Move(place, c, p)
      /\ queued' \in Int /\ slots' \in Int
      /\ queued' = queued + One(p, Inside) - One(place[c], Inside)
      /\ slots' = IF WriteConcurrency = 0 THEN slots
                  ELSE slots + One(p, Holding) - One(place[c], Holding)
      /\ WriteConcurrency > 0 => slots' <= WriteConcurrency
      /\ WriteConcurrency > 0 /\ WriteQueue > 0 /\ p \in Waiting => queued' <= WriteQueue
<1>a. ASSUME NEW c \in Callers, NEW p, MovesTo(c, p) PROVE Counts(place', queued', slots')
  BY <1>a, CountsAfterMove
<1> HIDE DEF MovesTo
<1>1. ASSUME NEW c \in Callers, Enter(c) PROVE Counts(place', queued', slots')
  <2>1. CASE WriteConcurrency = 0
    <3>1. MovesTo(c, "writing")
      BY <1>0, <1>1, <2>1 DEF MovesTo, Enter, Places, Inside, Holding, Waiting, One, Move
    <3> QED BY <3>1, <1>a
  <2>2. CASE WriteConcurrency # 0 /\ WriteQueue > 0 /\ queued + 1 > WriteQueue
    <3>1. MovesTo(c, "refused")
      BY <1>0, <1>1, <2>2 DEF MovesTo, Enter, Places, Inside, Holding, Waiting, One, Move
    <3> QED BY <3>1, <1>a
  <2>3. CASE WriteConcurrency # 0 /\ ~(WriteQueue > 0 /\ queued + 1 > WriteQueue)
    <3>1. MovesTo(c, "line")
      BY <1>0, <1>1, <2>3 DEF MovesTo, Enter, Places, Inside, Holding, Waiting, One, Move
    <3> QED BY <3>1, <1>a
  <2> QED BY <2>1, <2>2, <2>3
<1>2. ASSUME NEW c \in Callers, Take(c) PROVE Counts(place', queued', slots')
  <2>1. MovesTo(c, "admitted")
    BY <1>0, <1>2 DEF MovesTo, Take, Places, Inside, Holding, Waiting, One, Move
  <2> QED BY <2>1, <1>a
<1>3. ASSUME NEW c \in Callers, GiveUp(c) PROVE Counts(place', queued', slots')
  <2>1. MovesTo(c, "gaveup")
    BY <1>0, <1>3 DEF MovesTo, GiveUp, Places, Inside, Holding, Waiting, One, Move
  <2> QED BY <2>1, <1>a
<1>4. ASSUME NEW c \in Callers, Depart(c) PROVE Counts(place', queued', slots')
  <2>1. CASE place[c] = "admitted"
    <3>1. MovesTo(c, "writing")
      BY <1>0, <1>4, <2>1 DEF MovesTo, Depart, Places, Inside, Holding, Waiting, One, Move
    <3> QED BY <3>1, <1>a
  <2>2. CASE place[c] \in {"refused", "gaveup"}
    <3>1. place' = Move(place, c, "out") /\ queued' = queued - 1 /\ slots' = slots
      BY <1>4, <2>2 DEF Depart, Move
    <3>2. One("out", Inside) = 0 /\ One("out", Holding) = 0
      BY DEF One, Inside, Holding
    <3>3. One(place[c], Inside) = 1 /\ One(place[c], Holding) = 0
      BY <2>2 DEF One, Inside, Holding
    <3>4. MovesTo(c, "out")
      BY <1>0, <3>1, <3>2, <3>3 DEF MovesTo, Places, Waiting
    <3> QED BY <3>4, <1>a
  <2> QED BY <1>4, <2>1, <2>2 DEF Depart
<1>5. ASSUME NEW c \in Callers, Release(c) PROVE Counts(place', queued', slots')
  <2>1. MovesTo(c, "out")
    BY <1>0, <1>5 DEF MovesTo, Release, Places, Inside, Holding, Waiting, One, Move
  <2> QED BY <2>1, <1>a
<1>6. CASE UNCHANGED gateVars
  BY <1>6 DEF gateVars
<1> QED BY <1>1, <1>2, <1>3, <1>4, <1>5, <1>6 DEF Next

\* acquireWrite and releaseWrite: the counter is the callers inside, the channel
\* the callers past it, no more than WriteConcurrency of them and no more than
\* WriteQueue waiting, whatever the callers and the limits.
THEOREM AdmissionHolds ==
    Spec => [](TypeOK /\ QueuedCountsCallersInside /\ SlotsCountHolders /\ WritesBounded)
<1>1. Init => GateInv
  BY GateInit
<1>2. GateInv /\ [Next]_gateVars => GateInv'
  BY GateStep
<1>3. GateInv => TypeOK /\ QueuedCountsCallersInside /\ SlotsCountHolders /\ WritesBounded
  BY DEF GateInv
<1> QED BY <1>1, <1>2, <1>3, PTL DEF Spec
=============================================================================
