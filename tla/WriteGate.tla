------------------------------ MODULE WriteGate ------------------------------
(***************************************************************************)
(* Write admission: Store.acquireWrite and Store.releaseWrite.             *)
(*                                                                         *)
(* A semaphore channel `writeSlots` of capacity WriteConcurrency and an    *)
(* atomic counter `queued` that every caller holds a unit of for as long   *)
(* as it is inside acquireWrite, whatever acquireWrite decides.            *)
(***************************************************************************)
EXTENDS Integers, FiniteSets

CONSTANTS
    Callers,           \* the goroutines that call Create
    WriteConcurrency,  \* slots; 0: no channel, admission is off
    WriteQueue         \* maxQueued; 0: the line has no limit

ASSUME GateAssumption ==
    /\ IsFiniteSet(Callers)
    /\ WriteConcurrency \in Nat
    /\ WriteQueue \in Nat

VARIABLES
    place,   \* where each caller stands
    queued,  \* the atomic counter
    slots    \* how many values the channel holds

gateVars == <<place, queued, slots>>

(* "line"     after queued.Add(1), blocked in the select                    *)
(* "admitted" the send succeeded, the deferred Add(-1) is still to run      *)
(* "refused"  ErrBusy chosen, the deferred Add(-1) is still to run          *)
(* "gaveup"   ctx.Done() chosen, the deferred Add(-1) is still to run       *)
(* "writing"  acquireWrite returned nil, releaseWrite is still to run       *)
Places == {"out", "line", "admitted", "refused", "gaveup", "writing"}

At(where) == {c \in Callers : place[c] \in where}

Init ==
    /\ place = [c \in Callers |-> "out"]
    /\ queued = 0
    /\ slots = 0

\* queued.Add(1) and the comparison with the value it returned.
Enter(c) ==
    /\ place[c] = "out"
    /\ IF WriteConcurrency = 0
       THEN /\ place' = [place EXCEPT ![c] = "writing"]
            /\ UNCHANGED queued
       ELSE /\ queued' = queued + 1
            /\ place' = [place EXCEPT ![c] =
                 IF WriteQueue > 0 /\ queued + 1 > WriteQueue THEN "refused" ELSE "line"]
    /\ UNCHANGED slots

\* A send on a channel with room for everybody.
TakeUnbounded(c) ==
    /\ place[c] = "line"
    /\ slots' = slots + 1
    /\ place' = [place EXCEPT ![c] = "admitted"]
    /\ UNCHANGED queued

\* case s.writeSlots <- struct{}{}
Take(c) ==
    /\ place[c] = "line"
    /\ slots < WriteConcurrency
    /\ slots' = slots + 1
    /\ place' = [place EXCEPT ![c] = "admitted"]
    /\ UNCHANGED queued

\* case <-ctx.Done(); possible even while a slot is free.
GiveUp(c) ==
    /\ place[c] = "line"
    /\ place' = [place EXCEPT ![c] = "gaveup"]
    /\ UNCHANGED <<queued, slots>>

\* The counter taken back on the way to a slot only, not by the early returns.
DepartWhenAdmitted(c) ==
    /\ place[c] \in {"admitted", "refused", "gaveup"}
    /\ queued' = IF place[c] = "admitted" THEN queued - 1 ELSE queued
    /\ place' = [place EXCEPT ![c] = IF place[c] = "admitted" THEN "writing" ELSE "out"]
    /\ UNCHANGED slots

\* The deferred queued.Add(-1), and acquireWrite returns.
Depart(c) ==
    /\ place[c] \in {"admitted", "refused", "gaveup"}
    /\ queued' = queued - 1
    /\ place' = [place EXCEPT ![c] = IF place[c] = "admitted" THEN "writing" ELSE "out"]
    /\ UNCHANGED slots

\* A Create that returns without its releaseWrite.
ReleaseLeaking(c) ==
    /\ place[c] = "writing"
    /\ place' = [place EXCEPT ![c] = "out"]
    /\ UNCHANGED <<queued, slots>>

\* releaseWrite, deferred by Create right after a successful acquireWrite.
Release(c) ==
    /\ place[c] = "writing"
    /\ place' = [place EXCEPT ![c] = "out"]
    /\ slots' = IF WriteConcurrency = 0 THEN slots ELSE slots - 1
    /\ UNCHANGED queued

Next == \E c \in Callers :
    Enter(c) \/ Take(c) \/ GiveUp(c) \/ Depart(c) \/ Release(c)

Spec == Init /\ [][Next]_gateVars

(***************************************************************************)
(* A send blocked on a channel is served in FIFO order once a receiver     *)
(* comes, so a caller that stays in line is not overtaken for ever: strong *)
(* fairness of Take.  A goroutine inside acquireWrite runs on, and Create  *)
(* always reaches its deferred releaseWrite: weak fairness of both.        *)
(***************************************************************************)
FairSpec ==
    /\ Spec
    /\ \A c \in Callers : SF_gateVars(Take(c)) /\ WF_gateVars(Depart(c)) /\ WF_gateVars(Release(c))

-----------------------------------------------------------------------------
TypeOK ==
    /\ place \in [Callers -> Places]
    /\ queued \in Nat
    /\ slots \in Nat

\* The counter is exactly the callers inside acquireWrite: no path through its
\* early returns keeps a place in line or gives one back twice.
QueuedCountsCallersInside == queued = Cardinality(At({"line", "admitted", "refused", "gaveup"}))

\* The channel holds one value per caller between its send and releaseWrite, so
\* a slot is neither leaked by a caller that gave up nor released twice.
SlotsCountHolders ==
    slots = IF WriteConcurrency = 0 THEN 0 ELSE Cardinality(At({"admitted", "writing"}))

\* At most WriteConcurrency callers are past admission at once (store.go:183-190:
\* compression has no bound of its own), and at most WriteQueue wait.
WritesBounded ==
    WriteConcurrency > 0 =>
        /\ Cardinality(At({"admitted", "writing"})) <= WriteConcurrency
        /\ WriteQueue > 0 => Cardinality(At({"line"})) <= WriteQueue

\* What store.go:190 says of WriteQueue ("callers allowed to wait; beyond this,
\* ErrBusy") and .env.example:190-192 of the two limits together: a caller is
\* refused only when every slot is taken.
RefusedOnlyWhenSlotsAreTaken ==
    [][\A c \in Callers : place'[c] = "refused" /\ place[c] # "refused"
            => slots = WriteConcurrency]_gateVars
=============================================================================
