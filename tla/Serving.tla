------------------------------ MODULE Serving -------------------------------
(***************************************************************************)
(* httpapi: the requests in flight.  Each is served by a goroutine of its  *)
(* own (a caller of WriteGate when it creates), which reads the clock,     *)
(* may wait for a mutex and goes on with the time it read.                 *)
(***************************************************************************)
EXTENDS WriteGate

CONSTANTS
    EndTime,    \* bound on the clock
    LockWait    \* how long a create may wait for the limiter's mutex

ASSUME ServingAssumption == EndTime \in Nat /\ LockWait \in Nat

VARIABLES
    clock,   \* in ticks
    at,      \* how far each request has come
    stamp    \* the `now` each request goes by, 0 when it has no more use for one

servingVars == <<clock, at, stamp>>

(* "idle"      no request; the goroutine may take another                   *)
(* "limiter"   allow has read the clock, the mutex is still to be had       *)
(* "limited"   refused by the limiter, the 429 is still to be written       *)
(* "body"      admitted, the body is still to be read                       *)
(* "store"     inside Store.Create: the caller's `place` says where         *)
(* "queueing"  cachedStats has read the clock, statsMu is still to be had   *)
(* "scanning"  cachedStats holds statsMu and runs Store.Stats               *)
(* "totals"    cachedStats has returned, the answer is still to be written  *)
(* "found"     Store.Get found the paste, the answer is still to be written *)
Stages == {"idle", "limiter", "limited", "body", "store", "queueing", "scanning",
           "totals", "found"}

ServingInit ==
    /\ clock = 0
    /\ at = [r \in Callers |-> "idle"]
    /\ stamp = [r \in Callers |-> 0]

Advance(r, from, to) == at[r] = from /\ at' = [at EXCEPT ![r] = to]

\* now := time.Now(), the first thing both waits for a mutex do; and its last use.
Stamp(r) == stamp' = [stamp EXCEPT ![r] = clock]
Unstamp(r) == stamp' = [stamp EXCEPT ![r] = 0]

\* Time passes, but not while a create has waited for the limiter as long as it may.
Tick ==
    /\ clock < EndTime
    /\ \A r \in Callers : at[r] = "limiter" => clock - stamp[r] < LockWait
    /\ clock' = clock + 1
    /\ UNCHANGED <<at, stamp>>
=============================================================================
