---------------------------- MODULE TokenBuckets ----------------------------
(***************************************************************************)
(* What httpapi's limiter promises, without its bookkeeping: every address *)
(* has a bucket for ever, a create takes a token, a token comes back a     *)
(* tick, and only a create whose address has none is turned away.          *)
(***************************************************************************)
EXTENDS Integers

CONSTANTS
    Requests,   \* the goroutines that serve creates
    Addresses,  \* what clientIP can find
    Burst       \* what a bucket holds

VARIABLES
    level,      \* address -> tokens in its bucket
    passed,     \* the creates let through, until they go on
    turned      \* <<request, address>> of those being turned away

bucketVars == <<level, passed, turned>>

BucketsInit ==
    /\ level = [a \in Addresses |-> Burst]
    /\ passed = {} /\ turned = {}

OneTokenBack ==
    /\ level' = [a \in Addresses |-> IF level[a] < Burst THEN level[a] + 1 ELSE Burst]
    /\ UNCHANGED <<passed, turned>>

LetThrough(r, a) ==
    /\ level[a] > 0
    /\ level' = [level EXCEPT ![a] = level[a] - 1]
    /\ r \notin passed /\ passed' = passed \cup {r}
    /\ UNCHANGED turned

GoesOn(r) ==
    /\ passed' = passed \ {r}
    /\ UNCHANGED <<level, turned>>

TurnAway(r, a) ==
    /\ level[a] = 0
    /\ turned' = turned \cup {<<r, a>>}
    /\ UNCHANGED <<level, passed>>

Told(r, a) ==
    /\ turned' = turned \ {<<r, a>>}
    /\ UNCHANGED <<level, passed>>

BucketsNext ==
    \/ OneTokenBack
    \/ \E r \in Requests :
          \/ GoesOn(r)
          \/ \E a \in Addresses : LetThrough(r, a) \/ TurnAway(r, a) \/ Told(r, a)

BucketsSpec == BucketsInit /\ [][BucketsNext]_bucketVars
=============================================================================
