---------------------------- MODULE RateLimiter -----------------------------
(***************************************************************************)
(* httpapi/ratelimit.go: one token bucket per client address, kept in a    *)
(* map whose idle entries are dropped every sweepEvery calls.  A tick is   *)
(* the time one token takes to come back (a second over HASTE_RATE_RPS).   *)
(***************************************************************************)
EXTENDS Serving

CONSTANTS
    Addresses,   \* what clientIP can find
    Burst,       \* HASTE_RATE_BURST, at least 1
    SweepEvery,  \* the map is walked once in so many calls
    IdleTTL      \* silence after which an entry may be dropped

\* What makes dropping harmless: a bucket idle for idleTTL has had the time to fill.
\* The code does not enforce it; its defaults (20 tokens at one a second, ten
\* minutes) keep it.
ASSUME LimiterAssumption ==
    /\ Burst \in Nat \ {0} /\ SweepEvery \in Nat \ {0} /\ IdleTTL \in Nat
    /\ Burst + LockWait <= IdleTTL + 1

VARIABLES
    from,      \* the address clientIP found for a create, until allow has answered
    buckets,   \* address -> [tokens, last, seen], the entries of the map
    calls      \* modulo sweepEvery, which is all it is used for

limiterVars == <<from, buckets, calls>>

NoAddress == "none"

\* rate.NewLimiter(rps, burst) fills up at its first use, whenever that is.
NewBucket(now) == [tokens |-> Burst, last |-> now, seen |-> now]

\* What an entry holds when asked at time t (advance of x/time/rate).
Refilled(b, t) ==
    IF b.tokens + (t - b.last) < Burst THEN b.tokens + (t - b.last) ELSE Burst

LimiterInit ==
    /\ from = [r \in Callers |-> NoAddress]
    /\ buckets = [a \in {} |-> NewBucket(0)]
    /\ calls = 0

\* A walk that allows a bucket half the silence.
KeptBriefly(now) ==
    {a \in DOMAIN buckets :
        (calls + 1) % SweepEvery = 0 => 2 * (now - buckets[a].seen) <= IdleTTL}

\* Entries that stay: all of them, unless this call walks the map.
Kept(now) ==
    {a \in DOMAIN buckets :
        (calls + 1) % SweepEvery = 0 => now - buckets[a].seen <= IdleTTL}

\* The entry allow works on: the one that stayed or a new one, marked as seen now.
Entry(a, now) ==
    [(IF a \in Kept(now) THEN buckets[a] ELSE NewBucket(clock)) EXCEPT !.seen = now]

\* A create arrives and allow reads the clock.
ArriveCreate(r, a) ==
    /\ Advance(r, "idle", "limiter")
    /\ from' = [from EXCEPT ![r] = a]
    /\ Stamp(r)
    /\ UNCHANGED <<clock, buckets, calls>>

\* allow under its mutex.  The walk and `seen` go by the time read before the mutex,
\* the token by the time the limiter reads itself; a refusal leaves the entry as it is.
Allow(r) ==
    LET a == from[r]
        now == stamp[r]
        e == Entry(a, now)
        ok == Refilled(e, clock) > 0
    IN  /\ Advance(r, "limiter", IF ok THEN "body" ELSE "limited")
        /\ calls' = (calls + 1) % SweepEvery
        /\ buckets' = [x \in Kept(now) \cup {a} |->
             IF x # a THEN buckets[x]
             ELSE IF ok THEN [tokens |-> Refilled(e, clock) - 1, last |-> clock, seen |-> now]
             ELSE e]
        /\ from' = IF ok THEN [from EXCEPT ![r] = NoAddress] ELSE from
        /\ Unstamp(r)
        /\ UNCHANGED clock

\* The 429 is written.
Refuse(r) ==
    /\ Advance(r, "limited", "idle")
    /\ from' = [from EXCEPT ![r] = NoAddress]
    /\ UNCHANGED <<clock, stamp, buckets, calls>>

-----------------------------------------------------------------------------
LimiterTypeOK ==
    /\ from \in [Callers -> Addresses \cup {NoAddress}]
    /\ DOMAIN buckets \subseteq Addresses
    /\ buckets \in [DOMAIN buckets -> [tokens : 0 .. Burst, last : Nat, seen : Nat]]
    /\ calls \in 0 .. SweepEvery - 1

\* The level of an address: an absent entry is a full one.
LevelOf(a) == IF a \in DOMAIN buckets THEN Refilled(buckets[a], clock) ELSE Burst

Promise == INSTANCE TokenBuckets WITH
    Requests <- Callers,
    level <- [a \in Addresses |-> LevelOf(a)],
    passed <- {r \in Callers : at[r] = "body"},
    turned <- {<<r, from[r]>> : r \in {c \in Callers : at[c] = "limited"}}
=============================================================================
