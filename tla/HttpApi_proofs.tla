--------------------------- MODULE HttpApi_proofs ---------------------------
(***************************************************************************)
(* What HttpApi promises for any number of requests and addresses, any     *)
(* bucket, window and lifetime: the component invariants one by one, then  *)
(* the step from the limiter to buckets that are never forgotten.          *)
(***************************************************************************)
EXTENDS HttpApi, WriteGate_proofs

(* What the components assume of the clock and of each other's times.        *)
ServingInv ==
    /\ clock \in Nat
    /\ at \in [Callers -> Stages]
    /\ stamp \in [Callers -> Nat]
    /\ \A r \in Callers : stamp[r] <= clock
    /\ \A r \in Callers : at[r] = "limiter" => clock - stamp[r] <= LockWait

Bucket == [tokens : 0 .. Burst, last : Nat, seen : Nat]

(* An entry was marked as seen at most LockWait before it was last used:     *)
(* what makes a long silence mean a full bucket.                             *)
LimiterInv ==
    /\ from \in [Callers -> Addresses \cup {NoAddress}]
    /\ \A r \in Callers : at[r] \in {"limiter", "limited"} => from[r] \in Addresses
    /\ DOMAIN buckets \subseteq Addresses
    /\ buckets \in [DOMAIN buckets -> Bucket]
    /\ calls \in 0 .. SweepEvery - 1
    /\ \A a \in DOMAIN buckets :
          buckets[a].last <= clock /\ buckets[a].last - buckets[a].seen <= LockWait

(* One scan at a time, by a request that found the last one stale; the       *)
(* totals are never older than their stamp.                                  *)
StatsInv ==
    /\ statsAt \in Int /\ statsValue \in Int /\ snapshot \in Int
    /\ totals \in [Callers -> Int]
    /\ statsAt <= statsValue
    /\ \A r, q \in Callers : at[r] = "scanning" /\ at[q] = "scanning" => r = q
    /\ \A r \in Callers : at[r] = "scanning" =>
          stamp[r] <= snapshot /\ statsAt + StatsCacheFor <= stamp[r]
    /\ StatsAreRecent

EdgeInv == EdgeTypeOK /\ EdgeHonoursExpiry

-----------------------------------------------------------------------------
LEMMA WholeSeconds ==
    ASSUME NEW x \in Int, NEW d \in Nat \ {0}
    PROVE  x \div d \in Int /\ (x \div d) * d <= x
BY SMTT(30)

LEMMA ServingInit_ == ApiInit => ServingInv
BY DEF ApiInit, ServingInit, ServingInv, Stages

LEMMA ServingStep ==
    ASSUME ServingInv, [ApiNext]_apiVars
    PROVE  ServingInv'
<1> USE ServingAssumption DEF ServingInv, Stages
<1>1. ASSUME NEW r \in Callers, NEW to \in Stages, at' = [at EXCEPT ![r] = to],
             clock' = clock,
             \/ stamp' = stamp /\ to # "limiter"
             \/ stamp' = [stamp EXCEPT ![r] = clock]
             \/ stamp' = [stamp EXCEPT ![r] = 0] /\ to # "limiter"
      PROVE  ServingInv'
  <2>1. at' \in [Callers -> Stages] /\ stamp' \in [Callers -> Nat] /\ clock' \in Nat
    BY <1>1
  <2>2. ASSUME NEW q \in Callers PROVE stamp'[q] <= clock'
    BY <1>1
  <2>3. ASSUME NEW q \in Callers, at'[q] = "limiter" PROVE clock' - stamp'[q] <= LockWait
    BY <1>1, <2>3
  <2> QED BY <2>1, <2>2, <2>3
<1>2. CASE Tick
  BY <1>2 DEF Tick
<1>3. CASE UNCHANGED servingVars
  BY <1>3 DEF servingVars
<1>4. ASSUME NEW r \in Callers, LimiterStep(r) PROVE ServingInv'
  <2>1. \E to \in Stages : /\ at' = [at EXCEPT ![r] = to] /\ clock' = clock
                           /\ \/ stamp' = [stamp EXCEPT ![r] = clock]
                              \/ stamp' = [stamp EXCEPT ![r] = 0] /\ to # "limiter"
                              \/ stamp' = stamp /\ to # "limiter"
    BY <1>4 DEF LimiterStep, ArriveCreate, Allow, Refuse, Advance, Stamp, Unstamp
  <2> QED BY <2>1, <1>1
<1>5. ASSUME NEW r \in Callers, CreateStep(r) PROVE ServingInv'
  <2>1. \E to \in Stages : /\ at' = [at EXCEPT ![r] = to] /\ clock' = clock
                           /\ stamp' = stamp /\ to # "limiter"
    <3>1. CASE InLine(r)
      BY <1>5, <3>1 DEF CreateStep, InLine
    <3>2. CASE BadBody(r) \/ GoodBody(r) \/ Decided(r) \/ Written(r)
      BY <1>5, <3>2 DEF CreateStep, BadBody, GoodBody, Decided, Written, Advance
    <3> QED BY <1>5, <3>1, <3>2 DEF CreateStep
  <2> QED BY <2>1, <1>1
<1>6. ASSUME NEW r \in Callers, StatsStep(r) PROVE ServingInv'
  <2>1. \E to \in Stages : /\ at' = [at EXCEPT ![r] = to] /\ clock' = clock
                           /\ to # "limiter"
                           /\ \/ stamp' = [stamp EXCEPT ![r] = clock]
                              \/ stamp' = [stamp EXCEPT ![r] = 0]
                              \/ stamp' = stamp
    BY <1>6 DEF StatsStep, AskStats, ReuseStats, StartScan, FinishScan, FailScan, TellStats,
                Advance, Stamp, Unstamp
  <2> QED BY <2>1, <1>1
<1>7. ASSUME NEW r \in Callers, ReadStep(r) PROVE ServingInv'
  <2>1. CASE Miss(r)
    BY <2>1, <1>3 DEF Miss
  <2>2. CASE Find(r) \/ TellPaste(r)
    <3>1. \E to \in Stages : /\ at' = [at EXCEPT ![r] = to] /\ clock' = clock
                             /\ to # "limiter"
                             /\ \/ stamp' = [stamp EXCEPT ![r] = clock]
                                \/ stamp' = [stamp EXCEPT ![r] = 0]
      BY <2>2 DEF Find, TellPaste, Advance, Stamp, Unstamp
    <3> QED BY <3>1, <1>1
  <2> QED BY <1>7, <2>1, <2>2 DEF ReadStep
<1> QED
  BY <1>2, <1>3, <1>4, <1>5, <1>6, <1>7 DEF ApiNext, apiVars, ApiTick

-----------------------------------------------------------------------------
(* The limiter's map. *)
LEMMA LimiterInit_ == ApiInit => LimiterInv
<1>1. ASSUME ApiInit PROVE LimiterInv
  <2>1. DOMAIN buckets = {} /\ buckets = [a \in {} |-> NewBucket(0)]
    BY <1>1 DEF ApiInit, LimiterInit
  <2>2. buckets \in [DOMAIN buckets -> Bucket]
    BY <2>1
  <2>3. from = [r \in Callers |-> NoAddress] /\ at = [r \in Callers |-> "idle"] /\ calls = 0
    BY <1>1 DEF ApiInit, LimiterInit, ServingInit
  <2> QED BY <2>1, <2>2, <2>3, LimiterAssumption DEF LimiterInv
<1> QED BY <1>1

\* A bucket asked at time t holds a number of tokens, all of them if it was left alone
\* long enough, and one more a tick later unless it is full.
LEMMA Refilling ==
    ASSUME NEW b \in Bucket, NEW t \in Nat, b.last <= t
    PROVE  /\ Refilled(b, t) \in 0 .. Burst
           /\ t - b.last >= Burst => Refilled(b, t) = Burst
           /\ Refilled(b, t + 1) = IF Refilled(b, t) < Burst THEN Refilled(b, t) + 1 ELSE Burst
BY LimiterAssumption DEF Bucket, Refilled

\* What allow finds for an address is what the address is entitled to, although the
\* walk may just have dropped its entry.
LEMMA EntryIsEntitled ==
    ASSUME ServingInv, LimiterInv, NEW r \in Callers, at[r] = "limiter"
    PROVE  LET now == stamp[r] IN
           /\ from[r] \in Addresses /\ now \in Nat /\ now <= clock /\ clock - now <= LockWait
           /\ \A a \in Addresses : a \notin Kept(now) => LevelOf(a) = Burst
           /\ \A a \in Addresses :
                 /\ Entry(a, now) \in Bucket
                 /\ Entry(a, now).last <= clock /\ Entry(a, now).seen = now
                 /\ Entry(a, now).last - now <= LockWait
                 /\ Refilled(Entry(a, now), clock) = LevelOf(a)
<1> DEFINE now == stamp[r]
<1>1. from[r] \in Addresses /\ now \in Nat /\ now <= clock /\ clock - now <= LockWait
  BY DEF ServingInv, LimiterInv
<1>2. clock \in Nat /\ LockWait \in Nat /\ IdleTTL \in Nat /\ Burst \in Nat \ {0}
      /\ Burst + LockWait <= IdleTTL + 1
  BY ServingAssumption, LimiterAssumption DEF ServingInv
<1>3. Kept(now) \subseteq DOMAIN buckets
  BY DEF Kept
<1>4. ASSUME NEW a \in DOMAIN buckets
      PROVE  /\ buckets[a] \in Bucket
             /\ buckets[a].last <= clock /\ buckets[a].last - buckets[a].seen <= LockWait
  BY DEF LimiterInv
<1>5. ASSUME NEW a \in Addresses, a \notin Kept(now) PROVE LevelOf(a) = Burst
  <2>1. CASE a \notin DOMAIN buckets
    BY <2>1 DEF LevelOf
  <2>2. CASE a \in DOMAIN buckets
    <3>1. now - buckets[a].seen > IdleTTL
      BY <1>1, <1>2, <1>4, <1>5, <2>2 DEF Kept, Bucket
    <3>2. clock - buckets[a].last >= Burst
      BY <1>1, <1>2, <1>4, <2>2, <3>1 DEF Bucket
    <3> QED BY <1>2, <1>4, <2>2, <3>2, Refilling DEF LevelOf
  <2> QED BY <2>1, <2>2
<1>6. ASSUME NEW a \in Addresses
      PROVE  /\ Entry(a, now) \in Bucket
             /\ Entry(a, now).last <= clock /\ Entry(a, now).seen = now
             /\ Entry(a, now).last - now <= LockWait
             /\ Refilled(Entry(a, now), clock) = LevelOf(a)
  <2>1. CASE a \in Kept(now)
    <3>1. Entry(a, now) = [buckets[a] EXCEPT !.seen = now]
      BY <2>1 DEF Entry
    <3>2. a \in DOMAIN buckets
      BY <2>1, <1>3
    <3>3. /\ Entry(a, now) \in Bucket /\ Entry(a, now).seen = now
          /\ Entry(a, now).last = buckets[a].last /\ Entry(a, now).tokens = buckets[a].tokens
      BY <1>1, <1>4, <3>1, <3>2 DEF Bucket
    <3>4. Entry(a, now).last <= clock /\ Entry(a, now).last - now <= LockWait
      BY <1>1, <1>2, <1>4, <3>2, <3>3 DEF Bucket
    <3> QED BY <3>2, <3>3, <3>4 DEF LevelOf, Refilled
  <2>2. CASE a \notin Kept(now)
    <3>1. Entry(a, now) = [tokens |-> Burst, last |-> clock, seen |-> now]
      BY <2>2 DEF Entry, NewBucket
    <3>2. Refilled(Entry(a, now), clock) = Burst
      BY <1>2, <3>1 DEF Refilled
    <3> QED BY <1>1, <1>2, <1>5, <2>2, <3>1, <3>2 DEF Bucket
  <2> QED BY <2>1, <2>2
<1> QED BY <1>1, <1>5, <1>6

\* What allow leaves behind.
LEMMA Allowed ==
    ASSUME ServingInv, LimiterInv, NEW r \in Callers, Allow(r)
    PROVE  /\ DOMAIN buckets' = Kept(stamp[r]) \cup {from[r]}
           /\ \A a \in DOMAIN buckets' :
                 IF a # from[r] THEN a \in Kept(stamp[r]) /\ buckets'[a] = buckets[a]
                 ELSE IF LevelOf(a) > 0
                 THEN buckets'[a] = [tokens |-> LevelOf(a) - 1, last |-> clock, seen |-> stamp[r]]
                 ELSE buckets'[a] = Entry(a, stamp[r])
           /\ buckets' \in [DOMAIN buckets' -> Bucket]
           /\ at' = [at EXCEPT ![r] = IF LevelOf(from[r]) > 0 THEN "body" ELSE "limited"]
           /\ from' = IF LevelOf(from[r]) > 0 THEN [from EXCEPT ![r] = NoAddress] ELSE from
           /\ at[r] = "limiter" /\ clock' = clock
<1> DEFINE a == from[r]
           now == stamp[r]
           e == Entry(a, now)
<1>1. at[r] = "limiter"
  BY DEF Allow, Advance
<1>2. /\ a \in Addresses /\ now \in Nat /\ e \in Bucket /\ e.seen = now
      /\ Refilled(e, clock) = LevelOf(a) /\ e.last <= clock
  BY <1>1, EntryIsEntitled
<1>3. clock \in Nat /\ LevelOf(a) \in 0 .. Burst
  BY <1>2, Refilling DEF ServingInv
<1>4. /\ at' = [at EXCEPT ![r] = IF Refilled(e, clock) > 0 THEN "body" ELSE "limited"]
      /\ buckets' = [x \in Kept(now) \cup {a} |->
             IF x # a THEN buckets[x]
             ELSE IF Refilled(e, clock) > 0
             THEN [tokens |-> Refilled(e, clock) - 1, last |-> clock, seen |-> now]
             ELSE e]
      /\ from' = (IF Refilled(e, clock) > 0 THEN [from EXCEPT ![r] = NoAddress] ELSE from)
      /\ clock' = clock
  BY DEF Allow, Advance
<1>5. LevelOf(a) > 0 => [tokens |-> LevelOf(a) - 1, last |-> clock, seen |-> now] \in Bucket
  BY <1>2, <1>3, LimiterAssumption DEF Bucket
<1>6. \A x \in Kept(now) : x \in DOMAIN buckets /\ buckets[x] \in Bucket
  BY DEF Kept, LimiterInv
<1>7. \A x \in DOMAIN buckets' :
        IF x # a THEN x \in Kept(now) /\ buckets'[x] = buckets[x]
        ELSE IF LevelOf(x) > 0
        THEN buckets'[x] = [tokens |-> LevelOf(x) - 1, last |-> clock, seen |-> now]
        ELSE buckets'[x] = e
  BY <1>2, <1>4, <1>5
<1>8. \A x \in DOMAIN buckets' : buckets'[x] \in Bucket
  BY <1>2, <1>5, <1>6, <1>7
<1>9. buckets' \in [DOMAIN buckets' -> Bucket]
  BY <1>4, <1>8
<1> QED BY <1>1, <1>2, <1>4, <1>7, <1>9

LEMMA CountsRound ==
    ASSUME NEW n \in Nat, NEW d \in Nat \ {0}
    PROVE  n % d \in 0 .. d - 1
BY SMTT(30)

LEMMA LimiterStep_ ==
    ASSUME ServingInv, LimiterInv, [ApiNext]_apiVars
    PROVE  LimiterInv'
<1>1. CASE /\ UNCHANGED limiterVars
           /\ clock' \in Nat /\ clock <= clock'
           /\ \A r \in Callers : at'[r] \in {"limiter", "limited"} => at[r] = at'[r]
  <2>1. from' = from /\ buckets' = buckets /\ calls' = calls
    BY <1>1 DEF limiterVars
  <2>2. \A a \in DOMAIN buckets : buckets[a].last <= clock'
    BY <1>1 DEF LimiterInv, ServingInv, Bucket
  <2> QED BY <1>1, <2>1, <2>2 DEF LimiterInv
<1>2. ASSUME NEW r \in Callers, LimiterStep(r) PROVE LimiterInv'
  <2>1. ASSUME NEW a \in Addresses, ArriveCreate(r, a) PROVE LimiterInv'
    <3>1. /\ from' = [from EXCEPT ![r] = a] /\ buckets' = buckets /\ clock' = clock
          /\ at' = [at EXCEPT ![r] = "limiter"] /\ calls' = calls
      BY <2>1 DEF ArriveCreate, Advance
    <3> QED BY <3>1 DEF LimiterInv, ServingInv
  <2>2. CASE Allow(r)
    <3> DEFINE now == stamp[r]
    <3>1. at[r] = "limiter"
      BY <2>2, Allowed
    <3>2. /\ from[r] \in Addresses /\ now \in Nat /\ now <= clock /\ clock - now <= LockWait
          /\ Entry(from[r], now).last <= clock /\ Entry(from[r], now).seen = now
          /\ Entry(from[r], now).last - now <= LockWait
      BY <3>1, EntryIsEntitled
    <3>3. DOMAIN buckets' \subseteq Addresses
      BY <2>2, <3>2, Allowed DEF Kept, LimiterInv
    <3>4. ASSUME NEW a \in DOMAIN buckets'
          PROVE  buckets'[a].last <= clock' /\ buckets'[a].last - buckets'[a].seen <= LockWait
      <4>1. CASE a # from[r]
        <5>1. a \in DOMAIN buckets /\ buckets'[a] = buckets[a] /\ clock' = clock
          BY <2>2, <4>1, <3>4, Allowed DEF Kept
        <5> QED BY <5>1 DEF LimiterInv
      <4>2. CASE a = from[r] /\ LevelOf(a) > 0
        <5>1. /\ buckets'[a] = [tokens |-> LevelOf(a) - 1, last |-> clock, seen |-> now]
              /\ clock' = clock
          BY <2>2, <4>2, <3>4, Allowed
        <5> QED BY <5>1, <3>2 DEF ServingInv
      <4>3. CASE a = from[r] /\ ~(LevelOf(a) > 0)
        <5>1. buckets'[a] = Entry(from[r], now) /\ clock' = clock
          BY <2>2, <4>3, <3>4, Allowed
        <5> QED BY <5>1, <3>2
      <4> QED BY <4>1, <4>2, <4>3
    <3>5. from' \in [Callers -> Addresses \cup {NoAddress}]
      <4>1. from' = from \/ from' = [from EXCEPT ![r] = NoAddress]
        BY <2>2, Allowed
      <4> QED BY <4>1 DEF LimiterInv
    <3>6. ASSUME NEW q \in Callers, at'[q] \in {"limiter", "limited"} PROVE from'[q] \in Addresses
      BY <2>2, <3>2, <3>6, Allowed DEF LimiterInv, ServingInv
    <3>7. calls' \in 0 .. SweepEvery - 1
      <4>1. calls' = (calls + 1) % SweepEvery
        BY <2>2 DEF Allow
      <4>2. calls + 1 \in Nat /\ SweepEvery \in Nat \ {0}
        BY LimiterAssumption DEF LimiterInv
      <4> QED BY <4>1, <4>2, CountsRound
    <3> QED BY <2>2, <3>3, <3>4, <3>5, <3>6, <3>7, Allowed DEF LimiterInv
  <2>3. CASE Refuse(r)
    <3>1. /\ from' = [from EXCEPT ![r] = NoAddress] /\ buckets' = buckets /\ clock' = clock
          /\ at' = [at EXCEPT ![r] = "idle"] /\ calls' = calls
      BY <2>3 DEF Refuse, Advance
    <3> QED BY <3>1 DEF LimiterInv, ServingInv
  <2> QED BY <1>2, <2>1, <2>2, <2>3 DEF LimiterStep
<1>3. ASSUME NEW r \in Callers, CreateStep(r) PROVE LimiterInv'
  <2>1. UNCHANGED limiterVars /\ clock' = clock
    BY <1>3 DEF CreateStep
  <2>2. at' = at \/ at' = [at EXCEPT ![r] = "idle"] \/ at' = [at EXCEPT ![r] = "store"]
    <3>1. CASE InLine(r)
      BY <3>1 DEF InLine
    <3>2. CASE BadBody(r) \/ GoodBody(r) \/ Decided(r) \/ Written(r)
      BY <3>2 DEF BadBody, GoodBody, Decided, Written, Advance
    <3> QED BY <1>3, <3>1, <3>2 DEF CreateStep
  <2> QED BY <1>1, <2>1, <2>2 DEF ServingInv
<1>4. ASSUME NEW r \in Callers, StatsStep(r) \/ ReadStep(r) PROVE LimiterInv'
  <2>1. UNCHANGED limiterVars /\ clock' = clock
    BY <1>4 DEF StatsStep, ReadStep, AskStats, ReuseStats, StartScan, FinishScan, FailScan,
                TellStats, Find, Miss, TellPaste, servingVars
  <2>2. \/ at' = at
        \/ \E to \in {"idle", "queueing", "scanning", "totals", "found"} : at' = [at EXCEPT ![r] = to]
    BY <1>4 DEF StatsStep, ReadStep, AskStats, ReuseStats, StartScan, FinishScan, FailScan,
                TellStats, Find, Miss, TellPaste, Advance, servingVars
  <2> QED BY <1>1, <2>1, <2>2 DEF ServingInv
<1>5. CASE ApiTick
  <2>1. UNCHANGED limiterVars /\ clock' = clock + 1 /\ at' = at
    BY <1>5 DEF ApiTick, Tick
  <2> QED BY <1>1, <2>1 DEF ServingInv
<1>6. CASE UNCHANGED apiVars
  BY <1>1, <1>6 DEF apiVars, servingVars, ServingInv
<1> QED BY <1>2, <1>3, <1>4, <1>5, <1>6 DEF ApiNext

-----------------------------------------------------------------------------
(* The shared scan. *)
LEMMA StatsInit_ == ApiInit => StatsInv
BY StatsAssumption DEF ApiInit, StatsInit, ServingInit, StatsInv, StatsAreRecent, Never

\* A step that neither reads nor moves the cache, by a request that is not at it.
LEMMA StatsUntouched ==
    ASSUME StatsInv, UNCHANGED statsVars,
           \A q \in Callers : at'[q] \in {"scanning", "totals"} =>
                at[q] = at'[q] /\ stamp'[q] = stamp[q]
    PROVE  StatsInv'
BY DEF StatsInv, StatsAreRecent, statsVars

LEMMA StatsStep_ ==
    ASSUME ServingInv, StatsInv, [ApiNext]_apiVars
    PROVE  StatsInv' /\ (statsAt' # statsAt => statsAt' >= statsAt + StatsCacheFor)
<1>0. StatsCacheFor \in Nat \ {0} /\ Never \in Int /\ clock \in Nat
  BY StatsAssumption DEF Never, ServingInv
<1>1. ASSUME NEW r \in Callers, StatsStep(r)
      PROVE  StatsInv' /\ (statsAt' # statsAt => statsAt' >= statsAt + StatsCacheFor)
  <2>0. stamp[r] \in Nat /\ stamp[r] <= clock /\ at \in [Callers -> Stages]
        /\ stamp \in [Callers -> Nat]
    BY DEF ServingInv
  <2>1. CASE AskStats(r)
    <3>1. UNCHANGED statsVars
      BY <2>1 DEF AskStats
    <3>2. \A q \in Callers : at'[q] \in {"scanning", "totals"} => at[q] = at'[q] /\ stamp'[q] = stamp[q]
      BY <2>0, <2>1 DEF AskStats, Advance, Stamp
    <3> QED BY <3>1, <3>2, StatsUntouched DEF statsVars
  <2>2. CASE ReuseStats(r)
    <3>1. /\ at' = [at EXCEPT ![r] = "totals"] /\ stamp' = stamp
          /\ totals' = [totals EXCEPT ![r] = statsValue]
          /\ statsAt' = statsAt /\ statsValue' = statsValue /\ snapshot' = snapshot
          /\ stamp[r] - statsAt < StatsCacheFor
      BY <2>2 DEF ReuseStats, Advance, Fresh
    <3>2. statsValue > stamp[r] - StatsCacheFor
      BY <1>0, <2>0, <3>1 DEF StatsInv
    <3>3. StatsAreRecent'
      BY <2>0, <3>1, <3>2 DEF StatsInv, StatsAreRecent
    <3>4. \A q \in Callers : at'[q] = "scanning" => at[q] = "scanning"
      BY <2>0, <3>1
    <3>5. totals' \in [Callers -> Int]
      BY <3>1 DEF StatsInv
    <3> QED BY <3>1, <3>3, <3>4, <3>5 DEF StatsInv
  <2>3. CASE StartScan(r)
    <3>1. /\ at' = [at EXCEPT ![r] = "scanning"] /\ stamp' = stamp
          /\ snapshot' = clock /\ totals' = totals
          /\ statsAt' = statsAt /\ statsValue' = statsValue
          /\ ~(stamp[r] - statsAt < StatsCacheFor)
          /\ \A q \in Callers : at[q] # "scanning"
      BY <2>3 DEF StartScan, Advance, Fresh, MutexFree
    <3>2. \A q \in Callers : at'[q] = "scanning" => q = r
      BY <2>0, <3>1
    <3>3. stamp'[r] <= snapshot' /\ statsAt' + StatsCacheFor <= stamp'[r]
      BY <1>0, <2>0, <3>1 DEF StatsInv
    <3>4. StatsAreRecent'
      BY <2>0, <3>1 DEF StatsInv, StatsAreRecent
    <3> QED BY <1>0, <3>1, <3>2, <3>3, <3>4 DEF StatsInv
  <2>4. CASE FinishScan(r)
    <3>1. /\ at[r] = "scanning" /\ at' = [at EXCEPT ![r] = "totals"] /\ stamp' = stamp
          /\ totals' = [totals EXCEPT ![r] = snapshot] /\ snapshot' = Never
          /\ statsAt' = stamp[r] /\ statsValue' = snapshot
      BY <2>4 DEF FinishScan, Advance
    <3>2. stamp[r] <= snapshot /\ statsAt + StatsCacheFor <= stamp[r]
      BY <3>1 DEF StatsInv
    <3>3. \A q \in Callers : at'[q] # "scanning"
      BY <2>0, <3>1 DEF StatsInv
    <3>4. snapshot > stamp[r] - StatsCacheFor
      BY <1>0, <2>0, <3>2 DEF StatsInv
    <3>5. StatsAreRecent'
      BY <2>0, <3>1, <3>4 DEF StatsInv, StatsAreRecent
    <3>6. totals' \in [Callers -> Int] /\ statsAt' \in Int /\ statsValue' \in Int /\ snapshot' \in Int
      BY <1>0, <2>0, <3>1 DEF StatsInv
    <3> QED BY <3>1, <3>2, <3>3, <3>5, <3>6 DEF StatsInv
  <2>5. CASE FailScan(r) \/ TellStats(r)
    <3>1. /\ at' = [at EXCEPT ![r] = "idle"] /\ stamp' = [stamp EXCEPT ![r] = 0]
          /\ statsAt' = statsAt /\ statsValue' = statsValue
          /\ \/ snapshot' = Never /\ totals' = totals /\ at[r] = "scanning"
             \/ snapshot' = snapshot /\ totals' = [totals EXCEPT ![r] = Never]
      BY <2>5 DEF FailScan, TellStats, Advance, Unstamp
    <3>2. totals' \in [Callers -> Int] /\ snapshot' \in Int
      BY <1>0, <3>1 DEF StatsInv
    <3>3. StatsAreRecent'
      BY <2>0, <3>1 DEF StatsInv, StatsAreRecent
    <3>4. ASSUME NEW q \in Callers, at'[q] = "scanning"
          PROVE  /\ q # r /\ at[q] = "scanning" /\ stamp'[q] = stamp[q]
                 /\ snapshot' = snapshot
      <4>1. q # r /\ at[q] = "scanning" /\ stamp'[q] = stamp[q]
        BY <2>0, <3>1, <3>4
      <4> QED BY <3>1, <4>1 DEF StatsInv
    <3> QED BY <3>1, <3>2, <3>3, <3>4 DEF StatsInv
  <2> QED BY <1>1, <2>1, <2>2, <2>3, <2>4, <2>5 DEF StatsStep
<1>2. ASSUME UNCHANGED statsVars,
             \A q \in Callers : at'[q] \in {"scanning", "totals"} =>
                at[q] = at'[q] /\ stamp'[q] = stamp[q]
      PROVE  StatsInv' /\ (statsAt' # statsAt => statsAt' >= statsAt + StatsCacheFor)
  BY <1>2, StatsUntouched DEF statsVars
<1>3. ASSUME NEW r \in Callers, LimiterStep(r) \/ CreateStep(r) \/ ReadStep(r)
      PROVE  /\ UNCHANGED statsVars
             /\ \A q \in Callers : at'[q] \in {"scanning", "totals"} =>
                   at[q] = at'[q] /\ stamp'[q] = stamp[q]
  <2>1. UNCHANGED statsVars
    BY <1>3 DEF LimiterStep, CreateStep, ReadStep
  <2>2. CASE LimiterStep(r)
    BY <2>1, <2>2 DEF LimiterStep, ArriveCreate, Allow, Refuse, Advance, Stamp, Unstamp, ServingInv
  <2>3. CASE CreateStep(r)
    <3>1. CASE InLine(r)
      BY <2>1, <2>3, <3>1 DEF CreateStep, InLine
    <3>2. CASE BadBody(r) \/ GoodBody(r) \/ Decided(r) \/ Written(r)
      BY <2>1, <2>3, <3>2 DEF CreateStep, BadBody, GoodBody, Decided, Written, Advance, ServingInv
    <3> QED BY <2>3, <3>1, <3>2 DEF CreateStep
  <2>4. CASE ReadStep(r)
    BY <2>1, <2>4 DEF ReadStep, Find, Miss, TellPaste, Advance, Stamp, Unstamp, servingVars, ServingInv
  <2> QED BY <1>3, <2>2, <2>3, <2>4
<1>4. CASE ApiTick
  BY <1>2, <1>4 DEF ApiTick, Tick
<1>5. CASE UNCHANGED apiVars
  BY <1>2, <1>5 DEF apiVars, servingVars
<1> QED BY <1>1, <1>2, <1>3, <1>4, <1>5 DEF ApiNext

-----------------------------------------------------------------------------
(* The shared cache in front of the server. *)
LEMMA EdgeInit_ == ApiInit => EdgeInv
BY EdgeAssumption DEF ApiInit, EdgeInit, EdgeInv, EdgeTypeOK, EdgeHonoursExpiry

LEMMA ScaleLe ==
    ASSUME NEW a \in Int, NEW b \in Int, NEW d \in Nat, a <= b
    PROVE  a * d <= b * d
BY SMTT(30)

\* The seconds given to a cache fit into the time the paste has left.
LEMMA MaxAgeFits ==
    ASSUME ServingInv, EdgeInv, NEW r \in Callers, expiresAt # 0, MaxAge(r) # 0
    PROVE  MaxAge(r) * Second \in Nat /\ clock + MaxAge(r) * Second <= expiresAt
<1> DEFINE left == (expiresAt - clock) \div Second
<1>1. expiresAt \in Nat /\ clock \in Nat /\ Second \in Nat \ {0} /\ CacheSeconds \in Nat
  BY EdgeAssumption DEF ServingInv, EdgeInv, EdgeTypeOK
<1>2. left \in Int /\ left * Second <= expiresAt - clock
  <2>1. expiresAt - clock \in Int
    BY <1>1
  <2> QED BY <1>1, <2>1, WholeSeconds
<1>3. MaxAge(r) \in Nat /\ MaxAge(r) <= left
  <2>1. MaxAge(r) = IF expiresAt = 0 \/ left >= CacheSeconds THEN CacheSeconds
                    ELSE IF left > 0 THEN left ELSE 0
    BY DEF MaxAge
  <2> HIDE DEF left
  <2> QED BY <1>1, <1>2, <2>1
<1> HIDE DEF left
<1>4. MaxAge(r) * Second <= left * Second
  BY <1>1, <1>2, <1>3, ScaleLe
<1>5. MaxAge(r) * Second \in Nat
  <2> DEFINE m == MaxAge(r)
  <2>1. m \in Nat /\ Second \in Nat
    BY <1>1, <1>3
  <2> HIDE DEF m
  <2>2. m * Second \in Nat
    BY <2>1
  <2> QED BY <2>2 DEF m
<1> DEFINE a == MaxAge(r) * Second
           b == left * Second
<1>6. b \in Int
  BY <1>1, <1>2
<1>7. a \in Nat /\ a <= b /\ b <= expiresAt - clock
  BY <1>2, <1>4, <1>5
<1> HIDE DEF a, b
<1>8. clock + a <= expiresAt
  BY <1>1, <1>6, <1>7
<1> QED BY <1>5, <1>8 DEF a

LEMMA EdgeStep ==
    ASSUME ServingInv, EdgeInv, [ApiNext]_apiVars
    PROVE  EdgeInv'
<1>1. CASE UNCHANGED edgeVars
  BY <1>1 DEF EdgeInv, EdgeTypeOK, EdgeHonoursExpiry, edgeVars
<1>2. ASSUME NEW r \in Callers, ReadStep(r) PROVE EdgeInv'
  <2>1. CASE Find(r)
    BY <1>1, <2>1 DEF Find
  <2>2. CASE Miss(r)
    BY <2>2, EdgeAssumption DEF Miss, EdgeInv, EdgeTypeOK, EdgeHonoursExpiry
  <2>3. CASE TellPaste(r)
    <3>1. /\ expiresAt' = expiresAt
          /\ freshUntil' = IF MaxAge(r) = 0 THEN freshUntil ELSE clock + MaxAge(r) * Second
      BY <2>3 DEF TellPaste
    <3>2. CASE MaxAge(r) = 0
      BY <3>1, <3>2 DEF EdgeInv, EdgeTypeOK, EdgeHonoursExpiry
    <3>3. CASE MaxAge(r) # 0 /\ expiresAt # 0
      <4>1. MaxAge(r) * Second \in Nat /\ clock + MaxAge(r) * Second <= expiresAt
        BY <3>3, MaxAgeFits
      <4>2. clock \in Nat
        BY DEF ServingInv
      <4> QED BY <3>1, <3>3, <4>1, <4>2 DEF EdgeInv, EdgeTypeOK, EdgeHonoursExpiry
    <3>4. CASE MaxAge(r) # 0 /\ expiresAt = 0
      <4>1. MaxAge(r) = CacheSeconds
        BY <3>4 DEF MaxAge
      <4>2. clock + CacheSeconds * Second \in Nat
        BY EdgeAssumption DEF ServingInv
      <4> QED BY <3>1, <3>4, <4>1, <4>2 DEF EdgeInv, EdgeTypeOK, EdgeHonoursExpiry
    <3> QED BY <3>2, <3>3, <3>4
  <2> QED BY <1>2, <2>1, <2>2, <2>3 DEF ReadStep
<1>3. ASSUME NEW r \in Callers, LimiterStep(r) \/ CreateStep(r) \/ StatsStep(r) PROVE EdgeInv'
  <2>1. UNCHANGED edgeVars
    BY <1>3 DEF LimiterStep, CreateStep, StatsStep
  <2> QED BY <1>1, <2>1
<1>4. CASE ApiTick
  BY <1>1, <1>4 DEF ApiTick
<1>5. CASE UNCHANGED apiVars
  BY <1>1, <1>5 DEF apiVars
<1> QED BY <1>2, <1>3, <1>4, <1>5 DEF ApiNext

-----------------------------------------------------------------------------
(* The server as a whole. *)
ApiInv == ServingInv /\ LimiterInv /\ StatsInv /\ EdgeInv

LEMMA ApiInvariant == ApiSpec => []ApiInv
<1>1. ApiInit => ApiInv
  BY ServingInit_, LimiterInit_, StatsInit_, EdgeInit_ DEF ApiInv
<1>2. ApiInv /\ [ApiNext]_apiVars => ApiInv'
  BY ServingStep, LimiterStep_, StatsStep_, EdgeStep DEF ApiInv
<1> QED BY <1>1, <1>2, PTL DEF ApiSpec

\* No answer of /api/stats is older than a window when it was asked for, for every
\* window, number of requests and order in which the mutex is had (cachedStats).
THEOREM StatsStayRecent == ApiSpec => []StatsAreRecent
<1>1. ApiInv => StatsAreRecent
  BY DEF ApiInv, StatsInv
<1> QED BY <1>1, ApiInvariant, PTL

\* The stamp of the shared scan moves forward and by a whole window, although a waiter
\* stamps it with a time read before the mutex (cachedStats).
THEOREM StampsMoveByWindows == ApiSpec => StampsApart
<1>1. ApiInv /\ [ApiNext]_apiVars =>
        [statsAt' # statsAt => statsAt' >= statsAt + StatsCacheFor]_<<servingVars, statsVars>>
  BY StatsStep_ DEF ApiInv
<1> QED BY <1>1, ApiInvariant, PTL DEF ApiSpec, StampsApart

\* Whatever the unit and the length of a cached answer's lifetime, and however late it
\* is computed, no cache keeps a paste past its expiry (setCacheControl).
THEOREM ExpiryHoldsEverywhere == ApiSpec => []EdgeHonoursExpiry
<1>1. ApiInv => EdgeHonoursExpiry
  BY DEF ApiInv, EdgeInv
<1> QED BY <1>1, ApiInvariant, PTL

\* To the store, the server's requests are callers of acquireWrite like any other.
LEMMA ApiImplementsGate == ApiSpec => Spec
<1>1. ApiInit => Init
  BY DEF ApiInit
<1>2. [ApiNext]_apiVars => [Next]_gateVars
  <2>1. ASSUME NEW r \in Callers, CreateStep(r) PROVE [Next]_gateVars
    <3>1. Enter(r) \/ Take(r) \/ GiveUp(r) \/ Depart(r) \/ Release(r) \/ UNCHANGED gateVars
      BY <2>1 DEF CreateStep, BadBody, GoodBody, InLine, Decided, Written
    <3> QED BY <3>1 DEF Next
  <2>2. ASSUME NEW r \in Callers, LimiterStep(r) \/ StatsStep(r) \/ ReadStep(r)
        PROVE UNCHANGED gateVars
    BY <2>2 DEF LimiterStep, StatsStep, ReadStep
  <2>3. ApiTick \/ UNCHANGED apiVars => UNCHANGED gateVars
    BY DEF ApiTick, apiVars
  <2> QED BY <2>1, <2>2, <2>3 DEF ApiNext
<1> QED BY <1>1, <1>2, PTL DEF ApiSpec, Spec

\* What is proved of admission holds of creates over HTTP, whatever the limiter lets
\* through and whatever the other handlers do (acquireWrite under Server.create).
THEOREM WritesThroughTheGate == ApiSpec => []WritesBounded
BY ApiImplementsGate, AdmissionHolds, PTL

\* Every part of the server stays well formed: admission, requests, the limiter's map,
\* the shared scan and the cache in front (Server).
THEOREM ApiTypes == ApiSpec => []ApiTypeOK
<1>1. ApiInv /\ TypeOK => ApiTypeOK
  BY DEF ApiInv, ApiTypeOK, ServingInv, LimiterInv, LimiterTypeOK, Bucket, StatsInv,
         StatsTypeOK, EdgeInv
<1> QED BY <1>1, ApiInvariant, ApiImplementsGate, AdmissionHolds, PTL

-----------------------------------------------------------------------------
(* The limiter as buckets that are never forgotten. *)
LEMMA LevelsAfterTick ==
    ASSUME ServingInv, LimiterInv, clock' = clock + 1, buckets' = buckets,
           NEW a \in Addresses
    PROVE  LevelOf(a)' = IF LevelOf(a) < Burst THEN LevelOf(a) + 1 ELSE Burst
<1>1. clock \in Nat /\ Burst \in Nat
  BY LimiterAssumption DEF ServingInv
<1>2. CASE a \in DOMAIN buckets
  <2>1. buckets[a] \in Bucket /\ buckets[a].last <= clock
    BY <1>2 DEF LimiterInv
  <2>2. LevelOf(a) = Refilled(buckets[a], clock) /\ LevelOf(a)' = Refilled(buckets[a], clock + 1)
    BY <1>2 DEF LevelOf, Refilled
  <2> QED BY <1>1, <2>1, <2>2, Refilling
<1>3. CASE a \notin DOMAIN buckets
  BY <1>1, <1>3 DEF LevelOf
<1> QED BY <1>2, <1>3

LEMMA LevelsAfterAllow ==
    ASSUME ServingInv, LimiterInv, NEW r \in Callers, Allow(r), NEW a \in Addresses
    PROVE  LevelOf(a)' = IF a = from[r] /\ LevelOf(a) > 0 THEN LevelOf(a) - 1 ELSE LevelOf(a)
<1>0. at[r] = "limiter" /\ clock' = clock
  BY Allowed
<1>1. /\ from[r] \in Addresses /\ Entry(a, stamp[r]) \in Bucket
      /\ Refilled(Entry(a, stamp[r]), clock) = LevelOf(a)
      /\ Entry(a, stamp[r]).last <= clock
      /\ a \notin Kept(stamp[r]) => LevelOf(a) = Burst
  BY <1>0, EntryIsEntitled
<1>2. clock \in Nat /\ Burst \in Nat /\ LevelOf(a) \in 0 .. Burst
  BY <1>1, Refilling, LimiterAssumption DEF ServingInv
<1>3. CASE a # from[r] /\ a \in Kept(stamp[r])
  <2>1. a \in DOMAIN buckets' /\ buckets'[a] = buckets[a] /\ a \in DOMAIN buckets
    BY <1>3, Allowed DEF Kept
  <2> QED BY <1>0, <1>3, <2>1 DEF LevelOf, Refilled
<1>4. CASE a # from[r] /\ a \notin Kept(stamp[r])
  <2>1. a \notin DOMAIN buckets'
    BY <1>4, Allowed
  <2> QED BY <1>1, <1>4, <2>1 DEF LevelOf
<1>5. CASE a = from[r] /\ LevelOf(a) > 0
  <2>1. /\ a \in DOMAIN buckets'
        /\ buckets'[a] = [tokens |-> LevelOf(a) - 1, last |-> clock, seen |-> stamp[r]]
    BY <1>5, Allowed
  <2>2. LevelOf(a)' = Refilled([tokens |-> LevelOf(a) - 1, last |-> clock, seen |-> stamp[r]], clock)
    BY <1>0, <2>1 DEF LevelOf, Refilled
  <2> QED BY <1>2, <1>5, <2>2 DEF Refilled
<1>6. CASE a = from[r] /\ ~(LevelOf(a) > 0)
  <2>1. a \in DOMAIN buckets' /\ buckets'[a] = Entry(a, stamp[r])
    BY <1>6, Allowed
  <2>2. LevelOf(a)' = Refilled(Entry(a, stamp[r]), clock)
    BY <1>0, <2>1 DEF LevelOf, Refilled
  <2> QED BY <1>1, <1>6, <2>2
<1> QED BY <1>3, <1>4, <1>5, <1>6

\* One step of the server is one step of the buckets, or none of their business.
LEMMA PromiseStep ==
    ASSUME ServingInv, LimiterInv, [ApiNext]_apiVars
    PROVE  [Promise!BucketsNext]_(Promise!bucketVars)
<1> DEFINE passed == {r \in Callers : at[r] = "body"}
           turned == {<<r, from[r]>> : r \in {c \in Callers : at[c] = "limited"}}
<1>0. at \in [Callers -> Stages] /\ from \in [Callers -> Addresses \cup {NoAddress}]
  BY DEF ServingInv, LimiterInv
<1>1. ASSUME clock' = clock, buckets' = buckets, NEW a \in Addresses
      PROVE  LevelOf(a)' = LevelOf(a)
  BY <1>1 DEF LevelOf, Refilled
<1>2. ASSUME clock' = clock, buckets' = buckets, passed' = passed, turned' = turned
      PROVE  UNCHANGED Promise!bucketVars
  BY <1>1, <1>2 DEF Promise!bucketVars
<1>3. CASE ApiTick
  <2>1. clock' = clock + 1 /\ buckets' = buckets /\ from' = from /\ at' = at
    BY <1>3 DEF ApiTick, Tick, limiterVars
  <2>2. \A a \in Addresses : LevelOf(a)' = IF LevelOf(a) < Burst THEN LevelOf(a) + 1 ELSE Burst
    BY <2>1, LevelsAfterTick
  <2>3. Promise!OneTokenBack
    BY <2>1, <2>2 DEF Promise!OneTokenBack
  <2> QED BY <2>3 DEF Promise!BucketsNext
<1>4. ASSUME NEW r \in Callers, LimiterStep(r) PROVE [Promise!BucketsNext]_(Promise!bucketVars)
  <2>1. ASSUME NEW a \in Addresses, ArriveCreate(r, a) PROVE UNCHANGED Promise!bucketVars
    <3>1. /\ from' = [from EXCEPT ![r] = a] /\ buckets' = buckets /\ clock' = clock
          /\ at[r] = "idle" /\ at' = [at EXCEPT ![r] = "limiter"]
      BY <2>1 DEF ArriveCreate, Advance
    <3>2. passed' = passed /\ turned' = turned
      BY <1>0, <3>1
    <3> QED BY <1>2, <3>1, <3>2
  <2>2. CASE Allow(r)
    <3>0. at[r] = "limiter" /\ from[r] \in Addresses
      BY <2>2, Allowed, EntryIsEntitled
    <3>1. PICK a \in Addresses : a = from[r]
      BY <3>0
    <3>2. /\ at' = [at EXCEPT ![r] = IF LevelOf(a) > 0 THEN "body" ELSE "limited"]
          /\ from' = IF LevelOf(a) > 0 THEN [from EXCEPT ![r] = NoAddress] ELSE from
          /\ LevelOf(a) \in 0 .. Burst
      <4>1. Refilled(Entry(a, stamp[r]), clock) = LevelOf(a) /\ Entry(a, stamp[r]) \in Bucket
            /\ Entry(a, stamp[r]).last <= clock /\ clock \in Nat
        BY <3>0, <3>1, EntryIsEntitled DEF ServingInv
      <4> QED BY <2>2, <3>1, <4>1, Allowed, Refilling
    <3>3. \A x \in Addresses :
            LevelOf(x)' = IF x = a /\ LevelOf(x) > 0 THEN LevelOf(x) - 1 ELSE LevelOf(x)
      BY <2>2, <3>1, LevelsAfterAllow
    <3>4. CASE LevelOf(a) > 0
      <4>1. passed' = passed \cup {r} /\ turned' = turned /\ r \notin passed
        BY <1>0, <3>0, <3>1, <3>2, <3>4
      <4>2. Promise!LetThrough(r, a)
        BY <3>1, <3>3, <3>4, <4>1 DEF Promise!LetThrough
      <4> QED BY <3>1, <4>2 DEF Promise!BucketsNext
    <3>5. CASE ~(LevelOf(a) > 0)
      <4>1. passed' = passed /\ turned' = turned \cup {<<r, a>>}
        BY <1>0, <3>0, <3>1, <3>2, <3>5
      <4>2. LevelOf(a) = 0 /\ \A x \in Addresses : LevelOf(x)' = LevelOf(x)
        BY <3>2, <3>3, <3>5
      <4>3. Promise!TurnAway(r, a)
        BY <3>1, <4>1, <4>2 DEF Promise!TurnAway
      <4> QED BY <3>1, <4>3 DEF Promise!BucketsNext
    <3> QED BY <3>4, <3>5
  <2>3. CASE Refuse(r)
    <3>1. /\ from' = [from EXCEPT ![r] = NoAddress] /\ buckets' = buckets /\ clock' = clock
          /\ at[r] = "limited" /\ at' = [at EXCEPT ![r] = "idle"] /\ from[r] \in Addresses
      BY <2>3 DEF Refuse, Advance, LimiterInv
    <3>2. passed' = passed /\ turned' = turned \ {<<r, from[r]>>}
      BY <1>0, <3>1
    <3>3. PICK a \in Addresses : a = from[r]
      BY <3>1
    <3>4. Promise!Told(r, a)
      BY <1>1, <3>1, <3>2, <3>3 DEF Promise!Told
    <3> QED BY <3>4 DEF Promise!BucketsNext
  <2> QED BY <1>4, <2>1, <2>2, <2>3 DEF LimiterStep
<1>5. ASSUME NEW r \in Callers, CreateStep(r) PROVE [Promise!BucketsNext]_(Promise!bucketVars)
  <2>1. from' = from /\ buckets' = buckets /\ clock' = clock
    BY <1>5 DEF CreateStep, limiterVars
  <2>2. CASE BadBody(r) \/ GoodBody(r)
    <3>1. at[r] = "body" /\ (at' = [at EXCEPT ![r] = "idle"] \/ at' = [at EXCEPT ![r] = "store"])
      BY <2>2 DEF BadBody, GoodBody, Advance
    <3>2. passed' = passed \ {r} /\ turned' = turned
      BY <1>0, <2>1, <3>1
    <3>3. Promise!GoesOn(r)
      BY <1>1, <2>1, <3>2 DEF Promise!GoesOn
    <3> QED BY <3>3 DEF Promise!BucketsNext
  <2>3. CASE InLine(r) \/ Decided(r) \/ Written(r)
    <3>1. /\ at[r] = "store"
          /\ \/ at' = at \/ at' = [at EXCEPT ![r] = "idle"] \/ at' = [at EXCEPT ![r] = "store"]
      BY <2>3 DEF InLine, Decided, Written, Advance
    <3>2. passed' = passed /\ turned' = turned
      BY <1>0, <2>1, <3>1
    <3> QED BY <1>2, <2>1, <3>2
  <2> QED BY <1>5, <2>2, <2>3 DEF CreateStep
<1>6. ASSUME NEW r \in Callers, StatsStep(r) \/ ReadStep(r) PROVE UNCHANGED Promise!bucketVars
  <2>1. from' = from /\ buckets' = buckets /\ clock' = clock
    BY <1>6 DEF StatsStep, ReadStep, AskStats, ReuseStats, StartScan, FinishScan, FailScan,
                TellStats, Find, Miss, TellPaste, servingVars, limiterVars
  <2>2. \/ at' = at
        \/ /\ at[r] \in {"idle", "queueing", "scanning", "totals", "found"}
           /\ \E to \in {"idle", "queueing", "scanning", "totals", "found"} : at' = [at EXCEPT ![r] = to]
    BY <1>6 DEF StatsStep, ReadStep, AskStats, ReuseStats, StartScan, FinishScan, FailScan,
                TellStats, Find, Miss, TellPaste, Advance, servingVars
  <2>3. passed' = passed /\ turned' = turned
    BY <1>0, <2>1, <2>2
  <2> QED BY <1>2, <2>1, <2>3
<1>7. CASE UNCHANGED apiVars
  BY <1>2, <1>7 DEF apiVars, servingVars, limiterVars
<1> QED BY <1>3, <1>4, <1>5, <1>6, <1>7 DEF ApiNext

\* For any burst, walk and number of requests, a limiter that drops idle entries lets
\* through and turns away exactly what one that keeps every bucket would, if a bucket
\* fills up sooner than an entry is dropped (rateLimiter.allow).
THEOREM LimiterForgetsNothing == ApiSpec => KeepsItsPromise
<1>1. ApiInit => Promise!BucketsInit
  <2>1. ApiInit => /\ DOMAIN buckets = {}
                   /\ at = [r \in Callers |-> "idle"]
    BY DEF ApiInit, LimiterInit, ServingInit
  <2> QED BY <2>1 DEF Promise!BucketsInit, LevelOf
<1>2. ApiInv /\ [ApiNext]_apiVars => [Promise!BucketsNext]_(Promise!bucketVars)
  BY PromiseStep DEF ApiInv
<1> QED BY <1>1, <1>2, ApiInvariant, PTL DEF ApiSpec, KeepsItsPromise, Promise!BucketsSpec
=============================================================================
