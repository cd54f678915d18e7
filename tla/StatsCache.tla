----------------------------- MODULE StatsCache ------------------------------
(***************************************************************************)
(* httpapi: the last scan for /api/stats, shared by its requests           *)
(* (Server.cachedStats).  The totals are represented by the time at which  *)
(* they were true: the moment the scan's statement took its snapshot.      *)
(***************************************************************************)
EXTENDS Serving

CONSTANT StatsCacheFor   \* how long a scan is reused

ASSUME StatsAssumption == StatsCacheFor \in Nat \ {0}

VARIABLES
    statsAt,      \* the stamp of the last scan
    statsValue,   \* the totals it found
    snapshot,     \* the totals the running scan sees, Never between scans
    totals        \* what each request got from cachedStats and has yet to tell

statsVars == <<statsAt, statsValue, snapshot, totals>>

Never == -StatsCacheFor   \* the zero time.Time, longer ago than any window

StatsInit ==
    /\ statsAt = Never /\ statsValue = Never /\ snapshot = Never
    /\ totals = [r \in Callers |-> Never]

\* A request that handleStats lets through; cachedStats reads the clock.
AskStats(r) ==
    /\ Advance(r, "idle", "queueing")
    /\ Stamp(r)
    /\ UNCHANGED <<clock, statsVars>>

\* The window judged by the time of the mutex instead of the request's.
FreshUnderLock(r) == clock - statsAt < StatsCacheFor

Fresh(r) == stamp[r] - statsAt < StatsCacheFor

MutexFree == \A r \in Callers : at[r] # "scanning"

\* The mutex is had, and the last scan is recent enough for this request.
ReuseStats(r) ==
    /\ MutexFree /\ Fresh(r)
    /\ Advance(r, "queueing", "totals")
    /\ totals' = [totals EXCEPT ![r] = statsValue]
    /\ UNCHANGED <<clock, stamp, statsAt, statsValue, snapshot>>

\* It is not, so this request scans and keeps the mutex meanwhile.
StartScan(r) ==
    /\ MutexFree /\ ~Fresh(r)
    /\ Advance(r, "queueing", "scanning")
    /\ snapshot' = clock
    /\ UNCHANGED <<clock, stamp, statsAt, statsValue, totals>>

\* The scan has ended; it is stamped with the time read before the mutex.
FinishScan(r) ==
    /\ Advance(r, "scanning", "totals")
    /\ statsValue' = snapshot /\ statsAt' = stamp[r]
    /\ totals' = [totals EXCEPT ![r] = snapshot] /\ snapshot' = Never
    /\ UNCHANGED <<clock, stamp>>

\* A failed scan that moves the stamp all the same.
FailScanStamping(r) ==
    /\ Advance(r, "scanning", "idle")
    /\ Unstamp(r) /\ snapshot' = Never
    /\ statsAt' = stamp[r]
    /\ UNCHANGED <<clock, statsValue, totals>>

\* The scan fails or its client goes away: an error, and nothing is remembered.
FailScan(r) ==
    /\ Advance(r, "scanning", "idle")
    /\ Unstamp(r) /\ snapshot' = Never
    /\ UNCHANGED <<clock, statsAt, statsValue, totals>>

\* The totals are written.
TellStats(r) ==
    /\ Advance(r, "totals", "idle")
    /\ Unstamp(r) /\ totals' = [totals EXCEPT ![r] = Never]
    /\ UNCHANGED <<clock, statsAt, statsValue, snapshot>>

-----------------------------------------------------------------------------
StatsTypeOK ==
    /\ statsAt \in Int /\ statsValue \in Int /\ snapshot \in Int
    /\ totals \in [Callers -> Int]

\* The totals a request is told were true less than a window before it arrived, or
\* since (handlers.go:126, "bounds how fresh /api/stats can be"), whatever it waited
\* for, whoever scanned, and although stamps are older than the scans they stand for.
StatsAreRecent ==
    \A r \in Callers : at[r] = "totals" => totals[r] > stamp[r] - StatsCacheFor

\* A scan replaces one whose stamp is a whole window older: waiters that arrived
\* together share one scan, and the stamp never goes back to a waiter's older time.
StampsApart ==
    [][statsAt' # statsAt => statsAt' >= statsAt + StatsCacheFor]_<<servingVars, statsVars>>
=============================================================================
