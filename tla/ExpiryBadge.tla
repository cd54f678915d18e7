---------------------------- MODULE ExpiryBadge ----------------------------
(***************************************************************************)
(* web: the running countdown of the paste page (Expiry, useCountdownTick, *)
(* countdown).  Time is counted in parts of a second, so that flooring to  *)
(* seconds shows.  The clock stops at no timer: an interval of a tab in    *)
(* the foreground fires when it is due.                                    *)
(***************************************************************************)
EXTENDS Integers

CONSTANTS
    Second,           \* parts of a second
    Minute, Hour, Day,\* in seconds
    Coarse,           \* the slow tick, in seconds (30)
    Horizon           \* bound: how far the clock runs, in parts

ASSUME BadgeAssumption ==
    /\ {Second, Minute, Hour, Day, Coarse, Horizon} \subseteq Nat \ {0}
    /\ Hour % Minute = 0 /\ Day % Hour = 0 /\ Coarse < Hour

VARIABLES
    clock,            \* Date.now(), from the moment the badge appeared
    deadline,         \* the paste's expiresAt; NoBadge while none is shown
    now,              \* the hook's state: the clock when it last ticked
    period,           \* the interval in force, in seconds
    nextTick          \* when it fires next

badgeVars == <<clock, deadline, now, period, nextTick>>

NoBadge == -1

\* One interval for as long as the badge is mounted.
PeriodForEver(at, t) == Coarse

\* showingSeconds, and the interval the effect sets for it.
Period(at, t) == IF at - t < Hour * Second THEN 1 ELSE Coarse

\* countdownParts: whole seconds left, none once the deadline has passed.
SecondsLeft(at, t) == IF at <= t THEN 0 ELSE (at - t) \div Second

\* countdown: the time its two largest units spell, the rest floored away.  Expired
\* is null, for which the badge says that the paste has expired.
Expired == -1

Grain(total) == IF total >= Day THEN Hour ELSE IF total >= Hour THEN Minute ELSE 1

Countdown(at, t) ==
    LET total == SecondsLeft(at, t)
    IN  IF at <= t THEN Expired ELSE total - (total % Grain(total))

BadgeInit ==
    /\ clock = 0 /\ deadline = NoBadge
    /\ now = 0 /\ period = 0 /\ nextTick = 0

\* The paste is shown: useState(() => Date.now()) and the first interval.
OpenBadge(at) ==
    /\ deadline = NoBadge
    /\ deadline' = at
    /\ clock' = 0 /\ now' = 0
    /\ period' = Period(at, 0)
    /\ nextTick' = Period(at, 0) * Second

CloseBadge ==
    /\ clock' = 0 /\ deadline' = NoBadge
    /\ now' = 0 /\ period' = 0 /\ nextTick' = 0

\* The interval fires.  Crossing into the last hour re-runs the effect, which sets
\* the faster interval from here on.
TickBadge ==
    /\ deadline # NoBadge /\ clock = nextTick
    /\ now' = clock
    /\ period' = Period(deadline, clock)
    /\ nextTick' = clock + Period(deadline, clock) * Second
    /\ UNCHANGED <<clock, deadline>>

TimePasses ==
    /\ deadline # NoBadge /\ clock < Horizon /\ clock < nextTick
    /\ clock' = clock + 1
    /\ UNCHANGED <<deadline, now, period, nextTick>>

-----------------------------------------------------------------------------
\* What the badge says never promises more than what is left plus one interval, and
\* one second after the deadline it says so: the rate follows the resolution and the
\* effect re-runs on the one crossing (paste.tsx:449-456, expiry.ts:84-87).
BadgeKeepsUp ==
    deadline # NoBadge =>
        /\ \/ Countdown(deadline, now) = Expired
           \/ Countdown(deadline, now) * Second <= deadline - clock + period * Second
        /\ clock > deadline + Second => Countdown(deadline, now) = Expired
=============================================================================
