------------------------------ MODULE EdgeCache ------------------------------
(***************************************************************************)
(* httpapi: reading a paste through a shared cache that honours            *)
(* Cache-Control.  handleRead, handleRaw and handleDownload have the same  *)
(* two steps: Store.Get decides by the time at which it ran, and           *)
(* setCacheControl by the time left when the paste is decompressed.  The   *)
(* 304 of `buffered` carries the header of the answer it stands for and    *)
(* so renews the copy like a 200.                                          *)
(***************************************************************************)
EXTENDS Serving

CONSTANTS
    Expiries,       \* bound: when the paste may expire, 0 for never
    Second,         \* ticks in a second, the unit of max-age
    CacheSeconds    \* cacheSeconds

ASSUME EdgeAssumption ==
    /\ Second \in Nat \ {0} /\ CacheSeconds \in Nat
    /\ Expiries \subseteq Nat

VARIABLES
    expiresAt,   \* of the paste; 0: it has no lifetime
    freshUntil   \* the cache serves its copy without asking before this time

edgeVars == <<expiresAt, freshUntil>>

EdgeInit == expiresAt \in Expiries /\ freshUntil = 0

Expired == expiresAt # 0 /\ expiresAt <= clock

\* The cache has no fresh copy and asks; Get finds the paste.
Find(r) ==
    /\ clock >= freshUntil
    /\ ~Expired
    /\ Advance(r, "idle", "found")
    /\ Stamp(r)
    /\ UNCHANGED <<clock, edgeVars>>

\* Get no longer finds it: a 404, which is not tagged and leaves nothing to serve.
Miss(r) ==
    /\ clock >= freshUntil
    /\ Expired
    /\ at[r] = "idle" /\ freshUntil # 0
    /\ freshUntil' = 0
    /\ UNCHANGED <<servingVars, expiresAt>>

\* The time left when Get ran, for a paste that took its time to decompress.
MaxAgeWhenFound(r) ==
    LET left == (expiresAt - stamp[r]) \div Second
    IN  IF expiresAt = 0 \/ left >= CacheSeconds THEN CacheSeconds
        ELSE IF left > 0 THEN left ELSE 0

\* setCacheControl: whole seconds left, at most cacheSeconds; 0 is no-store.
MaxAge(r) ==
    LET left == (expiresAt - clock) \div Second
    IN  IF expiresAt = 0 \/ left >= CacheSeconds THEN CacheSeconds
        ELSE IF left > 0 THEN left ELSE 0

\* The answer is written, and the cache keeps it for its max-age.
TellPaste(r) ==
    /\ Advance(r, "found", "idle")
    /\ freshUntil' = IF MaxAge(r) = 0 THEN freshUntil ELSE clock + MaxAge(r) * Second
    /\ Unstamp(r)
    /\ UNCHANGED <<clock, expiresAt>>

-----------------------------------------------------------------------------
EdgeTypeOK == expiresAt \in Expiries /\ freshUntil \in Nat

\* No cache serves a paste past its expiry (handlers.go:444, "makes the expiry hold
\* everywhere and not just at the origin"), however long an answer that Get began in
\* time took to be ready.
EdgeHonoursExpiry == expiresAt # 0 => freshUntil <= expiresAt
=============================================================================
