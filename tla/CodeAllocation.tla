--------------------------- MODULE CodeAllocation ---------------------------
(***************************************************************************)
(* Giving out share codes: the counter, the table with its UNIQUE index on *)
(* code, and a process that may be restarted under another secret or       *)
(* another minimum length.                                                 *)
(*                                                                         *)
(* One action is one transaction of Store.Create reduced to its codes.  A  *)
(* Create whose INSERT meets the unique index rolls back, counter and all, *)
(* so the next one computes the same code again.                           *)
(***************************************************************************)
EXTENDS ShareCodes

CONSTANTS
    Settings,      \* what HASTE_ID_SECRET and HASTE_CODE_MIN_LEN may be set to
    Changes,       \* pairs of settings a restart may go from and to
    MaxRestarts    \* bound

ASSUME AllocationAssumption ==
    /\ \A g \in Settings :
         /\ g.minLen \in Int
         /\ \A round \in 0 .. Rounds - 1, l \in 1 .. MaxLen : \A v \in 0 .. Half(l) - 1 :
              Mac(g.key, round, l, v) \in Nat      \* a uint64
    /\ NoCode \notin Reserved                       \* a route is not an empty word
    /\ Changes \subseteq Settings \X Settings
    /\ MaxRestarts \in Nat

VARIABLES
    seq,        \* counters.paste_seq, as committed
    rows,       \* the pastes present: [seq, code]
    issued,     \* every paste there ever was: its code has been shared
    setting,    \* the secret and minimum length of this process
    codeOf,     \* its generator
    restarts

codeVars == <<seq, rows, issued, setting, codeOf, restarts>>

\* NewGenerator: what a setting fixes is a function from numbers to codes, here
\* tabulated up to the first number that no setting has a code for.
NewGenerator ==
    [g \in Settings |->
        [n \in 1 .. (Capacity(1) + 1) |-> Code(g.key, Clamp(g.minLen), n)]]

\* The loop of Create: the next number whose code shadows no route.
Upcoming ==
    CHOOSE n \in (seq + 1) .. (Capacity(1) + 1) :
        /\ codeOf[n] \notin Reserved
        /\ \A m \in (seq + 1) .. (n - 1) : codeOf[m] \in Reserved

\* The loop ends in ErrExhausted.
Exhausted == codeOf[Upcoming] = NoCode

CodesOf(pastes) == {p.code : p \in pastes}

Allocate ==
    /\ ~Exhausted
    /\ codeOf[Upcoming] \notin CodesOf(rows)       \* pastes_code_idx
    /\ seq' = Upcoming
    /\ rows' = rows \cup {[seq |-> Upcoming, code |-> codeOf[Upcoming]]}
    /\ issued' = issued \cup {[seq |-> Upcoming, code |-> codeOf[Upcoming]]}
    /\ UNCHANGED <<setting, codeOf, restarts>>

\* Eviction or the sweep takes a paste away; its code stays written elsewhere.
Remove ==
    /\ \E p \in rows : rows' = rows \ {p}
    /\ UNCHANGED <<seq, issued, setting, codeOf, restarts>>

Restart ==
    /\ restarts < MaxRestarts
    /\ restarts' = restarts + 1
    /\ \E g \in Settings :
         /\ <<setting, g>> \in Changes
         /\ setting' = g
         /\ codeOf' = NewGenerator[g]
    /\ UNCHANGED <<seq, rows, issued>>

Init ==
    /\ seq = 0 /\ rows = {} /\ issued = {}
    /\ setting \in Settings
    /\ codeOf = NewGenerator[setting]
    /\ restarts = 0

Next ==
    \/ Allocate
    \/ Remove
    \/ Restart

Spec == Init /\ [][Next]_codeVars

-----------------------------------------------------------------------------
\* "Codes never collide and never need a retry loop against the database"
\* (slug.go:3-4): the code the next Create computes was never given out before,
\* so its INSERT cannot fail and no shared link is bound to another paste.
CodesNeverCollide == ~Exhausted => codeOf[Upcoming] \notin CodesOf(issued)

\* The permutation is onto exactly each tier (slug.go:10-13): when the codes of one
\* setting run out, every code of every length has been used, save the reserved
\* ones, and the counter stands where Capacity says.
NoCodeIsWasted ==
    restarts = 0 /\ Exhausted =>
        /\ CodesOf(issued) = {c \in ValidCodes : Len(c) >= Clamp(setting.minLen)} \ Reserved
        /\ Upcoming = Capacity(Clamp(setting.minLen)) + 1

\* "Codes start at a configured minimum length and only grow when that space is
\* genuinely exhausted" (slug.go:4-5), as long as the minimum stays what it was: a
\* number keeps its offset in the ladder of another minimum, so a raised one skips
\* the codes whose offsets had gone by.
LengthGrowsOnlyWhenFull ==
    restarts = 0 =>
        \A p \in issued, c \in ValidCodes :
            Len(c) >= Clamp(setting.minLen) /\ Len(c) < Len(p.code)
                => c \in CodesOf(issued) \cup Reserved
=============================================================================
