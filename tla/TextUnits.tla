----------------------------- MODULE TextUnits -----------------------------
(***************************************************************************)
(* web: what the client counts and trims, over the UTF-16 units of a       *)
(* JavaScript string, and what the server counts of the same text.         *)
(***************************************************************************)
EXTENDS Integers, Sequences, FiniteSets

Units == {"x", "space", "high", "low"}

PairAt(s, i) == s[i] = "high" /\ s[i + 1] = "low"

\* countCodePoints: the length less one for every pair, each unit looked at once.
countCodePoints(s) ==
    LET pairs[i \in 1 .. Len(s) + 1] ==
            IF i >= Len(s) THEN 0
            ELSE IF PairAt(s, i) THEN 1 + pairs[i + 2] ELSE pairs[i + 1]
    IN  Len(s) - pairs[1]

\* trim()
Trim(s) ==
    LET inked == {i \in DOMAIN s : s[i] # "space"}
    IN  IF inked = {} THEN <<>>
        ELSE SubSeq(s, CHOOSE i \in inked : \A j \in inked : i <= j,
                       CHOOSE i \in inked : \A j \in inked : j <= i)

\* utf8.RuneCountInString after JSON: a surrogate without its other half is escaped by
\* JSON.stringify and decoded as one replacement character.
Runes(s) ==
    Cardinality({i \in DOMAIN s : ~(s[i] = "low" /\ i > 1 /\ s[i - 1] = "high")})
=============================================================================
