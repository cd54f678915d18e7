----------------------------- MODULE ShareCodes -----------------------------
(***************************************************************************)
(* internal/id: the share code of a sequence number.  A code is a tuple of *)
(* digits below Base; its length says which tier it belongs to.  Mac       *)
(* stands for the HMAC that keys the round function: any function at all,  *)
(* since only the Feistel structure around it makes codes distinct.        *)
(***************************************************************************)
EXTENDS Integers, FiniteSets, Sequences, FiniteSetsExt

CONSTANTS
    Base,             \* letters of the alphabet (62)
    MaxLen,           \* length of the longest code (10)
    Reserved,         \* the codes that spell a fixed route
    Mac(_, _, _, _)   \* key, round, length, value -> a number

ASSUME CodeAssumption ==
    /\ Base \in Nat /\ Base >= 2
    /\ MaxLen \in Nat \ {0}

Rounds == 4

NoCode == <<>>                       \* ErrExhausted

-----------------------------------------------------------------------------
(* Tiers.                                                                  *)

\* The table of init: n *= base, once for every character.
Sizes[l \in Nat] == IF l = 0 THEN 1 ELSE Base * Sizes[l - 1]

Size(length) == Sizes[length]

\* 1 << w
Pow2[w \in Nat] == IF w = 0 THEN 1 ELSE 2 * Pow2[w - 1]

\* bits.Len64: the bits it takes to write n.
BitLen(n) == CHOOSE w \in 0 .. n : Pow2[w] > n /\ \A u \in 0 .. w - 1 : Pow2[u] <= n

\* Half of the smallest even width that covers the tier, in bits.
HalfWidth(length) == (BitLen(Size(length) - 1) + 1) \div 2

\* mask + 1: the numbers half a block can hold.
Half(length) == Pow2[HalfWidth(length)]

\* How many codes there are from minLen characters up to, not including, length.
CodesBelow(minLen, length) ==
    LET below[l \in Nat] == IF l <= minLen THEN 0 ELSE below[l - 1] + Size(l - 1)
    IN  below[length]

Capacity(minLen) == CodesBelow(minLen, MaxLen + 1)

Clamp(minLen) == IF minLen < 1 THEN 1 ELSE IF minLen > MaxLen THEN MaxLen ELSE minLen

-----------------------------------------------------------------------------
(* The permutation of one tier.                                            *)

\* x ^ y on the lowest w bits.
Xors[w \in Nat] ==
    [x \in Nat |-> [y \in Nat |->
        IF w = 0 THEN 0
        ELSE (IF x % 2 = y % 2 THEN 0 ELSE 1) + 2 * Xors[w - 1][x \div 2][y \div 2]]]

Round(key, round, length, v) == Mac(key, round, length, v) % Half(length)

\* One turn of the loop of feistel, on the two halves of a block.
Turn(key, length, round, lr) ==
    <<lr[2], Xors[HalfWidth(length)][lr[1]][Round(key, round, length, lr[2])]>>

Feistel(key, length, x) ==
    LET lr[n \in 0 .. Rounds] ==
            IF n = 0 THEN <<x \div Half(length), x % Half(length)>>
            ELSE Turn(key, length, n - 1, lr[n - 1])
    IN  lr[Rounds][1] * Half(length) + lr[Rounds][2]

\* What the loop of permute has made of x after each of its turns.
Orbit(key, length, x) ==
    LET at[n \in Nat] == IF n = 0 THEN x ELSE Feistel(key, length, at[n - 1])
    IN  at

\* One round trip folded into the tier instead of walking.
PermuteFolding(key, length, x) == Feistel(key, length, x) % Size(length)

\* Cycle walking: the first turn that falls inside the tier.  A block has Half * Half
\* values, so it does not take more turns than that.
Permute(key, length, x) ==
    LET orbit == Orbit(key, length, x)
        turns == CHOOSE n \in 1 .. Half(length) * Half(length) :
                    /\ orbit[n] < Size(length)
                    /\ \A m \in 1 .. n - 1 : orbit[m] >= Size(length)
    IN  orbit[turns]

\* v in base Base, from the last digit to the first.
Digits[l \in Nat] ==
    [v \in Nat |-> IF l = 0 THEN <<>> ELSE Append(Digits[l - 1][v \div Base], v % Base)]

Encode(v, length) == Digits[length][v]

\* Numbers taken as counting from zero, and a walk that starts a tier too late.
CodeFromZero(key, minLen, seq) ==
    LET fits == {l \in minLen .. MaxLen : seq < CodesBelow(minLen, l + 1)}
        tier == Min(fits)
    IN  IF fits = {} THEN NoCode
        ELSE Encode(Permute(key, tier, seq - CodesBelow(minLen, tier)), tier)

CodeLateTier(key, minLen, seq) ==
    LET first == IF minLen < MaxLen THEN minLen + 1 ELSE minLen
        fits == {l \in first .. MaxLen : seq - 1 < CodesBelow(first, l + 1)}
        tier == Min(fits)
    IN  IF fits = {} THEN NoCode
        ELSE Encode(Permute(key, tier, seq - 1 - CodesBelow(first, tier)), tier)

\* Code: walk the tiers from minLen until seq falls inside one.
Code(key, minLen, seq) ==
    LET idx == seq - 1
        fits == {l \in minLen .. MaxLen : idx < CodesBelow(minLen, l + 1)}
        tier == Min(fits)
    IN  IF fits = {} THEN NoCode
        ELSE Encode(Permute(key, tier, idx - CodesBelow(minLen, tier)), tier)

\* Valid: the shape of a code, whatever the minimum length is now.
ValidCodes == UNION {[1 .. l -> 0 .. (Base - 1)] : l \in 1 .. MaxLen}
=============================================================================
