-------------------------- MODULE MCCodeAllocation --------------------------
(* Instances of CodeAllocation: three letters, codes of at most two of them,   *)
(* so that both tiers need cycle walking (3 codes in a block of 4, 9 in 16).   *)
EXTENDS CodeAllocation

\* A keyed function with no structure the proofs of slug.go rely on.
MCMac(key, round, length, v) ==
    (key + 1) * (5 * round + 3 * length + 1) + (key + round + 2) * v * (v + length)
        + (key \div (round + 1)) * (v + 1)

MCKeys == 0 .. 2
OneCharRoute == {<<1>>}

\* Both are clamped: to one character and to two.
MCSettings == [key : MCKeys, minLen : {0, 3}]

Raised == {p \in MCSettings \X MCSettings : p[1].key = p[2].key /\ p[1].minLen < p[2].minLen}
Lowered == {p \in MCSettings \X MCSettings : p[1].key = p[2].key /\ p[1].minLen > p[2].minLen}
=============================================================================
