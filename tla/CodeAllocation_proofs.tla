----------------------- MODULE CodeAllocation_proofs -----------------------
(***************************************************************************)
(* Share codes for any alphabet, any longest code and any round function:  *)
(* the permutation of a tier, the ladder of tiers and what the counter     *)
(* makes of them.  Induction over data goes through sets of numbers, as    *)
(* the least element of the set of counterexamples.                        *)
(***************************************************************************)
EXTENDS CodeAllocation, FunctionTheorems, FiniteSetTheorems, SequenceTheorems,
        WellFoundedInduction, TLAPS

-----------------------------------------------------------------------------
(* Numbers, and functions defined by recursion on them.                    *)

\* A set of numbers that is not empty has a least one.
LEMMA LeastNatural ==
    ASSUME NEW S, S \subseteq Nat, S # {}
    PROVE  \E x \in S : \A y \in S : x <= y
<1> DEFINE R == OpToRel(<, Nat)
<1>1. IsWellFoundedOn(R, Nat)
  BY NatLessThanWellFounded
<1>2. PICK x \in S : \A y \in S : ~(<<y, x>> \in R)
  BY <1>1, WFMin
<1>3. \A y \in S : ~(y < x)
  BY <1>2 DEF OpToRel
<1> QED BY <1>3

\* A set of numbers with zero and every successor has them all.
LEMMA InductiveSet ==
    ASSUME NEW S, 0 \in S, \A n \in Nat : n \in S => n + 1 \in S
    PROVE  Nat \subseteq S
<1> SUFFICES ASSUME Nat \ S # {} PROVE FALSE
  OBVIOUS
<1>1. PICK x \in Nat \ S : \A y \in Nat \ S : x <= y
  BY LeastNatural
<1>2. x # 0 /\ x - 1 \in Nat /\ ~(x <= x - 1) /\ x = (x - 1) + 1
  BY <1>1
<1> QED BY <1>1, <1>2

\* f lists what the step F makes of the start a, in S.
Iterates(f, S, a, F) ==
    /\ f \in [Nat -> S]
    /\ f[0] = a
    /\ \A n \in Nat : f[n + 1] = F[<<n, f[n]>>]

\* Every step from every start has such a list.
LEMMA PrimitiveRecursion ==
    ASSUME NEW S, NEW a \in S, NEW F \in [Nat \X S -> S]
    PROVE  \E f : Iterates(f, S, a, F)
<1> DEFINE Starts(n) == {f \in [0 .. n -> S] :
                            f[0] = a /\ \A m \in 0 .. n - 1 : f[m + 1] = F[<<m, f[m]>>]}
           some(n) == CHOOSE f : f \in Starts(n)
           whole == [n \in Nat |-> some(n)[n]]
<1>1. \A n \in Nat : Starts(n) # {}
  <2> DEFINE G == {n \in Nat : Starts(n) # {}}
  <2>1. 0 \in G
    <3>1. [m \in 0 .. 0 |-> a] \in Starts(0)
      OBVIOUS
    <3> QED BY <3>1
  <2>2. ASSUME NEW n \in Nat, n \in G
        PROVE  n + 1 \in G
    <3>1. PICK f \in Starts(n) : TRUE
      BY <2>2
    <3> DEFINE g == [m \in 0 .. n + 1 |-> IF m = n + 1 THEN F[<<n, f[n]>>] ELSE f[m]]
    <3>2. f \in [0 .. n -> S] /\ f[0] = a /\ \A m \in 0 .. n - 1 : f[m + 1] = F[<<m, f[m]>>]
      BY <3>1
    <3>3. f[n] \in S /\ F[<<n, f[n]>>] \in S
      BY <3>2
    <3>4. g \in [0 .. n + 1 -> S] /\ g[0] = a
      BY <3>2, <3>3
    <3>5. ASSUME NEW m \in 0 .. (n + 1) - 1
          PROVE  g[m + 1] = F[<<m, g[m]>>]
      <4>1. CASE m = n
        <5>1. g[n + 1] = F[<<n, f[n]>>] /\ g[n] = f[n]
          OBVIOUS
        <5> QED BY <4>1, <5>1
      <4>2. CASE m # n
        <5>1. m \in 0 .. n - 1 /\ m + 1 \in 0 .. n /\ m + 1 # n + 1 /\ m # n + 1
          BY <4>2
        <5>2. g[m + 1] = f[m + 1] /\ g[m] = f[m]
          BY <5>1
        <5> QED BY <5>1, <5>2, <3>2
      <4> QED BY <4>1, <4>2
    <3>6. g \in Starts(n + 1)
      BY <3>4, <3>5
    <3> HIDE DEF g, Starts
    <3> QED BY <3>6
  <2> HIDE DEF G
  <2>3. Nat \subseteq G
    BY <2>1, <2>2, InductiveSet
  <2> QED BY <2>3 DEF G
<1>2. \A n \in Nat : some(n) \in Starts(n)
  BY <1>1
<1> HIDE DEF some
<1>3. \A m, n, k \in Nat : m <= n /\ m <= k => some(n)[m] = some(k)[m]
  <2> DEFINE G == {m \in Nat : \A n, k \in Nat : m <= n /\ m <= k => some(n)[m] = some(k)[m]}
  <2>1. 0 \in G
    BY <1>2
  <2>2. ASSUME NEW m \in Nat, m \in G
        PROVE  m + 1 \in G
    <3> SUFFICES ASSUME NEW n \in Nat, NEW k \in Nat, m + 1 <= n, m + 1 <= k
                 PROVE  some(n)[m + 1] = some(k)[m + 1]
      OBVIOUS
    <3>1. some(n)[m] = some(k)[m]
      BY <2>2
    <3>2. some(n) \in Starts(n) /\ some(k) \in Starts(k)
      BY <1>2
    <3>3. some(n)[m + 1] = F[<<m, some(n)[m]>>]
      BY <3>2
    <3>4. some(k)[m + 1] = F[<<m, some(k)[m]>>]
      BY <3>2
    <3> QED BY <3>1, <3>3, <3>4
  <2> HIDE DEF G
  <2>3. Nat \subseteq G
    BY <2>1, <2>2, InductiveSet
  <2> QED BY <2>3 DEF G
<1>4. ASSUME NEW n \in Nat
      PROVE  whole[n] \in S /\ whole[n + 1] = F[<<n, whole[n]>>]
  <2>1. some(n) \in [0 .. n -> S] /\ some(n + 1) \in Starts(n + 1)
    BY <1>2
  <2>2. some(n + 1)[n + 1] = F[<<n, some(n + 1)[n]>>]
    BY <2>1
  <2>3. some(n + 1)[n] = some(n)[n]
    BY <1>3
  <2> QED BY <2>1, <2>2, <2>3
<1>5. whole[0] = a
  BY <1>2
<1>6. whole \in [Nat -> S]
  BY <1>4
<1> HIDE DEF whole
<1>7. Iterates(whole, S, a, F)
  BY <1>4, <1>5, <1>6 DEF Iterates
<1> QED BY <1>7

\* Division leaves a remainder below the divisor, and only one pair does.
LEMMA Division ==
    ASSUME NEW v \in Nat, NEW b \in Nat, b >= 1
    PROVE  /\ v \div b \in Nat /\ v % b \in 0 .. b - 1
           /\ v = b * (v \div b) + (v % b)
OBVIOUS

LEMMA DivisionIsUnique ==
    ASSUME NEW b \in Nat, b >= 1, NEW q \in Nat, NEW r \in 0 .. b - 1
    PROVE  /\ (b * q + r) \div b = q
           /\ (b * q + r) % b = r
<1> DEFINE v == b * q + r
           q2 == v \div b
           r2 == v % b
<1>1. v \in Nat
  OBVIOUS
<1> HIDE DEF v
<1>2. q2 \in Nat /\ r2 \in 0 .. b - 1 /\ v = b * q2 + r2
  BY <1>1, Division
<1> HIDE DEF q2, r2
<1>3. b * q + r = b * q2 + r2
  BY <1>2 DEF v
<1>4. ASSUME q2 < q PROVE FALSE
  <2>1. b * (q2 + 1) <= b * q
    BY <1>2, <1>4
  <2>2. b * (q2 + 1) = b * q2 + b
    BY <1>2
  <2> QED BY <2>1, <2>2, <1>2, <1>3
<1>5. ASSUME q < q2 PROVE FALSE
  <2>1. b * (q + 1) <= b * q2
    BY <1>2, <1>5
  <2>2. b * (q + 1) = b * q + b
    BY <1>2
  <2> QED BY <2>1, <2>2, <1>2, <1>3
<1>6. q2 = q
  BY <1>2, <1>4, <1>5
<1>7. r2 = r
  BY <1>2, <1>3, <1>6
<1> QED BY <1>6, <1>7 DEF q2, r2, v

\* A product below b * m has a quotient below m.
LEMMA QuotientBound ==
    ASSUME NEW b \in Nat, b >= 1, NEW m \in Nat, NEW v \in Nat, v < b * m
    PROVE  v \div b < m
<1> DEFINE q == v \div b
<1>1. q \in Nat /\ v >= b * q
  BY Division
<1> HIDE DEF q
<1>2. ASSUME q >= m PROVE FALSE
  <2>1. b * q >= b * m
    BY <1>1, <1>2
  <2> QED BY <2>1, <1>1
<1>3. q < m
  BY <1>1, <1>2
<1> QED BY <1>3 DEF q

-----------------------------------------------------------------------------
(* Tiers.                                                                  *)

\* The table of init.
LEMMA SizesTable ==
    /\ Sizes \in [Nat -> Nat]
    /\ Sizes[0] = 1
    /\ \A l \in Nat : Sizes[l + 1] = Base * Sizes[l]
<1> DEFINE F == [p \in Nat \X Nat |-> Base * p[2]]
<1>1. F \in [Nat \X Nat -> Nat]
  BY CodeAssumption
<1>2. PICK f \in [Nat -> Nat] : f[0] = 1 /\ \A n \in Nat : f[n + 1] = F[<<n, f[n]>>]
  <2> HIDE DEF F
  <2>1. 1 \in Nat
    OBVIOUS
  <2>2. \E f : Iterates(f, Nat, 1, F)
    BY <1>1, <2>1, PrimitiveRecursion
  <2> QED BY <2>2 DEF Iterates
<1>3. ASSUME NEW n \in Nat
      PROVE  f[n] = IF n = 0 THEN 1 ELSE Base * f[n - 1]
  <2>1. CASE n = 0
    BY <1>2, <2>1
  <2>2. CASE n # 0
    <3> HIDE DEF F
    <3>1. n - 1 \in Nat /\ (n - 1) + 1 = n
      BY <2>2
    <3>2. f[n] = F[<<n - 1, f[n - 1]>>] /\ f[n - 1] \in Nat
      BY <1>2, <3>1
    <3>3. F[<<n - 1, f[n - 1]>>] = Base * f[n - 1]
      BY <3>1, <3>2 DEF F
    <3> QED BY <3>2, <3>3, <2>2
  <2> QED BY <2>1, <2>2
<1>4. f = [n \in Nat |-> IF n = 0 THEN 1 ELSE Base * f[n - 1]]
  BY <1>2, <1>3
<1>5. Sizes = [n \in Nat |-> IF n = 0 THEN 1 ELSE Base * Sizes[n - 1]]
  <2> HIDE DEF F
  <2> QED BY <1>4 DEF Sizes
<1>6. Sizes[0] = 1 /\ \A n \in Nat : Sizes[n + 1] = Base * Sizes[n]
  <2>1. ASSUME NEW n \in Nat PROVE Sizes[n + 1] = Base * Sizes[n]
    <3>1. n + 1 \in Nat /\ n + 1 # 0 /\ (n + 1) - 1 = n
      OBVIOUS
    <3> QED BY <1>5, <3>1
  <2> QED BY <1>5, <2>1
<1>7. \A n \in Nat : Sizes[n] \in Nat
  <2> DEFINE G == {n \in Nat : Sizes[n] \in Nat}
  <2>1. 0 \in G /\ \A n \in Nat : n \in G => n + 1 \in G
    BY <1>6, CodeAssumption
  <2> HIDE DEF G
  <2>2. Nat \subseteq G
    BY <2>1, InductiveSet
  <2> QED BY <2>2 DEF G
<1> QED BY <1>5, <1>6, <1>7

\* Every tier has codes, and more than one unless it has no letters.
LEMMA SizeBounds ==
    /\ \A l \in Nat : Size(l) \in Nat \ {0}
    /\ \A l \in Nat \ {0} : Size(l) >= 2
<1> DEFINE G == {n \in Nat : Sizes[n] >= 1}
<1>1. 0 \in G
  BY SizesTable
<1>2. ASSUME NEW n \in Nat, n \in G
      PROVE  n + 1 \in G /\ Sizes[n + 1] >= 2
  <2>1. Sizes[n] \in Nat /\ Sizes[n] >= 1 /\ Sizes[n + 1] = Base * Sizes[n]
    BY <1>2, SizesTable
  <2>2. Base * Sizes[n] >= 2
    BY <2>1, CodeAssumption
  <2>3. Sizes[n + 1] >= 2 /\ Sizes[n + 1] >= 1
    BY <2>1, <2>2, SizesTable
  <2> QED BY <2>3
<1>3. Nat \subseteq G
  <2> HIDE DEF G
  <2> QED BY <1>1, <1>2, InductiveSet
<1>4. ASSUME NEW l \in Nat \ {0} PROVE Size(l) >= 2
  <2>1. l - 1 \in Nat /\ (l - 1) + 1 = l
    OBVIOUS
  <2> QED BY <2>1, <1>2, <1>3 DEF Size
<1> QED BY <1>3, <1>4, SizesTable DEF Size

\* Powers of two.
LEMMA Pow2Table ==
    /\ Pow2 \in [Nat -> Nat]
    /\ Pow2[0] = 1
    /\ \A w \in Nat : Pow2[w + 1] = 2 * Pow2[w]
    /\ \A w \in Nat : Pow2[w] > w
<1> DEFINE F == [p \in Nat \X Nat |-> 2 * p[2]]
<1>1. F \in [Nat \X Nat -> Nat]
  OBVIOUS
<1>2. PICK f \in [Nat -> Nat] : f[0] = 1 /\ \A n \in Nat : f[n + 1] = F[<<n, f[n]>>]
  <2> HIDE DEF F
  <2>1. 1 \in Nat
    OBVIOUS
  <2>2. \E f : Iterates(f, Nat, 1, F)
    BY <1>1, <2>1, PrimitiveRecursion
  <2> QED BY <2>2 DEF Iterates
<1>3. ASSUME NEW n \in Nat
      PROVE  f[n] = IF n = 0 THEN 1 ELSE 2 * f[n - 1]
  <2>1. CASE n = 0
    BY <1>2, <2>1
  <2>2. CASE n # 0
    <3> HIDE DEF F
    <3>1. n - 1 \in Nat /\ (n - 1) + 1 = n
      BY <2>2
    <3>2. f[n] = F[<<n - 1, f[n - 1]>>] /\ f[n - 1] \in Nat
      BY <1>2, <3>1
    <3>3. F[<<n - 1, f[n - 1]>>] = 2 * f[n - 1]
      BY <3>1, <3>2 DEF F
    <3> QED BY <3>2, <3>3, <2>2
  <2> QED BY <2>1, <2>2
<1>4. f = [n \in Nat |-> IF n = 0 THEN 1 ELSE 2 * f[n - 1]]
  BY <1>2, <1>3
<1>5. Pow2 = [n \in Nat |-> IF n = 0 THEN 1 ELSE 2 * Pow2[n - 1]]
  <2> HIDE DEF F
  <2> QED BY <1>4 DEF Pow2
<1>6. Pow2[0] = 1 /\ \A n \in Nat : Pow2[n + 1] = 2 * Pow2[n]
  <2>1. ASSUME NEW n \in Nat PROVE Pow2[n + 1] = 2 * Pow2[n]
    <3>1. n + 1 \in Nat /\ n + 1 # 0 /\ (n + 1) - 1 = n
      OBVIOUS
    <3> QED BY <1>5, <3>1
  <2> QED BY <1>5, <2>1
<1>7. \A n \in Nat : Pow2[n] \in Nat /\ Pow2[n] > n
  <2> DEFINE G == {n \in Nat : Pow2[n] \in Nat /\ Pow2[n] > n}
  <2>1. 0 \in G /\ \A n \in Nat : n \in G => n + 1 \in G
    BY <1>6
  <2> HIDE DEF G
  <2>2. Nat \subseteq G
    BY <2>1, InductiveSet
  <2> QED BY <2>2 DEF G
<1> QED BY <1>5, <1>6, <1>7

LEMMA Pow2Grows ==
    ASSUME NEW u \in Nat, NEW w \in Nat, u <= w
    PROVE  Pow2[u] <= Pow2[w]
<1> DEFINE G == {n \in Nat : Pow2[u] <= Pow2[u + n]}
<1>1. 0 \in G
  BY Pow2Table
<1>2. ASSUME NEW n \in Nat, n \in G PROVE n + 1 \in G
  <2>1. u + n \in Nat /\ u + (n + 1) = (u + n) + 1
    OBVIOUS
  <2>2. Pow2[u + (n + 1)] = 2 * Pow2[u + n] /\ Pow2[u + n] \in Nat /\ Pow2[u] \in Nat
    BY <2>1, Pow2Table
  <2> QED BY <1>2, <2>2
<1>3. Nat \subseteq G
  <2> HIDE DEF G
  <2> QED BY <1>1, <1>2, InductiveSet
<1>4. w - u \in Nat /\ u + (w - u) = w
  OBVIOUS
<1> QED BY <1>3, <1>4

LEMMA Pow2Square ==
    ASSUME NEW w \in Nat
    PROVE  Pow2[w + w] = Pow2[w] * Pow2[w]
<1> DEFINE G == {n \in Nat : Pow2[n + n] = Pow2[n] * Pow2[n]}
<1>1. 0 \in G
  BY Pow2Table
<1>2. ASSUME NEW n \in Nat, n \in G PROVE n + 1 \in G
  <2>1. n + n \in Nat /\ (n + n) + 1 \in Nat /\ (n + 1) + (n + 1) = ((n + n) + 1) + 1
    OBVIOUS
  <2>2. Pow2[((n + n) + 1) + 1] = 2 * (2 * Pow2[n + n])
    BY <2>1, Pow2Table
  <2>3. Pow2[n + 1] = 2 * Pow2[n] /\ Pow2[n] \in Nat
    BY Pow2Table
  <2>4. 2 * (2 * (Pow2[n] * Pow2[n])) = (2 * Pow2[n]) * (2 * Pow2[n])
    BY <2>3
  <2> QED BY <1>2, <2>1, <2>2, <2>3, <2>4
<1>3. Nat \subseteq G
  <2> HIDE DEF G
  <2> QED BY <1>1, <1>2, InductiveSet
<1> QED BY <1>3

\* bits.Len64.
LEMMA BitLenCovers ==
    ASSUME NEW n \in Nat
    PROVE  BitLen(n) \in Nat /\ Pow2[BitLen(n)] > n
<1> DEFINE Wide == {w \in Nat : Pow2[w] > n}
<1>1. n \in Wide
  BY Pow2Table
<1>2. PICK w \in Wide : \A u \in Wide : w <= u
  <2> HIDE DEF Wide
  <2>1. Wide \subseteq Nat
    BY DEF Wide
  <2> QED BY <1>1, <2>1, LeastNatural
<1>3. w \in 0 .. n /\ Pow2[w] > n /\ \A u \in 0 .. w - 1 : Pow2[u] <= n
  <2>1. w <= n
    BY <1>1, <1>2
  <2>2. ASSUME NEW u \in 0 .. w - 1 PROVE Pow2[u] <= n
    <3>1. u \notin Wide
      BY <1>2
    <3> QED BY <3>1, Pow2Table
  <2> QED BY <2>1, <2>2
<1>4. \E b \in 0 .. n : Pow2[b] > n /\ \A u \in 0 .. b - 1 : Pow2[u] <= n
  BY <1>3
<1>5. BitLen(n) \in 0 .. n /\ Pow2[BitLen(n)] > n
  BY <1>4 DEF BitLen
<1> QED BY <1>5

\* "The smallest even bit width w with 2^w >= n, which is what makes the Feistel
\* network a permutation of a superset of the tier" (slug.go:59-61).
LEMMA BlockCoversTier ==
    ASSUME NEW length \in Nat
    PROVE  /\ HalfWidth(length) \in Nat
           /\ Half(length) \in Nat /\ Half(length) >= 1
           /\ Half(length) * Half(length) >= Size(length)
<1> DEFINE n == Size(length) - 1
           b == BitLen(n)
           h == HalfWidth(length)
<1>1. n \in Nat /\ Size(length) = n + 1
  BY SizeBounds
<1> HIDE DEF n
<1>2. b \in Nat /\ Pow2[b] > n
  BY <1>1, BitLenCovers
<1>3. h = (b + 1) \div 2
  BY DEF HalfWidth, n
<1> HIDE DEF b, h
<1>4. h \in Nat /\ h + h >= b
  BY <1>2, <1>3
<1>5. Pow2[h + h] >= Pow2[b]
  BY <1>2, <1>4, Pow2Grows
<1>6. Pow2[h + h] = Pow2[h] * Pow2[h]
  BY <1>4, Pow2Square
<1>7. Pow2[h] \in Nat /\ Pow2[h] >= 1 /\ Pow2[b] \in Nat
  BY <1>2, <1>4, Pow2Table
<1>8. Pow2[h] * Pow2[h] \in Nat
  BY <1>7
<1> QED BY <1>1, <1>2, <1>4, <1>5, <1>6, <1>7, <1>8 DEF h, Half

-----------------------------------------------------------------------------
(* The permutation of one tier.                                            *)

\* The lowest bit of x ^ y.
LowestBit(x, y) == IF x % 2 = y % 2 THEN 0 ELSE 1

\* Exclusive or, bit by bit.
LEMMA XorsTable ==
    /\ \A x, y \in Nat : Xors[0][x][y] = 0
    /\ \A w, x, y \in Nat :
         Xors[w + 1][x][y] = LowestBit(x, y) + 2 * Xors[w][x \div 2][y \div 2]
    /\ \A w, x, y \in Nat : Xors[w][x][y] \in Nat
<1> DEFINE S == [Nat -> [Nat -> Nat]]
           a == [x \in Nat |-> [y \in Nat |-> 0]]
           Wider(g) == [x \in Nat |-> [y \in Nat |-> LowestBit(x, y) + 2 * g[x \div 2][y \div 2]]]
           F == [p \in Nat \X S |-> Wider(p[2])]
           Body(g) == [w \in Nat |-> [x \in Nat |-> [y \in Nat |->
                          IF w = 0 THEN 0
                          ELSE LowestBit(x, y) + 2 * g[w - 1][x \div 2][y \div 2]]]]
<1>1. a \in S
  OBVIOUS
<1>2. ASSUME NEW g \in S PROVE Wider(g) \in S
  <2>1. ASSUME NEW x \in Nat, NEW y \in Nat
        PROVE  LowestBit(x, y) + 2 * g[x \div 2][y \div 2] \in Nat
    <3>1. x \div 2 \in Nat /\ y \div 2 \in Nat
      OBVIOUS
    <3>2. g[x \div 2][y \div 2] \in Nat
      BY <3>1
    <3>3. LowestBit(x, y) \in Nat
      BY DEF LowestBit
    <3>4. \A m, n \in Nat : m + 2 * n \in Nat
      OBVIOUS
    <3> QED BY <3>2, <3>3, <3>4, Zenon
  <2> QED BY <2>1
<1>3. F \in [Nat \X S -> S]
  <2> HIDE DEF S, Wider
  <2> QED BY <1>2
<1>4. PICK f : Iterates(f, S, a, F)
  <2> HIDE DEF S, a, F
  <2> QED BY <1>1, <1>3, PrimitiveRecursion
<1>5. f[0] = a /\ f \in [Nat -> S]
  BY <1>4 DEF Iterates
<1>6. ASSUME NEW n \in Nat PROVE f[n + 1] = Wider(f[n])
  <2> HIDE DEF S, Wider, a
  <2>1. f[n + 1] = F[<<n, f[n]>>] /\ f[n] \in S
    BY <1>4 DEF Iterates
  <2> QED BY <2>1
<1>7. ASSUME NEW w \in Nat
      PROVE  f[w] = [x \in Nat |-> [y \in Nat |->
                        IF w = 0 THEN 0
                        ELSE LowestBit(x, y) + 2 * f[w - 1][x \div 2][y \div 2]]]
  <2>1. CASE w = 0
    BY <2>1, <1>5
  <2>2. CASE w # 0
    <3>1. w - 1 \in Nat /\ (w - 1) + 1 = w
      BY <2>2
    <3>2. f[w] = Wider(f[w - 1])
      BY <3>1, <1>6
    <3> QED BY <3>2, <2>2
  <2> QED BY <2>1, <2>2
<1>8. f = Body(f)
  <2> HIDE DEF S, a, F
  <2> QED BY <1>5, <1>7
<1>9. Xors = Body(Xors)
  <2> HIDE DEF S, a, F
  <2> QED BY <1>8 DEF Xors, LowestBit
<1> HIDE DEF S, a, F
<1>10. \A x, y \in Nat : Xors[0][x][y] = 0
  BY <1>9
<1>11. ASSUME NEW w \in Nat, NEW x \in Nat, NEW y \in Nat
       PROVE  Xors[w + 1][x][y] = LowestBit(x, y) + 2 * Xors[w][x \div 2][y \div 2]
  <2>1. w + 1 \in Nat /\ w + 1 # 0 /\ (w + 1) - 1 = w
    OBVIOUS
  <2> QED BY <1>9, <2>1
<1> HIDE DEF Body
<1>12. \A w, x, y \in Nat : Xors[w][x][y] \in Nat
  <2> DEFINE G == {w \in Nat : \A x, y \in Nat : Xors[w][x][y] \in Nat}
  <2>1. 0 \in G
    BY <1>10
  <2>2. ASSUME NEW w \in Nat, w \in G PROVE w + 1 \in G
    <3>1. ASSUME NEW x \in Nat, NEW y \in Nat PROVE Xors[w + 1][x][y] \in Nat
      <4>1. x \div 2 \in Nat /\ y \div 2 \in Nat
        OBVIOUS
      <4>2. Xors[w][x \div 2][y \div 2] \in Nat
        BY <2>2, <4>1
      <4>3. LowestBit(x, y) \in Nat
        BY DEF LowestBit
      <4>4. \A m, n \in Nat : m + 2 * n \in Nat
        OBVIOUS
      <4>5. Xors[w + 1][x][y] = LowestBit(x, y) + 2 * Xors[w][x \div 2][y \div 2]
        BY <1>11
      <4> QED BY <4>2, <4>3, <4>4, <4>5, Zenon
    <3> QED BY <3>1
  <2> HIDE DEF G
  <2>3. Nat \subseteq G
    BY <2>1, <2>2, InductiveSet
  <2> QED BY <2>3 DEF G
<1> QED BY <1>10, <1>11, <1>12

\* x ^ y keeps to its width.
LEMMA XorStaysNarrow ==
    ASSUME NEW w \in Nat, NEW x \in Nat, NEW y \in Nat
    PROVE  Xors[w][x][y] \in 0 .. Pow2[w] - 1
<1> DEFINE G == {n \in Nat : \A u, v \in Nat : Xors[n][u][v] < Pow2[n]}
<1>1. 0 \in G
  BY XorsTable, Pow2Table
<1>2. ASSUME NEW n \in Nat, n \in G PROVE n + 1 \in G
  <2>1. ASSUME NEW u \in Nat, NEW v \in Nat PROVE Xors[n + 1][u][v] < Pow2[n + 1]
    <3>1. u \div 2 \in Nat /\ v \div 2 \in Nat
      OBVIOUS
    <3>2. Xors[n][u \div 2][v \div 2] \in Nat /\ Xors[n][u \div 2][v \div 2] < Pow2[n]
      BY <1>2, <3>1, XorsTable
    <3>3. Pow2[n] \in Nat /\ Pow2[n + 1] = 2 * Pow2[n]
      BY Pow2Table
    <3>4. Xors[n + 1][u][v] = LowestBit(u, v) + 2 * Xors[n][u \div 2][v \div 2]
      BY XorsTable, Zenon
    <3>5. LowestBit(u, v) \in 0 .. 1
      BY DEF LowestBit
    <3> QED BY <3>2, <3>3, <3>4, <3>5
  <2> QED BY <2>1
<1>3. Nat \subseteq G
  <2> HIDE DEF G
  <2> QED BY <1>1, <1>2, InductiveSet
<1>4. Xors[w][x][y] < Pow2[w]
  BY <1>3
<1>5. Xors[w][x][y] \in Nat /\ Pow2[w] \in Nat
  BY XorsTable, Pow2Table
<1> QED BY <1>4, <1>5

\* x ^ y and y tell x.
LEMMA XorIsInjective ==
    ASSUME NEW w \in Nat, NEW y \in Nat,
           NEW x1 \in 0 .. Pow2[w] - 1, NEW x2 \in 0 .. Pow2[w] - 1,
           Xors[w][x1][y] = Xors[w][x2][y]
    PROVE  x1 = x2
<1> DEFINE Tells(n) ==
               \A v \in Nat : \A u1, u2 \in 0 .. Pow2[n] - 1 :
                   Xors[n][u1][v] = Xors[n][u2][v] => u1 = u2
           G == {n \in Nat : Tells(n)}
<1>1. 0 \in G
  BY Pow2Table
<1>2. ASSUME NEW n \in Nat, n \in G PROVE n + 1 \in G
  <2>1. ASSUME NEW v \in Nat,
               NEW u1 \in 0 .. Pow2[n + 1] - 1, NEW u2 \in 0 .. Pow2[n + 1] - 1,
               Xors[n + 1][u1][v] = Xors[n + 1][u2][v]
        PROVE  u1 = u2
    <3> DEFINE h1 == u1 \div 2
               h2 == u2 \div 2
               z == v \div 2
    <3>1. Pow2[n] \in Nat /\ Pow2[n + 1] = 2 * Pow2[n]
      BY Pow2Table
    <3>2. /\ u1 \in Nat /\ u1 < 2 * Pow2[n]
          /\ u2 \in Nat /\ u2 < 2 * Pow2[n]
      BY <3>1
    <3>3. h1 \in 0 .. Pow2[n] - 1 /\ h2 \in 0 .. Pow2[n] - 1 /\ z \in Nat
      BY <3>1, <3>2
    <3>4. u1 = 2 * h1 + (u1 % 2) /\ u2 = 2 * h2 + (u2 % 2)
      BY <3>2
    <3>5. \A u \in Nat : Xors[n + 1][u][v] = LowestBit(u, v) + 2 * Xors[n][u \div 2][z]
      BY XorsTable, Zenon
    <3>6. /\ Xors[n + 1][u1][v] = LowestBit(u1, v) + 2 * Xors[n][h1][z]
          /\ Xors[n + 1][u2][v] = LowestBit(u2, v) + 2 * Xors[n][h2][z]
      BY <3>2, <3>5
    <3> HIDE DEF h1, h2, z
    <3>7. Xors[n][h1][z] \in Nat /\ Xors[n][h2][z] \in Nat
      <4>1. h1 \in Nat /\ h2 \in Nat /\ z \in Nat
        BY <3>3
      <4> QED BY <4>1, XorsTable, Zenon
    <3>8. LowestBit(u1, v) \in 0 .. 1 /\ LowestBit(u2, v) \in 0 .. 1
      BY DEF LowestBit
    <3>9. LowestBit(u1, v) = LowestBit(u2, v) /\ Xors[n][h1][z] = Xors[n][h2][z]
      <4>1. PICK b1 \in 0 .. 1, b2 \in 0 .. 1, m1 \in Nat, m2 \in Nat :
               /\ b1 = LowestBit(u1, v) /\ b2 = LowestBit(u2, v)
               /\ m1 = Xors[n][h1][z] /\ m2 = Xors[n][h2][z]
        BY <3>7, <3>8, Zenon
      <4>2. b1 + 2 * m1 = b2 + 2 * m2
        BY <2>1, <3>6, <4>1, Zenon
      <4>3. b1 = b2 /\ m1 = m2
        BY <4>2
      <4> QED BY <4>1, <4>3
    <3>10. u1 % 2 = u2 % 2
      <4>1. u1 % 2 \in 0 .. 1 /\ u2 % 2 \in 0 .. 1 /\ v % 2 \in 0 .. 1
        BY <3>2
      <4>2. (u1 % 2 = v % 2) <=> (u2 % 2 = v % 2)
        BY <3>9 DEF LowestBit
      <4> QED BY <4>1, <4>2
    <3>11. h1 = h2
      BY <1>2, <3>3, <3>9
    <3> QED BY <3>4, <3>10, <3>11
  <2> QED BY <2>1
<1>3. Nat \subseteq G
  <2> HIDE DEF G
  <2> QED BY <1>1, <1>2, InductiveSet
<1>4. Tells(w)
  BY <1>3
<1> QED BY <1>4

\* A key whose HMAC is a number wherever a round of a tier asks for it.
Keys(key) ==
    \A round \in 0 .. Rounds - 1, l \in 1 .. MaxLen : \A v \in 0 .. Half(l) - 1 :
        Mac(key, round, l, v) \in Nat

\* The halves of a block.
Halves(length) == (0 .. Half(length) - 1) \X (0 .. Half(length) - 1)

\* The round function answers half a block.
LEMMA RoundIsHalf ==
    ASSUME NEW key, Keys(key), NEW length \in 1 .. MaxLen,
           NEW round \in 0 .. Rounds - 1, NEW v \in 0 .. Half(length) - 1
    PROVE  Round(key, round, length, v) \in 0 .. Half(length) - 1
<1>1. Mac(key, round, length, v) \in Nat
  BY DEF Keys
<1>2. Half(length) \in Nat /\ Half(length) >= 1
  BY BlockCoversTier
<1>3. PICK m \in Nat, h \in Nat : m = Mac(key, round, length, v) /\ h = Half(length) /\ h >= 1
  BY <1>1, <1>2
<1>4. m % h \in 0 .. h - 1
  BY <1>3, Division
<1> QED BY <1>3, <1>4 DEF Round

\* One turn of the network sends pairs of halves to pairs of halves, and no two to one.
LEMMA TurnPermutes ==
    ASSUME NEW key, Keys(key), NEW length \in 1 .. MaxLen, NEW round \in 0 .. Rounds - 1
    PROVE  /\ \A p \in Halves(length) : Turn(key, length, round, p) \in Halves(length)
           /\ \A p, q \in Halves(length) :
                Turn(key, length, round, p) = Turn(key, length, round, q) => p = q
<1> DEFINE V == 0 .. Half(length) - 1
           w == HalfWidth(length)
           R(v) == Round(key, round, length, v)
<1>1. w \in Nat /\ V = 0 .. Pow2[w] - 1 /\ V \subseteq Nat
  BY BlockCoversTier DEF Half
<1>2. \A v \in V : R(v) \in V
  BY RoundIsHalf
<1> HIDE DEF V, w, R
<1>3. \A l, r \in V : Xors[w][l][R(r)] \in V
  <2>1. \A l, r \in V : l \in Nat /\ R(r) \in Nat
    BY <1>1, <1>2
  <2> QED BY <2>1, <1>1, XorStaysNarrow
<1>4. ASSUME NEW p \in V \X V
      PROVE  Turn(key, length, round, p) = <<p[2], Xors[w][p[1]][R(p[2])]>>
  BY DEF Turn, w, R
<1>5. ASSUME NEW p \in V \X V
      PROVE  Turn(key, length, round, p) \in V \X V
  <2>1. p[1] \in V /\ p[2] \in V
    OBVIOUS
  <2> QED BY <2>1, <1>3, <1>4
<1>6. ASSUME NEW p \in V \X V, NEW q \in V \X V,
             Turn(key, length, round, p) = Turn(key, length, round, q)
      PROVE  p = q
  <2>1. p[1] \in V /\ p[2] \in V /\ q[1] \in V /\ q[2] \in V
    OBVIOUS
  <2>2. p[2] = q[2] /\ Xors[w][p[1]][R(p[2])] = Xors[w][q[1]][R(q[2])]
    BY <1>4, <1>6
  <2>3. R(p[2]) \in Nat
    BY <2>1, <1>1, <1>2
  <2>4. p[1] = q[1]
    BY <2>1, <2>2, <2>3, <1>1, XorIsInjective
  <2>5. p = <<p[1], p[2]>> /\ q = <<q[1], q[2]>>
    OBVIOUS
  <2> QED BY <2>2, <2>4, <2>5
<1>7. Halves(length) = V \X V
  BY DEF Halves, V
<1> QED BY <1>5, <1>6, <1>7

\* The pair of halves that the loop of feistel ends with.
Last(key, length, p) ==
    Turn(key, length, 3, Turn(key, length, 2, Turn(key, length, 1, Turn(key, length, 0, p))))

\* The loop of feistel, turn by turn.
LEMMA FeistelLoop ==
    ASSUME NEW key, NEW length, NEW x
    PROVE  LET last == Last(key, length, <<x \div Half(length), x % Half(length)>>)
           IN  Feistel(key, length, x) = last[1] * Half(length) + last[2]
<1> DEFINE t0 == <<x \div Half(length), x % Half(length)>>
           t1 == Turn(key, length, 0, t0)
           t2 == Turn(key, length, 1, t1)
           t3 == Turn(key, length, 2, t2)
           t4 == Turn(key, length, 3, t3)
           g == [n \in 0 .. Rounds |-> IF n = 0 THEN t0 ELSE IF n = 1 THEN t1
                                       ELSE IF n = 2 THEN t2 ELSE IF n = 3 THEN t3 ELSE t4]
           Loops(f) == f = [n \in 0 .. Rounds |->
                               IF n = 0 THEN t0 ELSE Turn(key, length, n - 1, f[n - 1])]
           h == CHOOSE f : Loops(f)
<1>1. Feistel(key, length, x) = h[Rounds][1] * Half(length) + h[Rounds][2]
  BY Zenon DEF Feistel
<1> HIDE DEF t0
<1>2. Loops(g)
  <2>1. ASSUME NEW n \in 0 .. Rounds
        PROVE  g[n] = IF n = 0 THEN t0 ELSE Turn(key, length, n - 1, g[n - 1])
    <3> HIDE DEF t1, t2, t3, t4
    <3>1. g[0] = t0 /\ g[1] = t1 /\ g[2] = t2 /\ g[3] = t3 /\ g[4] = t4
      BY DEF Rounds
    <3>2. n = 0 \/ n = 1 \/ n = 2 \/ n = 3 \/ n = 4
      BY DEF Rounds
    <3> HIDE DEF g
    <3>3. /\ t1 = Turn(key, length, 1 - 1, t0) /\ t2 = Turn(key, length, 2 - 1, t1)
          /\ t3 = Turn(key, length, 3 - 1, t2) /\ t4 = Turn(key, length, 4 - 1, t3)
      BY DEF t1, t2, t3, t4
    <3>4. g[1 - 1] = t0 /\ g[2 - 1] = t1 /\ g[3 - 1] = t2 /\ g[4 - 1] = t3
      BY <3>1
    <3> QED BY <3>1, <3>2, <3>3, <3>4
  <2> HIDE DEF t1, t2, t3, t4
  <2> QED BY <2>1
<1>3. Loops(h)
  <2> HIDE DEF g, Loops
  <2> QED BY <1>2
<1> HIDE DEF h
<1>4. h[0] = t0
  BY <1>3 DEF Rounds
<1>5. \A n \in 1 .. 4 : h[n] = Turn(key, length, n - 1, h[n - 1])
  BY <1>3 DEF Rounds
<1>6. h[1] = t1 /\ h[2] = t2 /\ h[3] = t3 /\ h[4] = t4
  <2>1. 1 \in 1 .. 4 /\ 1 - 1 = 0 /\ 2 \in 1 .. 4 /\ 2 - 1 = 1 /\ 3 \in 1 .. 4 /\ 3 - 1 = 2
        /\ 4 \in 1 .. 4 /\ 4 - 1 = 3
    OBVIOUS
  <2>2. h[1] = t1
    BY <1>4, <1>5, <2>1
  <2>3. h[2] = t2
    BY <1>5, <2>1, <2>2
  <2>4. h[3] = t3
    BY <1>5, <2>1, <2>3
  <2> QED BY <1>5, <2>1, <2>2, <2>3, <2>4
<1>7. h[Rounds] = Last(key, length, t0)
  BY <1>6 DEF Last, Rounds
<1> QED BY <1>1, <1>7 DEF t0

\* The numbers of a block.
Block(length) == 0 .. Half(length) * Half(length) - 1

\* Cutting a block into halves loses nothing, and neither does joining them.
LEMMA HalvesMakeBlocks ==
    ASSUME NEW length \in 1 .. MaxLen
    PROVE  LET H == Half(length)
               Cut(x) == <<x \div H, x % H>>
               Join(p) == p[1] * H + p[2]
           IN  /\ \A x \in Block(length) : Cut(x) \in Halves(length)
               /\ \A x, y \in Block(length) : Cut(x) = Cut(y) => x = y
               /\ \A p \in Halves(length) : Join(p) \in Block(length)
               /\ \A p, q \in Halves(length) : Join(p) = Join(q) => p = q
<1> DEFINE H == Half(length)
<1>1. H \in Nat /\ H >= 1
  BY BlockCoversTier
<1>2. Halves(length) = (0 .. H - 1) \X (0 .. H - 1) /\ Block(length) = 0 .. H * H - 1
  BY DEF Halves, Block
<1> HIDE DEF H
<1>3. ASSUME NEW x \in 0 .. H * H - 1
      PROVE  x \div H \in 0 .. H - 1 /\ x % H \in 0 .. H - 1
  <2>1. x \in Nat /\ x < H * H
    BY <1>1
  <2>2. x \div H \in Nat /\ x % H \in 0 .. H - 1
    BY <1>1, <2>1, Division
  <2>3. x \div H < H
    BY <1>1, <2>1, QuotientBound
  <2> QED BY <1>1, <2>2, <2>3
<1>4. ASSUME NEW x \in 0 .. H * H - 1, NEW y \in 0 .. H * H - 1,
             x \div H = y \div H, x % H = y % H
      PROVE  x = y
  <2>1. x \in Nat /\ y \in Nat
    BY <1>1
  <2>2. x = H * (x \div H) + (x % H) /\ y = H * (y \div H) + (y % H)
    BY <1>1, <2>1, Division
  <2> QED BY <1>4, <2>2
<1>5. ASSUME NEW l \in 0 .. H - 1, NEW r \in 0 .. H - 1
      PROVE  /\ l * H + r \in 0 .. H * H - 1
             /\ (l * H + r) \div H = l /\ (l * H + r) % H = r
  <2>1. l \in Nat /\ r \in Nat /\ l + 1 <= H /\ r < H
    BY <1>1
  <2>2. l * H + r \in Nat /\ l * H = H * l
    BY <1>1, <2>1
  <2>3. (l + 1) * H <= H * H /\ (l + 1) * H = l * H + H
    BY <1>1, <2>1
  <2>4. H * H \in Nat /\ l * H \in Nat
    BY <1>1, <2>1
  <2>5. l * H + r \in 0 .. H * H - 1
    BY <1>1, <2>1, <2>2, <2>3, <2>4
  <2>6. (H * l + r) \div H = l /\ (H * l + r) % H = r
    BY <1>1, <2>1, DivisionIsUnique
  <2> QED BY <2>2, <2>5, <2>6
<1>6. ASSUME NEW p \in (0 .. H - 1) \X (0 .. H - 1), NEW q \in (0 .. H - 1) \X (0 .. H - 1),
             p[1] * H + p[2] = q[1] * H + q[2]
      PROVE  p = q
  <2>1. p[1] = q[1] /\ p[2] = q[2]
    BY <1>5, <1>6
  <2> QED BY <2>1
<1>7. /\ \A x \in Block(length) : <<x \div H, x % H>> \in Halves(length)
      /\ \A x, y \in Block(length) : <<x \div H, x % H>> = <<y \div H, y % H>> => x = y
  BY <1>2, <1>3, <1>4
<1>8. /\ \A p \in Halves(length) : p[1] * H + p[2] \in Block(length)
      /\ \A p, q \in Halves(length) : p[1] * H + p[2] = q[1] * H + q[2] => p = q
  BY <1>2, <1>5, <1>6
<1> QED BY <1>7, <1>8 DEF H

\* The network is a permutation of the block, whatever the round function is.
LEMMA FeistelPermutes ==
    ASSUME NEW key, Keys(key), NEW length \in 1 .. MaxLen
    PROVE  /\ \A x \in Block(length) : Feistel(key, length, x) \in Block(length)
           /\ \A x, y \in Block(length) :
                Feistel(key, length, x) = Feistel(key, length, y) => x = y
<1> DEFINE H == Half(length)
           Cut(x) == <<x \div H, x % H>>
           Join(p) == p[1] * H + p[2]
           T(n, p) == Turn(key, length, n, p)
<1>1. /\ \A x \in Block(length) : Cut(x) \in Halves(length)
      /\ \A x, y \in Block(length) : Cut(x) = Cut(y) => x = y
      /\ \A p \in Halves(length) : Join(p) \in Block(length)
      /\ \A p, q \in Halves(length) : Join(p) = Join(q) => p = q
  BY HalvesMakeBlocks
<1>2. \A n \in 0 .. 3 :
         /\ \A p \in Halves(length) : T(n, p) \in Halves(length)
         /\ \A p, q \in Halves(length) : T(n, p) = T(n, q) => p = q
  BY TurnPermutes DEF Rounds
<1>3. \A x : Feistel(key, length, x) = Join(Last(key, length, Cut(x)))
  BY FeistelLoop
<1> HIDE DEF H, Cut, Join
<1>4. 0 \in 0 .. 3 /\ 1 \in 0 .. 3 /\ 2 \in 0 .. 3 /\ 3 \in 0 .. 3
  OBVIOUS
<1>5. \A p : Last(key, length, p) = T(3, T(2, T(1, T(0, p))))
  BY DEF Last
<1> HIDE DEF T
<1>6. \A p \in Halves(length) : T(3, T(2, T(1, T(0, p)))) \in Halves(length)
  BY <1>2, <1>4
<1>7. \A p, q \in Halves(length) :
         T(3, T(2, T(1, T(0, p)))) = T(3, T(2, T(1, T(0, q)))) => p = q
  BY <1>2, <1>4
<1> QED BY <1>1, <1>3, <1>5, <1>6, <1>7

\* The loop of permute: it goes on as the network takes it, and stays in the block.
LEMMA OrbitSteps ==
    ASSUME NEW key, Keys(key), NEW length \in 1 .. MaxLen, NEW x \in Block(length)
    PROVE  /\ Orbit(key, length, x) \in [Nat -> Block(length)]
           /\ Orbit(key, length, x)[0] = x
           /\ \A n \in Nat :
                Orbit(key, length, x)[n + 1] = Feistel(key, length, Orbit(key, length, x)[n])
<1> DEFINE B == Block(length)
           F == [p \in Nat \X B |-> Feistel(key, length, p[2])]
           Walks(f) == f = [n \in Nat |-> IF n = 0 THEN x ELSE Feistel(key, length, f[n - 1])]
           at == CHOOSE f : Walks(f)
<1>1. Orbit(key, length, x) = at
  BY Zenon DEF Orbit
<1>2. F \in [Nat \X B -> B]
  <2> HIDE DEF B
  <2>1. \A y \in B : Feistel(key, length, y) \in B
    BY FeistelPermutes DEF B
  <2> QED BY <2>1
<1>3. PICK f : Iterates(f, B, x, F)
  <2> HIDE DEF B, F
  <2>1. x \in B
    BY DEF B
  <2> QED BY <1>2, <2>1, PrimitiveRecursion
<1> HIDE DEF B
<1>4. f \in [Nat -> B] /\ f[0] = x
  BY <1>3 DEF Iterates
<1>5. ASSUME NEW n \in Nat PROVE f[n + 1] = Feistel(key, length, f[n])
  <2>1. f[n + 1] = F[<<n, f[n]>>] /\ f[n] \in B
    <3> HIDE DEF F
    <3> QED BY <1>3, <1>4 DEF Iterates
  <2> QED BY <2>1
<1>6. ASSUME NEW n \in Nat
      PROVE  f[n] = IF n = 0 THEN x ELSE Feistel(key, length, f[n - 1])
  <2>1. CASE n = 0
    BY <2>1, <1>4
  <2>2. CASE n # 0
    <3>1. n - 1 \in Nat /\ (n - 1) + 1 = n
      BY <2>2
    <3> QED BY <3>1, <2>2, <1>5
  <2> QED BY <2>1, <2>2
<1>7. Walks(f)
  BY <1>4, <1>6
<1>8. Walks(at)
  <2> HIDE DEF Walks
  <2> QED BY <1>7
<1> HIDE DEF at
<1>9. at[0] = x /\ \A n \in Nat : at[n + 1] = Feistel(key, length, at[n])
  <2>1. ASSUME NEW n \in Nat PROVE at[n + 1] = Feistel(key, length, at[n])
    <3>1. n + 1 \in Nat /\ n + 1 # 0 /\ (n + 1) - 1 = n
      OBVIOUS
    <3> QED BY <1>8, <3>1
  <2> QED BY <1>8, <2>1
<1>10. \A n \in Nat : at[n] \in B
  <2> DEFINE G == {n \in Nat : at[n] \in B}
  <2>1. 0 \in G
    BY <1>9 DEF B
  <2>2. \A n \in Nat : n \in G => n + 1 \in G
    BY <1>9, FeistelPermutes DEF B
  <2> HIDE DEF G
  <2>3. Nat \subseteq G
    BY <2>1, <2>2, InductiveSet
  <2> QED BY <2>3 DEF G
<1>11. at \in [Nat -> B]
  BY <1>8, <1>10
<1> QED BY <1>1, <1>9, <1>11 DEF B

\* Two walks that meet have met all the way back to where the later one began.
LEMMA WalksMeetOnce ==
    ASSUME NEW key, Keys(key), NEW length \in 1 .. MaxLen,
           NEW x \in Block(length), NEW y \in Block(length),
           NEW i \in Nat, NEW k \in Nat,
           Orbit(key, length, x)[i] = Orbit(key, length, y)[i + k]
    PROVE  x = Orbit(key, length, y)[k]
<1> DEFINE at == Orbit(key, length, x)
           bt == Orbit(key, length, y)
           B == Block(length)
           F(z) == Feistel(key, length, z)
           G == {n \in Nat : at[n] = bt[n + k] => x = bt[k]}
<1>1. /\ at \in [Nat -> B] /\ at[0] = x /\ \A n \in Nat : at[n + 1] = F(at[n])
      /\ bt \in [Nat -> B] /\ bt[0] = y /\ \A n \in Nat : bt[n + 1] = F(bt[n])
  <2>1. at \in [Nat -> B] /\ at[0] = x /\ \A n \in Nat : at[n + 1] = F(at[n])
    <3>1. at \in [Nat -> B] /\ at[0] = x
      BY OrbitSteps
    <3>2. ASSUME NEW n \in Nat PROVE at[n + 1] = F(at[n])
      BY OrbitSteps
    <3> QED BY <3>1, <3>2
  <2>2. bt \in [Nat -> B] /\ bt[0] = y /\ \A n \in Nat : bt[n + 1] = F(bt[n])
    <3>1. bt \in [Nat -> B] /\ bt[0] = y
      BY OrbitSteps
    <3>2. ASSUME NEW n \in Nat PROVE bt[n + 1] = F(bt[n])
      BY OrbitSteps
    <3> QED BY <3>1, <3>2
  <2> QED BY <2>1, <2>2
<1>2. \A u, v \in B : F(u) = F(v) => u = v
  BY FeistelPermutes
<1> HIDE DEF at, bt, B, F
<1>3. 0 \in G
  BY <1>1
<1>4. ASSUME NEW n \in Nat, n \in G PROVE n + 1 \in G
  <2>1. n + k \in Nat /\ (n + 1) + k = (n + k) + 1
    OBVIOUS
  <2>2. at[n] \in B /\ bt[n + k] \in B
    BY <1>1, <2>1
  <2>3. at[n + 1] = F(at[n]) /\ bt[(n + 1) + k] = F(bt[n + k])
    BY <1>1, <2>1
  <2>4. at[n + 1] = bt[(n + 1) + k] => at[n] = bt[n + k]
    BY <1>2, <2>2, <2>3
  <2> QED BY <1>4, <2>4
<1>5. Nat \subseteq G
  <2> HIDE DEF G
  <2> QED BY <1>3, <1>4, InductiveSet
<1>6. at[i] = bt[i + k] => x = bt[k]
  BY <1>5
<1> QED BY <1>6 DEF at, bt

\* A walk is back where it began before it has seen more numbers than there are.
LEMMA WalkReturns ==
    ASSUME NEW key, Keys(key), NEW length \in 1 .. MaxLen, NEW x \in Block(length)
    PROVE  \E n \in 1 .. Half(length) * Half(length) : Orbit(key, length, x)[n] = x
<1> DEFINE at == Orbit(key, length, x)
           B == Block(length)
           N == Half(length) * Half(length)
           seen == [n \in 0 .. N |-> at[n]]
<1>1. at \in [Nat -> B] /\ at[0] = x
  BY OrbitSteps
<1>2. N \in Nat /\ B = 0 .. N - 1
  BY BlockCoversTier DEF Block
<1>3. \A i, k \in Nat : at[i] = at[i + k] => x = at[k]
  BY WalksMeetOnce
<1> HIDE DEF at, N
<1>4. IsFiniteSet(B) /\ Cardinality(B) = N
  <2>1. 0 \in Int /\ N - 1 \in Int /\ ((N - 1) - 0) + 1 = N /\ (0 > N - 1 => N = 0)
    BY <1>2
  <2>2. /\ IsFiniteSet(0 .. N - 1)
        /\ Cardinality(0 .. N - 1) = IF 0 > N - 1 THEN 0 ELSE (N - 1) - 0 + 1
    BY <2>1, FS_Interval
  <2> QED BY <1>2, <2>1, <2>2
<1>5. IsFiniteSet(0 .. N) /\ Cardinality(0 .. N) = N + 1
  <2>1. 0 \in Int /\ N \in Int /\ (N - 0) + 1 = N + 1 /\ ~(0 > N)
    BY <1>2
  <2>2. IsFiniteSet(0 .. N) /\ Cardinality(0 .. N) = IF 0 > N THEN 0 ELSE N - 0 + 1
    BY <2>1, FS_Interval
  <2> QED BY <2>1, <2>2
<1> HIDE DEF B
<1>6. seen \in [0 .. N -> B]
  BY <1>1, <1>2
<1>7. PICK i, j \in 0 .. N : i # j /\ seen[i] = seen[j]
  <2> HIDE DEF seen
  <2>1. Cardinality(B) < Cardinality(0 .. N)
    BY <1>2, <1>4, <1>5
  <2> QED BY <1>4, <1>5, <1>6, <2>1, FS_PigeonHole
<1>8. ASSUME NEW a \in 0 .. N, NEW b \in 0 .. N, a < b, at[a] = at[b]
      PROVE  \E n \in 1 .. N : at[n] = x
  <2>1. a \in Nat /\ b - a \in Nat /\ a + (b - a) = b /\ b - a \in 1 .. N
    BY <1>2, <1>8
  <2>2. x = at[b - a]
    BY <1>3, <1>8, <2>1
  <2> QED BY <2>1, <2>2
<1>9. at[i] = at[j]
  BY <1>7
<1>10. i < j \/ j < i
  BY <1>2, <1>7
<1>11. \E n \in 1 .. N : at[n] = x
  BY <1>7, <1>8, <1>9, <1>10
<1> QED BY <1>11 DEF at, N

\* permute: the walk from inside the tier stops, the first time it is inside again.
LEMMA PermuteStops ==
    ASSUME NEW key, Keys(key), NEW length \in 1 .. MaxLen, NEW x \in 0 .. Size(length) - 1
    PROVE  LET at == Orbit(key, length, x)
           IN  \E n \in Nat \ {0} :
                  /\ Permute(key, length, x) = at[n]
                  /\ at[n] \in 0 .. Size(length) - 1
                  /\ \A m \in 1 .. n - 1 : at[m] >= Size(length)
<1> DEFINE at == Orbit(key, length, x)
           B == Block(length)
           N == Half(length) * Half(length)
           size == Size(length)
           Stops(n) == at[n] < size /\ \A m \in 1 .. n - 1 : at[m] >= size
           Inside == {n \in Nat : n \in 1 .. N /\ at[n] < size}
<1>1. N \in Nat /\ size \in Nat /\ N >= size /\ B = 0 .. N - 1
             /\ x < size
  BY BlockCoversTier, SizeBounds DEF Block
<1>2. x \in B
  BY <1>1
<1>3. at \in [Nat -> B]
  BY <1>2, OrbitSteps
<1>4. PICK r \in 1 .. N : at[r] = x
  BY <1>2, WalkReturns
<1>5. Permute(key, length, x) = at[CHOOSE n \in 1 .. N : Stops(n)]
  BY DEF Permute
<1> HIDE DEF at, N, size
<1>6. r \in Inside
  BY <1>1, <1>4
<1>7. PICK n \in Inside : \A m \in Inside : n <= m
  <2>1. Inside \subseteq Nat
    OBVIOUS
  <2> HIDE DEF Inside
  <2> QED BY <1>6, <2>1, LeastNatural
<1>8. n \in 1 .. N /\ Stops(n)
  <2>1. ASSUME NEW m \in 1 .. n - 1 PROVE at[m] >= size
    <3>1. m \in Nat /\ m \in 1 .. N /\ ~(n <= m)
      BY <1>1, <1>7
    <3>2. m \notin Inside
      BY <1>7, <3>1
    <3>3. at[m] \in 0 .. N - 1
      BY <1>1, <1>3, <3>1
    <3> QED BY <1>1, <3>1, <3>2, <3>3
  <2> QED BY <1>7, <2>1
<1> DEFINE t == CHOOSE k \in 1 .. N : Stops(k)
<1>9. t \in 1 .. N /\ Stops(t)
  <2> HIDE DEF Stops
  <2> QED BY <1>8
<1>10. Permute(key, length, x) = at[t]
  BY <1>5
<1> HIDE DEF t
<1>11. t \in Nat \ {0} /\ at[t] \in Nat
  BY <1>1, <1>3, <1>9
<1>12. at[t] \in 0 .. size - 1
  BY <1>1, <1>9, <1>11
<1> QED BY <1>9, <1>10, <1>11, <1>12 DEF at, size

\* "Cycle walking keeps the result a permutation of exactly [0, size), which is what
\* makes collisions structurally impossible" (slug.go:151-154).
THEOREM PermuteIsAPermutation ==
    ASSUME NEW key, Keys(key), NEW length \in 1 .. MaxLen
    PROVE  LET tier == 0 .. Size(length) - 1
           IN  /\ \A x \in tier : Permute(key, length, x) \in tier
               /\ \A x, y \in tier : Permute(key, length, x) = Permute(key, length, y) => x = y
               /\ \A z \in tier : \E x \in tier : Permute(key, length, x) = z
<1> DEFINE size == Size(length)
           tier == 0 .. size - 1
           P(x) == Permute(key, length, x)
           at(x) == Orbit(key, length, x)
           walk == [x \in tier |-> P(x)]
<1>1. size \in Nat /\ tier \subseteq Block(length)
  BY BlockCoversTier, SizeBounds DEF Block
<1>2. \A x \in tier : \E n \in Nat \ {0} :
         P(x) = at(x)[n] /\ at(x)[n] \in tier /\ \A m \in 1 .. n - 1 : at(x)[m] >= size
  BY PermuteStops
<1>3. \A x, y \in tier : \A i, k \in Nat : at(x)[i] = at(y)[i + k] => x = at(y)[k]
  BY <1>1, WalksMeetOnce
<1>4. \A x \in tier : at(x)[0] = x
  BY <1>1, OrbitSteps
<1> HIDE DEF P, at, size
<1>5. \A x \in tier : P(x) \in tier
  BY <1>2
<1>6. ASSUME NEW x \in tier, NEW y \in tier, NEW n \in Nat \ {0}, NEW m \in Nat \ {0},
             at(x)[n] = at(y)[m], n <= m, \A i \in 1 .. m - 1 : at(y)[i] >= size
      PROVE  x = y
  <2>1. n \in Nat /\ m - n \in Nat /\ n + (m - n) = m
    BY <1>6
  <2>2. x = at(y)[m - n]
    BY <1>3, <1>6, <2>1
  <2>3. CASE m = n
    BY <2>2, <2>3, <1>4
  <2>4. CASE m # n
    <3>1. m - n \in 1 .. m - 1
      BY <1>6, <2>4
    <3>2. x >= size /\ x < size
      BY <1>1, <1>6, <2>2, <3>1
    <3> QED BY <1>1, <3>2
  <2> QED BY <2>3, <2>4
<1>7. ASSUME NEW x \in tier, NEW y \in tier, P(x) = P(y)
      PROVE  x = y
  <2>1. PICK n \in Nat \ {0} : P(x) = at(x)[n] /\ \A i \in 1 .. n - 1 : at(x)[i] >= size
    BY <1>2
  <2>2. PICK m \in Nat \ {0} : P(y) = at(y)[m] /\ \A i \in 1 .. m - 1 : at(y)[i] >= size
    BY <1>2
  <2>3. CASE n <= m
    BY <1>6, <1>7, <2>1, <2>2, <2>3
  <2>4. CASE m <= n
    BY <1>6, <1>7, <2>1, <2>2, <2>4
  <2> QED BY <2>3, <2>4
<1>8. walk \in Injection(tier, tier)
  BY <1>5, <1>7 DEF Injection, IsInjective
<1>9. IsFiniteSet(tier)
  BY <1>1, FS_Interval
<1>10. walk \in Surjection(tier, tier)
  <2> HIDE DEF walk, tier
  <2> QED BY <1>8, <1>9, FS_Injection
<1>11. \A z \in tier : \E x \in tier : P(x) = z
  BY <1>10 DEF Surjection
<1> QED BY <1>5, <1>7, <1>11 DEF P, size

-----------------------------------------------------------------------------
(* Digits.                                                                 *)

Letters == 0 .. Base - 1

\* The loop of encode.
LEMMA DigitsLoop ==
    /\ \A v \in Nat : Digits[0][v] = <<>>
    /\ \A l, v \in Nat : Digits[l + 1][v] = Append(Digits[l][v \div Base], v % Base)
    /\ \A l, v \in Nat : Digits[l][v] \in Seq(Letters) /\ Len(Digits[l][v]) = l
<1> DEFINE S == [Nat -> Seq(Letters)]
           a == [v \in Nat |-> <<>>]
           Longer(g) == [v \in Nat |-> Append(g[v \div Base], v % Base)]
           F == [p \in Nat \X S |-> Longer(p[2])]
           Body(g) == [l \in Nat |-> [v \in Nat |->
                          IF l = 0 THEN <<>> ELSE Append(g[l - 1][v \div Base], v % Base)]]
<1>1. \A v \in Nat : v \div Base \in Nat /\ v % Base \in Letters
  <2>1. Base \in Nat /\ Base >= 1
    BY CodeAssumption
  <2>2. \A v \in Nat : v \div Base \in Nat /\ v % Base \in 0 .. Base - 1
    BY <2>1, Division
  <2> QED BY <2>2 DEF Letters
<1>2. a \in S
  BY EmptySeq
<1>3. ASSUME NEW g \in S PROVE Longer(g) \in S
  <2>1. ASSUME NEW v \in Nat PROVE Append(g[v \div Base], v % Base) \in Seq(Letters)
    BY <1>1, AppendProperties
  <2> QED BY <2>1
<1>4. F \in [Nat \X S -> S]
  <2> HIDE DEF S, Longer
  <2> QED BY <1>3
<1>5. PICK f : Iterates(f, S, a, F)
  <2> HIDE DEF S, a, F
  <2> QED BY <1>2, <1>4, PrimitiveRecursion
<1>6. f[0] = a /\ f \in [Nat -> S]
  BY <1>5 DEF Iterates
<1>7. ASSUME NEW n \in Nat PROVE f[n + 1] = Longer(f[n])
  <2> HIDE DEF S, Longer, a
  <2>1. f[n + 1] = F[<<n, f[n]>>] /\ f[n] \in S
    BY <1>5 DEF Iterates
  <2> QED BY <2>1
<1>8. ASSUME NEW l \in Nat
      PROVE  f[l] = [v \in Nat |->
                        IF l = 0 THEN <<>> ELSE Append(f[l - 1][v \div Base], v % Base)]
  <2>1. CASE l = 0
    BY <2>1, <1>6
  <2>2. CASE l # 0
    <3>1. l - 1 \in Nat /\ (l - 1) + 1 = l
      BY <2>2
    <3>2. f[l] = Longer(f[l - 1])
      BY <3>1, <1>7
    <3> QED BY <3>2, <2>2
  <2> QED BY <2>1, <2>2
<1>9. f = Body(f)
  <2> HIDE DEF S, a, F
  <2> QED BY <1>6, <1>8
<1>10. Digits = Body(Digits)
  <2> HIDE DEF S, a, F
  <2> QED BY <1>9 DEF Digits
<1> HIDE DEF S, a, F
<1>11. \A v \in Nat : Digits[0][v] = <<>>
  BY <1>10
<1>12. ASSUME NEW l \in Nat, NEW v \in Nat
       PROVE  Digits[l + 1][v] = Append(Digits[l][v \div Base], v % Base)
  <2>1. l + 1 \in Nat /\ l + 1 # 0 /\ (l + 1) - 1 = l
    OBVIOUS
  <2>2. Digits[l + 1] = [u \in Nat |-> Append(Digits[l][u \div Base], u % Base)]
    BY <1>10, <2>1
  <2> QED BY <2>2
<1> HIDE DEF Body
<1>13. \A l, v \in Nat : Digits[l][v] \in Seq(Letters) /\ Len(Digits[l][v]) = l
  <2> DEFINE G == {l \in Nat : \A v \in Nat :
                       Digits[l][v] \in Seq(Letters) /\ Len(Digits[l][v]) = l}
  <2>1. 0 \in G
    BY <1>11, EmptySeq
  <2>2. ASSUME NEW l \in Nat, l \in G PROVE l + 1 \in G
    <3>1. ASSUME NEW v \in Nat
          PROVE  Digits[l + 1][v] \in Seq(Letters) /\ Len(Digits[l + 1][v]) = l + 1
      <4>1. v \div Base \in Nat /\ v % Base \in Letters
        BY <1>1
      <4>2. Digits[l][v \div Base] \in Seq(Letters) /\ Len(Digits[l][v \div Base]) = l
        BY <2>2, <4>1
      <4>3. Digits[l + 1][v] = Append(Digits[l][v \div Base], v % Base)
        BY <1>12
      <4> QED BY <4>1, <4>2, <4>3, AppendProperties
    <3> QED BY <3>1
  <2> HIDE DEF G
  <2>3. Nat \subseteq G
    BY <2>1, <2>2, InductiveSet
  <2> QED BY <2>3 DEF G
<1> QED BY <1>11, <1>12, <1>13

\* encode: every number of a tier has digits of its own, and every code is some
\* number's digits.
LEMMA DigitsAreABijection ==
    ASSUME NEW length \in Nat
    PROVE  /\ \A x, y \in 0 .. Size(length) - 1 :
                Digits[length][x] = Digits[length][y] => x = y
           /\ \A c \in Seq(Letters) : Len(c) = length =>
                \E x \in 0 .. Size(length) - 1 : Digits[length][x] = c
<1> DEFINE Distinct(l) == \A x, y \in Nat : x < Sizes[l] /\ y < Sizes[l] =>
                              (Digits[l][x] = Digits[l][y] => x = y)
           Covers(l) == \A c \in Seq(Letters) : Len(c) = l =>
                              \E x \in Nat : x < Sizes[l] /\ Digits[l][x] = c
           G == {l \in Nat : Distinct(l) /\ Covers(l)}
<1>1. 0 \in G
  <2>1. Distinct(0)
    BY SizesTable
  <2>2. Covers(0)
    <3>1. SUFFICES ASSUME NEW c \in Seq(Letters), Len(c) = 0
                   PROVE  \E x \in Nat : x < Sizes[0] /\ Digits[0][x] = c
      OBVIOUS
    <3>2. c = <<>>
      BY <3>1, EmptySeq
    <3>3. 0 \in Nat /\ 0 < Sizes[0] /\ Digits[0][0] = c
      BY <3>2, SizesTable, DigitsLoop
    <3> QED BY <3>3
  <2> QED BY <2>1, <2>2
<1>2. ASSUME NEW l \in Nat, l \in G PROVE l + 1 \in G
  <2> DEFINE D == Digits[l]
  <2>1. Base \in Nat /\ Base >= 1 /\ Sizes[l] \in Nat /\ Sizes[l + 1] = Base * Sizes[l]
    BY CodeAssumption, SizesTable
  <2>2. \A v \in Nat : D[v] \in Seq(Letters) /\ Len(D[v]) = l
    BY DigitsLoop
  <2>3. \A v \in Nat : Digits[l + 1][v] = Append(D[v \div Base], v % Base)
    BY DigitsLoop
  <2>4. Distinct(l) /\ Covers(l)
    BY <1>2
  <2>5. ASSUME NEW x \in Nat, NEW y \in Nat, x < Sizes[l + 1], y < Sizes[l + 1],
               Digits[l + 1][x] = Digits[l + 1][y]
        PROVE  x = y
    <3>1. /\ x \div Base \in Nat /\ x % Base \in Letters /\ x = Base * (x \div Base) + (x % Base)
          /\ y \div Base \in Nat /\ y % Base \in Letters /\ y = Base * (y \div Base) + (y % Base)
      BY <2>1, Division DEF Letters
    <3>2. x \div Base < Sizes[l] /\ y \div Base < Sizes[l]
      BY <2>1, <2>5, QuotientBound
    <3>3. Append(D[x \div Base], x % Base) = Append(D[y \div Base], y % Base)
      BY <2>3, <2>5
    <3>4. D[x \div Base] = D[y \div Base] /\ x % Base = y % Base
      BY <2>2, <3>1, <3>3, AppendInjective
    <3>5. x \div Base = y \div Base
      BY <2>4, <3>1, <3>2, <3>4
    <3> QED BY <3>1, <3>4, <3>5
  <2>6. ASSUME NEW c \in Seq(Letters), Len(c) = l + 1
        PROVE  \E x \in Nat : x < Sizes[l + 1] /\ Digits[l + 1][x] = c
    <3>1. c # <<>>
      BY <2>6, EmptySeq
    <3>2. PICK s \in Seq(Letters), e \in Letters : c = Append(s, e)
      BY <3>1, SequenceEmptyOrAppend
    <3>3. Len(s) = l
      <4>1. Len(c) = Len(s) + 1 /\ Len(s) \in Nat
        BY <3>2, AppendProperties, LenProperties
      <4> QED BY <4>1, <2>6
    <3>4. PICK q \in Nat : q < Sizes[l] /\ D[q] = s
      BY <2>4, <3>3
    <3> DEFINE x == Base * q + e
    <3>5. x \div Base = q /\ x % Base = e
      BY <2>1, DivisionIsUnique DEF Letters
    <3>6. e \in Nat /\ e < Base /\ x \in Nat
      <4>1. e \in Nat /\ e < Base /\ Base * q \in Nat
        BY <2>1 DEF Letters
      <4> QED BY <4>1
    <3>7. x < Sizes[l + 1]
      <4>1. Base * (q + 1) <= Base * Sizes[l]
        BY <2>1, <3>4
      <4>2. Base * (q + 1) = Base * q + Base
        BY <2>1
      <4> QED BY <2>1, <3>6, <4>1, <4>2
    <3> HIDE DEF x
    <3>8. Digits[l + 1][x] = c
      BY <2>3, <3>2, <3>4, <3>5, <3>6
    <3> QED BY <3>6, <3>7, <3>8
  <2> HIDE DEF D
  <2> QED BY <2>5, <2>6
<1>3. Nat \subseteq G
  <2> HIDE DEF G
  <2> QED BY <1>1, <1>2, InductiveSet
<1>4. Distinct(length) /\ Covers(length)
  BY <1>3
<1>5. Size(length) \in Nat /\ Size(length) = Sizes[length]
  BY SizeBounds DEF Size
<1>6. \A x : x \in 0 .. Size(length) - 1 <=> x \in Nat /\ x < Sizes[length]
  BY <1>5
<1> QED BY <1>4, <1>6

-----------------------------------------------------------------------------
(* The ladder of tiers.                                                    *)

\* Each length that counts adds its tier.
LEMMA Ladder ==
    ASSUME NEW m \in Nat
    PROVE  /\ \A l \in Nat : CodesBelow(m, l) \in Nat
           /\ \A l \in Nat : l <= m => CodesBelow(m, l) = 0
           /\ \A l \in Nat : l >= m => CodesBelow(m, l + 1) = CodesBelow(m, l) + Size(l)
<1> DEFINE F == [p \in Nat \X Nat |-> IF p[1] + 1 <= m THEN 0 ELSE p[2] + Size(p[1])]
           Sums(f) == f = [l \in Nat |-> IF l <= m THEN 0 ELSE f[l - 1] + Size(l - 1)]
           h == CHOOSE f : Sums(f)
<1>1. \A l : CodesBelow(m, l) = h[l]
  BY Zenon DEF CodesBelow
<1>2. \A l \in Nat : Size(l) \in Nat
  BY SizeBounds
<1>3. F \in [Nat \X Nat -> Nat]
  BY <1>2
<1>4. PICK f : Iterates(f, Nat, 0, F)
  <2> HIDE DEF F
  <2>1. 0 \in Nat
    OBVIOUS
  <2> QED BY <1>3, <2>1, PrimitiveRecursion
<1>5. f[0] = 0 /\ f \in [Nat -> Nat]
  BY <1>4 DEF Iterates
<1>6. ASSUME NEW n \in Nat
      PROVE  f[n + 1] = IF n + 1 <= m THEN 0 ELSE f[n] + Size(n)
  <2>1. f[n + 1] = F[<<n, f[n]>>] /\ f[n] \in Nat
    <3> HIDE DEF F
    <3> QED BY <1>4, <1>5 DEF Iterates
  <2> QED BY <2>1
<1>7. ASSUME NEW l \in Nat
      PROVE  f[l] = IF l <= m THEN 0 ELSE f[l - 1] + Size(l - 1)
  <2>1. CASE l = 0
    BY <2>1, <1>5
  <2>2. CASE l # 0
    <3>1. l - 1 \in Nat /\ (l - 1) + 1 = l
      BY <2>2
    <3> QED BY <3>1, <1>6
  <2> QED BY <2>1, <2>2
<1>8. Sums(f)
  BY <1>5, <1>7
<1>9. Sums(h)
  <2> HIDE DEF Sums
  <2> QED BY <1>8
<1> HIDE DEF h
<1>10. \A l \in Nat : l <= m => h[l] = 0
  BY <1>9
<1>11. ASSUME NEW l \in Nat, l >= m PROVE h[l + 1] = h[l] + Size(l)
  <2>1. l + 1 \in Nat /\ ~(l + 1 <= m) /\ (l + 1) - 1 = l
    BY <1>11
  <2> QED BY <1>9, <2>1
<1>12. \A l \in Nat : h[l] \in Nat
  <2> DEFINE G == {l \in Nat : h[l] \in Nat}
  <2>1. 0 \in G
    BY <1>10
  <2>2. ASSUME NEW l \in Nat, l \in G PROVE l + 1 \in G
    <3>1. CASE l >= m
      <4>1. h[l + 1] = h[l] + Size(l) /\ h[l] \in Nat /\ Size(l) \in Nat
        BY <3>1, <2>2, <1>2, <1>11
      <4> QED BY <4>1
    <3>2. CASE l < m
      <4>1. l + 1 \in Nat /\ l + 1 <= m
        BY <3>2
      <4> QED BY <4>1, <1>10
    <3> QED BY <3>1, <3>2
  <2> HIDE DEF G
  <2>3. Nat \subseteq G
    BY <2>1, <2>2, InductiveSet
  <2> QED BY <2>3 DEF G
<1> QED BY <1>1, <1>10, <1>11, <1>12

\* A longer length has more codes below it.
LEMMA LadderRises ==
    ASSUME NEW m \in Nat, NEW l \in Nat, NEW k \in Nat, l <= k
    PROVE  CodesBelow(m, l) <= CodesBelow(m, k)
<1> DEFINE B(n) == CodesBelow(m, n)
           G == {n \in Nat : B(l) <= B(l + n)}
<1>1. /\ \A n \in Nat : B(n) \in Nat
      /\ \A n \in Nat : n <= m => B(n) = 0
      /\ \A n \in Nat : n >= m => B(n + 1) = B(n) + Size(n)
  BY Ladder
<1>2. \A n \in Nat : Size(n) \in Nat
  BY SizeBounds
<1> HIDE DEF B
<1>3. 0 \in G
  BY <1>1
<1>4. ASSUME NEW n \in Nat, n \in G PROVE n + 1 \in G
  <2>1. l + n \in Nat /\ (l + n) + 1 \in Nat /\ l + (n + 1) = (l + n) + 1
    OBVIOUS
  <2>2. B(l) \in Nat /\ B(l + n) \in Nat /\ B((l + n) + 1) \in Nat /\ B(l) <= B(l + n)
    BY <1>1, <1>4, <2>1
  <2>3. CASE l + n >= m
    <3>1. B((l + n) + 1) = B(l + n) + Size(l + n) /\ Size(l + n) \in Nat
      BY <1>1, <1>2, <2>1, <2>3
    <3> QED BY <2>1, <2>2, <3>1
  <2>4. CASE l + n < m
    <3>1. l <= m
      BY <2>4
    <3>2. B(l) = 0
      BY <1>1, <3>1
    <3> QED BY <2>1, <2>2, <3>2
  <2> QED BY <2>3, <2>4
<1>5. Nat \subseteq G
  <2> HIDE DEF G
  <2> QED BY <1>3, <1>4, InductiveSet
<1>6. k - l \in Nat /\ l + (k - l) = k
  OBVIOUS
<1>7. B(l) <= B(k)
  BY <1>5, <1>6
<1> QED BY <1>7 DEF B

\* A ladder that starts higher has fewer codes below every length.
LEMMA LadderFromHigher ==
    ASSUME NEW m1 \in Nat, NEW m2 \in Nat, m1 <= m2, NEW l \in Nat
    PROVE  CodesBelow(m2, l) <= CodesBelow(m1, l)
<1> DEFINE G == {n \in Nat : CodesBelow(m2, n) <= CodesBelow(m1, n)}
<1>1. 0 \in G
  BY Ladder
<1>2. ASSUME NEW n \in Nat, n \in G PROVE n + 1 \in G
  <2>1. /\ CodesBelow(m2, n) \in Nat /\ CodesBelow(m1, n) \in Nat /\ Size(n) \in Nat
        /\ CodesBelow(m2, n + 1) \in Nat /\ CodesBelow(m1, n + 1) \in Nat
    <3>1. n + 1 \in Nat
      OBVIOUS
    <3>2. CodesBelow(m1, n) \in Nat /\ CodesBelow(m1, n + 1) \in Nat
      BY <3>1, Ladder
    <3>3. CodesBelow(m2, n) \in Nat /\ CodesBelow(m2, n + 1) \in Nat
      BY <3>1, Ladder
    <3> QED BY <3>2, <3>3, SizeBounds
  <2>2. CASE n >= m2
    <3>1. n >= m1
      BY <2>2
    <3>2. /\ CodesBelow(m2, n + 1) = CodesBelow(m2, n) + Size(n)
          /\ CodesBelow(m1, n + 1) = CodesBelow(m1, n) + Size(n)
      BY <2>2, <3>1, Ladder
    <3> QED BY <1>2, <2>1, <3>2
  <2>3. CASE n < m2
    <3>1. n + 1 \in Nat /\ n + 1 <= m2
      BY <2>3
    <3>2. CodesBelow(m2, n + 1) = 0
      BY <3>1, Ladder
    <3> QED BY <2>1, <3>2
  <2> QED BY <2>2, <2>3
<1>3. Nat \subseteq G
  <2> HIDE DEF G
  <2> QED BY <1>1, <1>2, InductiveSet
<1> QED BY <1>3

\* What Code makes of number n in the tier of length t.
CodeIn(key, m, n, t) == Encode(Permute(key, t, (n - 1) - CodesBelow(m, t)), t)

\* Number n falls in the tier of length t.
Falls(m, n, t) ==
    /\ t \in m .. MaxLen
    /\ CodesBelow(m, t) < n
    /\ n <= CodesBelow(m, t + 1)

\* Code walks the tiers up to the one its number falls in, and only a number past
\* Capacity falls in none.
LEMMA CodeWalk ==
    ASSUME NEW key, NEW m \in 1 .. MaxLen, NEW n \in Nat \ {0}
    PROVE  /\ n > Capacity(m) => Code(key, m, n) = NoCode
           /\ n <= Capacity(m) => \E t \in m .. MaxLen : Falls(m, n, t)
           /\ \A t : Falls(m, n, t) => Code(key, m, n) = CodeIn(key, m, n, t)
           /\ \A t : Falls(m, n, t) =>
                /\ (n - 1) - CodesBelow(m, t) \in 0 .. Size(t) - 1
                /\ n <= Capacity(m)
<1> DEFINE B(l) == CodesBelow(m, l)
           fits == {l \in m .. MaxLen : n - 1 < B(l + 1)}
           low == Min(fits)
<1>1. MaxLen \in Nat /\ m \in Nat /\ m <= MaxLen /\ n \in Nat /\ n >= 1
  BY CodeAssumption
<1>2. /\ \A l \in Nat : B(l) \in Nat
      /\ \A l \in Nat : l <= m => B(l) = 0
      /\ \A l \in Nat : l >= m => B(l + 1) = B(l) + Size(l)
  BY <1>1, Ladder
<1>3. \A l, k \in Nat : l <= k => B(l) <= B(k)
  BY <1>1, LadderRises
<1>4. Capacity(m) = B(MaxLen + 1)
  BY DEF Capacity
<1>5. Code(key, m, n) = IF fits = {} THEN NoCode ELSE CodeIn(key, m, n, low)
  BY DEF Code, CodeIn
<1> HIDE DEF B
<1>6. n > Capacity(m) => fits = {}
  <2> SUFFICES ASSUME n > Capacity(m), NEW l \in m .. MaxLen, n - 1 < B(l + 1)
               PROVE  FALSE
    OBVIOUS
  <2>1. l + 1 \in Nat /\ MaxLen + 1 \in Nat /\ l + 1 <= MaxLen + 1
    BY <1>1
  <2>2. B(l + 1) <= B(MaxLen + 1) /\ B(l + 1) \in Nat /\ B(MaxLen + 1) \in Nat
    BY <1>2, <1>3, <2>1
  <2> QED BY <1>1, <1>4, <2>2
<1>7. ASSUME n <= Capacity(m)
      PROVE  /\ low \in fits /\ \A l \in fits : low <= l
  <2>1. MaxLen \in fits
    <3>1. MaxLen + 1 \in Nat
      BY <1>1
    <3>2. B(MaxLen + 1) \in Nat /\ n <= B(MaxLen + 1)
      BY <1>2, <1>4, <1>7, <3>1
    <3> QED BY <1>1, <3>2
  <2>2. fits \subseteq Nat
    BY <1>1
  <2> HIDE DEF fits
  <2>3. \E x \in fits : \A y \in fits : x <= y
    BY <2>1, <2>2, LeastNatural
  <2> QED BY <2>3 DEF Min
<1>8. ASSUME n <= Capacity(m)
      PROVE  Falls(m, n, low)
  <2>1. low \in m .. MaxLen /\ low \in Nat /\ low + 1 \in Nat /\ n - 1 < B(low + 1)
    BY <1>1, <1>7, <1>8
  <2>2. B(low) < n
    <3>1. CASE low = m
      BY <1>1, <1>2, <3>1
    <3>2. CASE low # m
      <4>1. low - 1 \in m .. MaxLen /\ (low - 1) + 1 = low /\ ~(low <= low - 1)
        BY <1>1, <2>1, <3>2
      <4>2. low - 1 \notin fits
        <5> HIDE DEF fits, low
        <5> QED BY <1>7, <1>8, <4>1
      <4>3. ~(n - 1 < B(low))
        BY <4>1, <4>2
      <4>4. B(low) \in Nat
        BY <1>2, <2>1
      <4> QED BY <1>1, <4>3, <4>4
    <3> QED BY <3>1, <3>2
  <2>3. n <= B(low + 1)
    <3>1. B(low + 1) \in Nat
      BY <1>2, <2>1
    <3> QED BY <1>1, <2>1, <3>1
  <2> QED BY <2>1, <2>2, <2>3 DEF Falls, B
<1>9. ASSUME NEW t, Falls(m, n, t)
      PROVE  n <= Capacity(m) /\ t = low /\ (n - 1) - B(t) \in 0 .. Size(t) - 1
  <2>1. t \in m .. MaxLen /\ t \in Nat /\ t + 1 \in Nat /\ MaxLen + 1 \in Nat
        /\ t + 1 <= MaxLen + 1 /\ B(t) < n /\ n <= B(t + 1)
    BY <1>1, <1>9 DEF Falls, B
  <2>2. B(t) \in Nat /\ B(t + 1) \in Nat /\ B(t + 1) = B(t) + Size(t) /\ Size(t) \in Nat
    BY <1>1, <1>2, <2>1, SizeBounds
  <2>3. n <= Capacity(m)
    <3>1. B(t + 1) <= B(MaxLen + 1) /\ B(MaxLen + 1) \in Nat
      BY <1>2, <1>3, <2>1
    <3> QED BY <1>1, <1>4, <2>1, <2>2, <3>1
  <2>4. t \in fits
    BY <1>1, <2>1, <2>2
  <2>5. low \in fits /\ low <= t
    BY <1>7, <2>3, <2>4
  <2>6. ASSUME low # t PROVE FALSE
    <3>1. low \in Nat /\ low + 1 \in Nat /\ low + 1 <= t /\ n - 1 < B(low + 1)
      BY <1>1, <2>1, <2>5, <2>6
    <3>2. B(low + 1) <= B(t) /\ B(low + 1) \in Nat
      BY <1>2, <1>3, <2>1, <3>1
    <3> QED BY <1>1, <2>1, <2>2, <3>1, <3>2
  <2>7. (n - 1) - B(t) \in 0 .. Size(t) - 1
    BY <1>1, <2>1, <2>2
  <2> QED BY <2>3, <2>6, <2>7
<1>10. n <= Capacity(m) => fits # {}
  BY <1>7
<1>11. Capacity(m) \in Nat
  BY <1>1, <1>2, <1>4
<1> HIDE DEF fits, low
<1>12. n > Capacity(m) => Code(key, m, n) = NoCode
  BY <1>5, <1>6
<1>13. n <= Capacity(m) => Code(key, m, n) = CodeIn(key, m, n, low)
  BY <1>5, <1>10
<1>14. n <= Capacity(m) => \E t \in m .. MaxLen : Falls(m, n, t)
  BY <1>8 DEF Falls
<1>15. \A t : Falls(m, n, t) => Code(key, m, n) = CodeIn(key, m, n, t)
  BY <1>9, <1>13
<1>16. \A t : Falls(m, n, t) => (n - 1) - CodesBelow(m, t) \in 0 .. Size(t) - 1 /\ n <= Capacity(m)
  BY <1>9 DEF B
<1> QED BY <1>12, <1>14, <1>15, <1>16

-----------------------------------------------------------------------------
(* Codes.                                                                  *)

\* The code of a number that falls in tier t has t letters.
LEMMA CodeShape ==
    ASSUME NEW key, Keys(key), NEW m \in 1 .. MaxLen, NEW n \in Nat \ {0},
           NEW t, Falls(m, n, t)
    PROVE  /\ Code(key, m, n) \in Seq(Letters)
           /\ Len(Code(key, m, n)) = t
           /\ t \in 1 .. MaxLen
           /\ Code(key, m, n) # NoCode
<1> DEFINE x == (n - 1) - CodesBelow(m, t)
           y == Permute(key, t, x)
<1>1. t \in 1 .. MaxLen /\ t \in Nat
  BY CodeAssumption DEF Falls
<1>2. x \in 0 .. Size(t) - 1
  BY CodeWalk
<1>3. y \in 0 .. Size(t) - 1
  BY <1>1, <1>2, PermuteIsAPermutation
<1>4. Code(key, m, n) = Digits[t][y]
  BY CodeWalk DEF CodeIn, Encode
<1> HIDE DEF x, y
<1>5. y \in Nat
  BY <1>3
<1>6. Code(key, m, n) \in Seq(Letters) /\ Len(Code(key, m, n)) = t
  BY <1>1, <1>4, <1>5, DigitsLoop
<1>7. Len(NoCode) = 0 /\ t # 0
  BY <1>1, EmptySeq DEF NoCode
<1> QED BY <1>1, <1>6, <1>7

\* Only a number past the capacity has no code.
LEMMA NoCodeIsPastCapacity ==
    ASSUME NEW key, Keys(key), NEW m \in 1 .. MaxLen, NEW n \in Nat \ {0}
    PROVE  Code(key, m, n) = NoCode <=> n > Capacity(m)
<1>1. Capacity(m) \in Nat
  <2>1. m \in Nat /\ MaxLen + 1 \in Nat
    BY CodeAssumption
  <2> QED BY <2>1, Ladder DEF Capacity
<1>2. CASE n > Capacity(m)
  BY <1>2, CodeWalk
<1>3. CASE n <= Capacity(m)
  <2>1. PICK t : Falls(m, n, t)
    BY <1>3, CodeWalk
  <2> QED BY <1>1, <1>3, <2>1, CodeShape
<1> QED BY <1>1, <1>2, <1>3

\* "The counter guarantees uniqueness" (slug.go:3): a later number, under the same
\* minimum length or a raised one, has another code.
THEOREM LaterCodesDiffer ==
    ASSUME NEW key, Keys(key), NEW m1 \in 1 .. MaxLen, NEW m2 \in 1 .. MaxLen, m1 <= m2,
           NEW n1 \in Nat \ {0}, NEW n2 \in Nat \ {0}, n1 < n2,
           Code(key, m1, n1) # NoCode
    PROVE  Code(key, m1, n1) # Code(key, m2, n2)
<1> SUFFICES ASSUME Code(key, m1, n1) = Code(key, m2, n2)
             PROVE  FALSE
  OBVIOUS
<1>1. m1 \in Nat /\ m2 \in Nat /\ MaxLen + 1 \in Nat
  BY CodeAssumption
<1>2. Capacity(m1) \in Nat /\ Capacity(m2) \in Nat
  BY <1>1, Ladder DEF Capacity
<1>3. n1 <= Capacity(m1) /\ n2 <= Capacity(m2)
  BY <1>2, NoCodeIsPastCapacity
<1>4. PICK t : Falls(m1, n1, t)
  BY <1>3, CodeWalk
<1>5. PICK t2 : Falls(m2, n2, t2)
  BY <1>3, CodeWalk
<1>6. t2 = t /\ t \in 1 .. MaxLen /\ t \in Nat
  <2>1. Len(Code(key, m1, n1)) = t /\ t \in 1 .. MaxLen
    BY <1>4, CodeShape
  <2>2. Len(Code(key, m2, n2)) = t2
    BY <1>5, CodeShape
  <2> QED BY <2>1, <2>2, CodeAssumption
<1> DEFINE b1 == CodesBelow(m1, t)
           b2 == CodesBelow(m2, t)
           x1 == (n1 - 1) - b1
           x2 == (n2 - 1) - b2
<1>7. b1 \in Nat /\ b2 \in Nat /\ b2 <= b1
  BY <1>1, <1>6, Ladder, LadderFromHigher
<1>8. x1 \in 0 .. Size(t) - 1 /\ x2 \in 0 .. Size(t) - 1
  BY <1>4, <1>5, <1>6, CodeWalk
<1>9. /\ Code(key, m1, n1) = Digits[t][Permute(key, t, x1)]
      /\ Code(key, m2, n2) = Digits[t][Permute(key, t, x2)]
  BY <1>4, <1>5, <1>6, CodeWalk DEF CodeIn, Encode
<1>10. x1 < x2
  BY <1>7
<1> HIDE DEF x1, x2
<1>11. Permute(key, t, x1) \in 0 .. Size(t) - 1 /\ Permute(key, t, x2) \in 0 .. Size(t) - 1
  BY <1>6, <1>8, PermuteIsAPermutation
<1>12. Permute(key, t, x1) = Permute(key, t, x2)
  BY <1>6, <1>9, <1>11, DigitsAreABijection
<1>13. x1 = x2
  BY <1>6, <1>8, <1>12, PermuteIsAPermutation
<1>14. Size(t) \in Nat
  BY <1>6, SizeBounds
<1> QED BY <1>8, <1>10, <1>13, <1>14

\* "A bijection onto exactly that tier's code space" (slug.go:12): every word of a
\* length the generator may use is the code of a number of that tier.
THEOREM EveryWordIsACode ==
    ASSUME NEW key, Keys(key), NEW m \in 1 .. MaxLen,
           NEW c \in Seq(Letters), Len(c) \in m .. MaxLen
    PROVE  \E n \in Nat \ {0} : Falls(m, n, Len(c)) /\ Code(key, m, n) = c
<1> DEFINE t == Len(c)
           b == CodesBelow(m, t)
<1>1. m \in Nat /\ m >= 1 /\ t \in Nat /\ t + 1 \in Nat /\ t \in 1 .. MaxLen /\ t >= m
  BY CodeAssumption
<1>2. b \in Nat /\ CodesBelow(m, t + 1) = b + Size(t) /\ Size(t) \in Nat
  BY <1>1, Ladder, SizeBounds
<1>3. PICK y \in 0 .. Size(t) - 1 : Digits[t][y] = c
  BY <1>1, DigitsAreABijection
<1>4. PICK x \in 0 .. Size(t) - 1 : Permute(key, t, x) = y
  BY <1>1, PermuteIsAPermutation
<1> DEFINE n == b + x + 1
<1> HIDE DEF b
<1>5. n \in Nat \ {0} /\ (n - 1) - b = x /\ b < n /\ n <= b + Size(t)
  BY <1>2
<1> HIDE DEF n
<1>6. Falls(m, n, t)
  BY <1>2, <1>5 DEF Falls, b
<1>7. Code(key, m, n) = Encode(Permute(key, t, (n - 1) - b), t)
  BY <1>5, <1>6, CodeWalk DEF CodeIn, b
<1>8. Code(key, m, n) = c
  BY <1>3, <1>4, <1>5, <1>7 DEF Encode
<1> QED BY <1>5, <1>6, <1>8

\* An interval from one tells where it ends.
LEMMA IntervalsTell ==
    ASSUME NEW k \in Nat, NEW l \in Nat, 1 .. k = 1 .. l
    PROVE  k = l
<1>1. k >= 1 => k \in 1 .. k
  OBVIOUS
<1>2. l >= 1 => l \in 1 .. l
  OBVIOUS
<1>3. k >= 1 => k <= l
  BY <1>1
<1>4. l >= 1 => l <= k
  BY <1>2
<1> QED BY <1>3, <1>4

\* Valid accepts the words of one to MaxLen letters.
LEMMA ValidCodesAreWords ==
    /\ \A c \in ValidCodes : c \in Seq(Letters) /\ Len(c) \in 1 .. MaxLen
    /\ \A c \in Seq(Letters) : Len(c) \in 1 .. MaxLen => c \in ValidCodes
<1>1. ASSUME NEW c \in ValidCodes
      PROVE  c \in Seq(Letters) /\ Len(c) \in 1 .. MaxLen
  <2>1. PICK l \in 1 .. MaxLen : c \in [1 .. l -> Letters]
    BY DEF ValidCodes, Letters
  <2>2. l \in Nat
    BY CodeAssumption
  <2>3. c \in Seq(Letters) /\ Len(c) = l
    <3>1. c \in Seq(Letters)
      BY <2>1, <2>2, SeqDef
    <3>2. DOMAIN c = 1 .. Len(c) /\ DOMAIN c = 1 .. l /\ Len(c) \in Nat
      BY <2>1, <3>1, LenProperties
    <3>3. Len(c) = l
      BY <2>2, <3>2, IntervalsTell
    <3> QED BY <3>1, <3>3
  <2> QED BY <2>3
<1>2. ASSUME NEW c \in Seq(Letters), Len(c) \in 1 .. MaxLen
      PROVE  c \in ValidCodes
  <2>1. c \in [1 .. Len(c) -> Letters]
    BY LenProperties
  <2> QED BY <1>2, <2>1 DEF ValidCodes, Letters
<1> QED BY <1>1, <1>2

-----------------------------------------------------------------------------
(* Allocation.                                                             *)

\* What is true of the generator and the counter under any settings and changes.
AllocInv ==
    /\ setting \in Settings
    /\ codeOf = NewGenerator[setting]
    /\ restarts \in Nat
    /\ seq \in 0 .. Capacity(1)
    /\ rows \subseteq issued
    /\ \A p \in issued : p.seq \in 1 .. seq

LEMMA Clamped ==
    ASSUME NEW l \in Int
    PROVE  Clamp(l) \in 1 .. MaxLen
BY CodeAssumption DEF Clamp

LEMMA CapacityBounds ==
    ASSUME NEW m \in 1 .. MaxLen
    PROVE  Capacity(m) \in Nat /\ Capacity(1) \in Nat /\ Capacity(m) <= Capacity(1)
<1>1. m \in Nat /\ 1 \in Nat /\ 1 <= m /\ MaxLen + 1 \in Nat
  BY CodeAssumption
<1> QED BY <1>1, Ladder, LadderFromHigher DEF Capacity

\* A setting is a key whose HMAC is a number, and a minimum length that is clamped.
LEMMA SettingsAreKeyed ==
    ASSUME NEW g \in Settings
    PROVE  /\ Keys(g.key)
           /\ Clamp(g.minLen) \in 1 .. MaxLen
           /\ \A n \in 1 .. Capacity(1) + 1 :
                NewGenerator[g][n] = Code(g.key, Clamp(g.minLen), n)
<1>1. Keys(g.key)
  BY AllocationAssumption DEF Keys
<1>2. Clamp(g.minLen) \in 1 .. MaxLen
  BY AllocationAssumption, Clamped
<1> QED BY <1>1, <1>2 DEF NewGenerator

\* The loop of Create ends: it meets a code that is no route, if only for the lack of
\* codes, and nothing but routes before it.
LEMMA LoopEnds ==
    ASSUME AllocInv
    PROVE  LET m == Clamp(setting.minLen)
           IN  /\ Upcoming \in seq + 1 .. Capacity(1) + 1
               /\ codeOf[Upcoming] \notin Reserved
               /\ \A n \in seq + 1 .. Upcoming - 1 : codeOf[n] \in Reserved
               /\ codeOf[Upcoming] = Code(setting.key, m, Upcoming)
               /\ Exhausted <=> Upcoming > Capacity(m)
<1> DEFINE m == Clamp(setting.minLen)
           top == Capacity(1) + 1
           Free == {n \in Nat : n \in seq + 1 .. top /\ codeOf[n] \notin Reserved}
           Next1(n) == codeOf[n] \notin Reserved /\ \A k \in seq + 1 .. n - 1 : codeOf[k] \in Reserved
<1>1. /\ Keys(setting.key) /\ m \in 1 .. MaxLen
      /\ \A n \in 1 .. top : codeOf[n] = Code(setting.key, m, n)
  BY SettingsAreKeyed DEF AllocInv
<1>2. Capacity(m) \in Nat /\ Capacity(1) \in Nat /\ Capacity(m) <= Capacity(1)
  BY <1>1, CapacityBounds
<1>3. seq \in Nat /\ seq + 1 \in 1 .. top /\ top \in Nat /\ top \in 1 .. top
  BY <1>2 DEF AllocInv
<1> HIDE DEF m
<1>4. \A n \in 1 .. top : codeOf[n] = NoCode <=> n > Capacity(m)
  <2>1. ASSUME NEW n \in 1 .. top PROVE codeOf[n] = NoCode <=> n > Capacity(m)
    <3>1. n \in Nat \ {0}
      BY <1>3
    <3> QED BY <3>1, <1>1, NoCodeIsPastCapacity
  <2> QED BY <2>1
<1>5. top \in Free
  <2>1. top > Capacity(m)
    BY <1>2
  <2> HIDE DEF top
  <2>2. codeOf[top] = NoCode
    BY <1>3, <1>4, <2>1
  <2>3. top \in seq + 1 .. top
    BY <1>3
  <2> QED BY <1>3, <2>2, <2>3, AllocationAssumption
<1> HIDE DEF top
<1>6. PICK n \in Free : \A k \in Free : n <= k
  <2>1. Free \subseteq Nat
    OBVIOUS
  <2> HIDE DEF Free
  <2> QED BY <1>5, <2>1, LeastNatural
<1>7. n \in seq + 1 .. top /\ Next1(n)
  <2>1. ASSUME NEW k \in seq + 1 .. n - 1 PROVE codeOf[k] \in Reserved
    <3>1. k \in Nat /\ k \in seq + 1 .. top /\ ~(n <= k)
      BY <1>3, <1>6
    <3> QED BY <1>6, <3>1
  <2> QED BY <1>6, <2>1
<1>8. Upcoming = CHOOSE k \in seq + 1 .. top : Next1(k)
  BY DEF Upcoming, top
<1>9. Upcoming \in seq + 1 .. top /\ Next1(Upcoming)
  <2> HIDE DEF Next1
  <2> QED BY <1>7, <1>8
<1>10. Upcoming \in 1 .. top
  BY <1>3, <1>9
<1> QED BY <1>1, <1>4, <1>9, <1>10 DEF m, top, Exhausted

\* The invariant is inductive.
LEMMA AllocInvHolds == Spec => []AllocInv
<1>1. Init => AllocInv
  <2>1. Capacity(1) \in Nat
    BY CodeAssumption, CapacityBounds
  <2> QED BY <2>1 DEF Init, AllocInv
<1>2. AllocInv /\ [Next]_codeVars => AllocInv'
  <2> SUFFICES ASSUME AllocInv, [Next]_codeVars PROVE AllocInv'
    OBVIOUS
  <2>1. Capacity(1) \in Nat
    BY CodeAssumption, CapacityBounds
  <2>2. CASE Allocate
    <3>1. Upcoming \in seq + 1 .. Capacity(1) + 1 /\ ~Exhausted
      BY <2>2, LoopEnds DEF Allocate
    <3> DEFINE m == Clamp(setting.minLen)
    <3>2. ~(Upcoming > Capacity(m))
      BY <3>1, LoopEnds
    <3>3. Capacity(m) \in Nat /\ Capacity(m) <= Capacity(1)
      BY SettingsAreKeyed, CapacityBounds DEF AllocInv
    <3> HIDE DEF m
    <3>4. Upcoming \in seq + 1 .. Capacity(1) /\ seq \in Nat
      BY <2>1, <3>1, <3>2, <3>3 DEF AllocInv
    <3>5. seq' = Upcoming /\ issued' = issued \cup {[seq |-> Upcoming, code |-> codeOf[Upcoming]]}
      BY <2>2 DEF Allocate
    <3>6. ASSUME NEW p \in issued' PROVE p.seq \in 1 .. seq'
      <4>1. CASE p \in issued
        <5>1. p.seq \in 1 .. seq
          BY <4>1 DEF AllocInv
        <5> QED BY <5>1, <3>4, <3>5
      <4>2. CASE p = [seq |-> Upcoming, code |-> codeOf[Upcoming]]
        <5>1. p.seq = Upcoming
          BY <4>2
        <5> QED BY <5>1, <3>4, <3>5
      <4> QED BY <3>5, <4>1, <4>2
    <3>7. seq' \in 0 .. Capacity(1)
      BY <2>1, <3>4, <3>5
    <3> QED BY <2>2, <3>6, <3>7 DEF AllocInv, Allocate
  <2>3. CASE Remove
    BY <2>3 DEF AllocInv, Remove
  <2>4. CASE Restart
    BY <2>4 DEF AllocInv, Restart
  <2>5. CASE UNCHANGED codeVars
    BY <2>5 DEF AllocInv, codeVars
  <2> QED BY <2>2, <2>3, <2>4, <2>5 DEF Next
<1> QED BY <1>1, <1>2, PTL DEF Spec

-----------------------------------------------------------------------------
(* No collision, as long as restarts keep the secret and never lower the   *)
(* minimum length: what .env.example asks for, and what the run of lowered *)
(* lengths shows is needed.                                                *)

RaisesOnly ==
    \A ch \in Changes :
        /\ ch[1].key = ch[2].key
        /\ Clamp(ch[1].minLen) <= Clamp(ch[2].minLen)

\* Every paste ever shared has the code that its number had in a ladder that started
\* no higher than this one.
LadderInv ==
    \A p \in issued :
        /\ p.code # NoCode
        /\ \E m \in 1 .. Clamp(setting.minLen) : p.code = Code(setting.key, m, p.seq)

LEMMA LadderInvHolds ==
    ASSUME RaisesOnly
    PROVE  Spec => []LadderInv
<1>1. Init => LadderInv
  BY DEF Init, LadderInv
<1>2. AllocInv /\ LadderInv /\ [Next]_codeVars => LadderInv'
  <2> SUFFICES ASSUME AllocInv, LadderInv, [Next]_codeVars PROVE LadderInv'
    OBVIOUS
  <2>1. CASE Allocate
    <3> DEFINE m == Clamp(setting.minLen)
               new == [seq |-> Upcoming, code |-> codeOf[Upcoming]]
    <3>1. m \in 1 .. MaxLen
      BY SettingsAreKeyed DEF AllocInv
    <3>2. codeOf[Upcoming] = Code(setting.key, m, Upcoming) /\ codeOf[Upcoming] # NoCode
      BY <2>1, LoopEnds DEF Allocate, Exhausted
    <3>3. new.code # NoCode /\ new.code = Code(setting.key, m, new.seq) /\ m \in 1 .. m
      <4>1. m \in 1 .. m
        BY <3>1, CodeAssumption
      <4> QED BY <3>2, <4>1
    <3>4. setting' = setting /\ issued' = issued \cup {new}
      BY <2>1 DEF Allocate
    <3> HIDE DEF new, m
    <3>5. ASSUME NEW p \in issued'
          PROVE  p.code # NoCode /\ \E k \in 1 .. m : p.code = Code(setting.key, k, p.seq)
      <4>1. CASE p \in issued
        BY <4>1 DEF LadderInv, m
      <4>2. CASE p = new
        BY <4>2, <3>3
      <4> QED BY <3>4, <4>1, <4>2
    <3> QED BY <3>4, <3>5 DEF LadderInv, m
  <2>2. CASE Remove
    BY <2>2 DEF LadderInv, Remove
  <2>3. CASE Restart
    <3>1. PICK g \in Settings : <<setting, g>> \in Changes /\ setting' = g
      BY <2>3 DEF Restart
    <3>2. setting.key = g.key /\ Clamp(setting.minLen) <= Clamp(g.minLen)
      <4>1. <<setting, g>>[1] = setting /\ <<setting, g>>[2] = g
        OBVIOUS
      <4> QED BY <3>1, <4>1, RaisesOnly DEF RaisesOnly
    <3>3. Clamp(setting.minLen) \in Nat /\ Clamp(g.minLen) \in Nat
      <4>1. Clamp(setting.minLen) \in 1 .. MaxLen /\ Clamp(g.minLen) \in 1 .. MaxLen
        BY SettingsAreKeyed DEF AllocInv
      <4> QED BY <4>1, CodeAssumption
    <3>4. \A m \in 1 .. Clamp(setting.minLen) : m \in 1 .. Clamp(g.minLen)
      BY <3>2, <3>3
    <3>5. issued' = issued
      BY <2>3 DEF Restart
    <3> QED BY <3>1, <3>2, <3>4, <3>5 DEF LadderInv
  <2>4. CASE UNCHANGED codeVars
    BY <2>4 DEF LadderInv, codeVars
  <2> QED BY <2>1, <2>2, <2>3, <2>4 DEF Next
<1> QED BY <1>1, <1>2, AllocInvHolds, PTL DEF Spec

\* The code of the next Create was never given out (slug.go:3-4, store.go:436-470),
\* whatever alphabet, lengths, route names, secret and round function, through any
\* number of restarts that keep the secret and never lower the minimum length.
THEOREM NoCodeIsSharedTwice ==
    ASSUME RaisesOnly
    PROVE  Spec => []CodesNeverCollide
<1>1. AllocInv /\ LadderInv => CodesNeverCollide
  <2> SUFFICES ASSUME AllocInv, LadderInv, NEW p \in issued
               PROVE  codeOf[Upcoming] # p.code
    BY DEF CodesNeverCollide, CodesOf
  <2> DEFINE m2 == Clamp(setting.minLen)
  <2>1. Keys(setting.key) /\ m2 \in 1 .. MaxLen
    BY SettingsAreKeyed DEF AllocInv
  <2>2. PICK m1 \in 1 .. m2 : p.code = Code(setting.key, m1, p.seq)
    BY DEF LadderInv
  <2>3. p.code # NoCode
    BY DEF LadderInv
  <2>4. codeOf[Upcoming] = Code(setting.key, m2, Upcoming)
    BY LoopEnds
  <2> HIDE DEF m2
  <2>5. m1 \in 1 .. MaxLen /\ m1 <= m2
    BY <2>1, <2>2, CodeAssumption
  <2>6. p.seq \in Nat \ {0} /\ Upcoming \in Nat \ {0} /\ p.seq < Upcoming
    <3>1. p.seq \in 1 .. seq /\ seq \in 0 .. Capacity(1)
      BY DEF AllocInv
    <3>2. Upcoming \in seq + 1 .. Capacity(1) + 1
      BY LoopEnds
    <3> QED BY <3>1, <3>2
  <2>7. Code(setting.key, m1, p.seq) # Code(setting.key, m2, Upcoming)
    BY <2>1, <2>2, <2>3, <2>5, <2>6, LaterCodesDiffer
  <2> QED BY <2>2, <2>4, <2>7
<1> QED BY <1>1, AllocInvHolds, LadderInvHolds, PTL

-----------------------------------------------------------------------------
(* No waste and no early growth, under one setting.                        *)

\* Before any restart, the pastes are those of the numbers so far whose codes are no
\* routes.
FirstLifeInv ==
    restarts = 0 =>
        /\ seq <= Capacity(Clamp(setting.minLen))
        /\ \A p \in issued : p.code = codeOf[p.seq] /\ p.code \notin Reserved
        /\ \A n \in 1 .. seq : codeOf[n] \in CodesOf(issued) \cup Reserved

LEMMA FirstLifeInvHolds == Spec => []FirstLifeInv
<1>1. Init => FirstLifeInv
  <2> SUFFICES ASSUME Init PROVE FirstLifeInv
    OBVIOUS
  <2>1. Capacity(Clamp(setting.minLen)) \in Nat
    BY SettingsAreKeyed, CapacityBounds DEF Init
  <2> QED BY <2>1 DEF Init, FirstLifeInv
<1>2. AllocInv /\ FirstLifeInv /\ [Next]_codeVars => FirstLifeInv'
  <2> SUFFICES ASSUME AllocInv, FirstLifeInv, [Next]_codeVars PROVE FirstLifeInv'
    OBVIOUS
  <2>1. CASE Allocate
    <3> SUFFICES ASSUME restarts' = 0
                 PROVE  /\ seq' <= Capacity(Clamp(setting.minLen))'
                        /\ \A p \in issued' : p.code = codeOf'[p.seq] /\ p.code \notin Reserved
                        /\ \A n \in 1 .. seq' : codeOf'[n] \in CodesOf(issued)' \cup Reserved
      BY DEF FirstLifeInv
    <3> DEFINE m == Clamp(setting.minLen)
               new == [seq |-> Upcoming, code |-> codeOf[Upcoming]]
    <3>1. restarts = 0 /\ setting' = setting /\ codeOf' = codeOf /\ seq' = Upcoming
          /\ issued' = issued \cup {new} /\ ~Exhausted
      BY <2>1 DEF Allocate
    <3>2. /\ Upcoming \in seq + 1 .. Capacity(1) + 1
          /\ codeOf[Upcoming] \notin Reserved
          /\ \A n \in seq + 1 .. Upcoming - 1 : codeOf[n] \in Reserved
          /\ ~(Upcoming > Capacity(m))
      BY <3>1, LoopEnds
    <3>3. Capacity(m) \in Nat /\ seq \in Nat /\ Upcoming \in Nat
      <4>1. Capacity(m) \in Nat /\ Capacity(1) \in Nat
        BY SettingsAreKeyed, CapacityBounds DEF AllocInv
      <4>2. seq \in Nat
        BY <4>1 DEF AllocInv
      <4> QED BY <4>1, <4>2, <3>2
    <3> HIDE DEF m
    <3>4. Upcoming <= Capacity(m)
      BY <3>2, <3>3
    <3>5. new.seq = Upcoming /\ new.code = codeOf[Upcoming]
      OBVIOUS
    <3> HIDE DEF new
    <3>6. \A p \in issued' : p.code = codeOf[p.seq] /\ p.code \notin Reserved
      BY <3>1, <3>2, <3>5 DEF FirstLifeInv
    <3>7. ASSUME NEW n \in 1 .. Upcoming
          PROVE  codeOf[n] \in CodesOf(issued') \cup Reserved
      <4>1. CASE n \in 1 .. seq
        BY <4>1, <3>1 DEF FirstLifeInv, CodesOf
      <4>2. CASE n \in seq + 1 .. Upcoming - 1
        BY <4>2, <3>2
      <4>3. CASE n = Upcoming
        BY <4>3, <3>1, <3>5 DEF CodesOf
      <4>4. n \in 1 .. seq \/ n \in seq + 1 .. Upcoming - 1 \/ n = Upcoming
        BY <3>3
      <4> QED BY <4>1, <4>2, <4>3, <4>4
    <3>8. CodesOf(issued)' = CodesOf(issued')
      BY DEF CodesOf
    <3> QED BY <3>1, <3>4, <3>6, <3>7, <3>8 DEF m
  <2>2. CASE Remove
    BY <2>2 DEF FirstLifeInv, Remove, CodesOf
  <2>3. CASE Restart
    <3>1. restarts' = restarts + 1 /\ restarts \in Nat
      BY <2>3 DEF Restart, AllocInv
    <3>2. restarts' # 0
      BY <3>1
    <3> QED BY <3>2 DEF FirstLifeInv
  <2>4. CASE UNCHANGED codeVars
    BY <2>4 DEF FirstLifeInv, codeVars, CodesOf
  <2> QED BY <2>1, <2>2, <2>3, <2>4 DEF Next
<1> QED BY <1>1, <1>2, AllocInvHolds, PTL DEF Spec

\* In the first life the generator's table is Code's, and every word it may use is in it.
LEMMA TableOfCodes ==
    ASSUME AllocInv
    PROVE  LET m == Clamp(setting.minLen)
           IN  /\ Keys(setting.key) /\ m \in 1 .. MaxLen /\ m \in Nat
               /\ Capacity(m) \in Nat /\ Capacity(1) \in Nat /\ Capacity(m) <= Capacity(1)
               /\ \A n \in 1 .. Capacity(1) + 1 : codeOf[n] = Code(setting.key, m, n)
               /\ \A c \in ValidCodes : Len(c) >= m =>
                    \E n \in 1 .. Capacity(m) : Falls(m, n, Len(c)) /\ codeOf[n] = c
<1> DEFINE m == Clamp(setting.minLen)
<1>1. Keys(setting.key) /\ m \in 1 .. MaxLen /\ m \in Nat
  BY SettingsAreKeyed, CodeAssumption DEF AllocInv
<1>2. Capacity(m) \in Nat /\ Capacity(1) \in Nat /\ Capacity(m) <= Capacity(1)
  BY <1>1, CapacityBounds
<1>3. \A n \in 1 .. Capacity(1) + 1 : codeOf[n] = Code(setting.key, m, n)
  BY SettingsAreKeyed DEF AllocInv
<1> HIDE DEF m
<1>4. ASSUME NEW c \in ValidCodes, Len(c) >= m
      PROVE  \E n \in 1 .. Capacity(m) : Falls(m, n, Len(c)) /\ codeOf[n] = c
  <2>1. c \in Seq(Letters) /\ Len(c) \in 1 .. MaxLen
    BY ValidCodesAreWords
  <2>2. Len(c) \in m .. MaxLen
    BY <1>1, <1>4, <2>1, CodeAssumption
  <2>3. PICK n \in Nat \ {0} : Falls(m, n, Len(c)) /\ Code(setting.key, m, n) = c
    BY <1>1, <2>1, <2>2, EveryWordIsACode
  <2>4. n <= Capacity(m)
    BY <1>1, <2>3, CodeWalk
  <2>5. n \in 1 .. Capacity(m) /\ n \in 1 .. Capacity(1) + 1
    BY <1>2, <2>4
  <2> QED BY <1>3, <2>3, <2>5
<1> QED BY <1>1, <1>2, <1>3, <1>4 DEF m

\* When the codes of a setting run out, every word it may use has been given out or is
\* a route, and the counter stands where Capacity says (slug.go:10-13, 123-133).
THEOREM EveryCodeIsUsed == Spec => []NoCodeIsWasted
<1>1. AllocInv /\ FirstLifeInv => NoCodeIsWasted
  <2> DEFINE m == Clamp(setting.minLen)
             words == {c \in ValidCodes : Len(c) >= m}
  <2> SUFFICES ASSUME AllocInv, FirstLifeInv, restarts = 0, Exhausted
               PROVE  CodesOf(issued) = words \ Reserved /\ Upcoming = Capacity(m) + 1
    BY DEF NoCodeIsWasted
  <2>1. /\ Keys(setting.key) /\ m \in 1 .. MaxLen /\ m \in Nat
        /\ Capacity(m) \in Nat /\ Capacity(1) \in Nat /\ Capacity(m) <= Capacity(1)
        /\ \A n \in 1 .. Capacity(1) + 1 : codeOf[n] = Code(setting.key, m, n)
        /\ \A c \in ValidCodes : Len(c) >= m =>
             \E n \in 1 .. Capacity(m) : codeOf[n] = c
    BY TableOfCodes
  <2>2. /\ Upcoming \in seq + 1 .. Capacity(1) + 1
        /\ \A n \in seq + 1 .. Upcoming - 1 : codeOf[n] \in Reserved
        /\ Upcoming > Capacity(m)
    BY LoopEnds
  <2>3. seq \in Nat /\ seq <= Capacity(m)
    BY <2>1 DEF AllocInv, FirstLifeInv
  <2>4. \A p \in issued : p.seq \in 1 .. seq /\ p.code = codeOf[p.seq] /\ p.code \notin Reserved
    BY DEF AllocInv, FirstLifeInv
  <2>5. \A n \in 1 .. seq : codeOf[n] \in CodesOf(issued) \cup Reserved
    BY DEF FirstLifeInv
  <2> HIDE DEF m
  <2>6. Upcoming = Capacity(m) + 1
    <3> DEFINE n == Capacity(m) + 1
    <3>1. n \in Nat \ {0} /\ n > Capacity(m) /\ n \in 1 .. Capacity(1) + 1
      BY <2>1
    <3>2. codeOf[n] = NoCode
      <4> HIDE DEF n
      <4> QED BY <2>1, <3>1, NoCodeIsPastCapacity
    <3>3. codeOf[n] \notin Reserved
      BY <3>2, AllocationAssumption
    <3>4. n \notin seq + 1 .. Upcoming - 1
      BY <2>2, <3>3
    <3>5. Upcoming \in Nat /\ n >= seq + 1
      BY <2>1, <2>2, <2>3
    <3> QED BY <2>1, <2>2, <2>3, <3>1, <3>4, <3>5
  <2>7. ASSUME NEW p \in issued PROVE p.code \in words \ Reserved
    <3>1. p.seq \in Nat \ {0} /\ p.seq <= Capacity(m) /\ p.seq \in 1 .. Capacity(1) + 1
      BY <2>1, <2>3, <2>4
    <3>2. p.code = Code(setting.key, m, p.seq)
      BY <2>1, <2>4, <3>1
    <3>3. PICK t : Falls(m, p.seq, t)
      BY <2>1, <3>1, CodeWalk
    <3>4. p.code \in Seq(Letters) /\ Len(p.code) = t /\ t \in 1 .. MaxLen
      BY <2>1, <3>1, <3>2, <3>3, CodeShape
    <3>5. t >= m
      BY <2>1, <3>3, CodeAssumption DEF Falls
    <3>6. p.code \in ValidCodes
      BY <3>4, ValidCodesAreWords
    <3> QED BY <2>4, <3>4, <3>5, <3>6
  <2>8. ASSUME NEW c \in words \ Reserved PROVE c \in CodesOf(issued)
    <3>1. PICK n \in 1 .. Capacity(m) : codeOf[n] = c
      BY <2>1
    <3>2. CASE n <= seq
      <4>1. n \in 1 .. seq
        BY <2>3, <3>2
      <4> QED BY <2>5, <3>1, <4>1
    <3>3. CASE n > seq
      <4>1. n \in seq + 1 .. Upcoming - 1
        BY <2>1, <2>3, <2>6, <3>3
      <4> QED BY <2>2, <3>1, <4>1
    <3> QED BY <2>1, <2>3, <3>2, <3>3
  <2> QED BY <2>6, <2>7, <2>8 DEF CodesOf
<1> QED BY <1>1, AllocInvHolds, FirstLifeInvHolds, PTL

\* No paste gets a longer code while a shorter one that the setting allows is neither
\* given out nor a route (slug.go:4-5).
THEOREM ShortCodesFirst == Spec => []LengthGrowsOnlyWhenFull
<1>1. AllocInv /\ FirstLifeInv => LengthGrowsOnlyWhenFull
  <2> DEFINE m == Clamp(setting.minLen)
  <2> SUFFICES ASSUME AllocInv, FirstLifeInv, restarts = 0,
                      NEW p \in issued, NEW c \in ValidCodes, Len(c) >= m, Len(c) < Len(p.code)
               PROVE  c \in CodesOf(issued) \cup Reserved
    BY DEF LengthGrowsOnlyWhenFull
  <2>1. /\ Keys(setting.key) /\ m \in 1 .. MaxLen /\ m \in Nat
        /\ Capacity(m) \in Nat /\ Capacity(1) \in Nat /\ Capacity(m) <= Capacity(1)
        /\ \A n \in 1 .. Capacity(1) + 1 : codeOf[n] = Code(setting.key, m, n)
        /\ \A d \in ValidCodes : Len(d) >= m =>
             \E n \in 1 .. Capacity(m) : Falls(m, n, Len(d)) /\ codeOf[n] = d
    BY TableOfCodes
  <2>2. seq \in Nat /\ seq <= Capacity(m)
    BY <2>1 DEF AllocInv, FirstLifeInv
  <2>3. p.seq \in 1 .. seq /\ p.code = codeOf[p.seq]
    BY DEF AllocInv, FirstLifeInv
  <2> HIDE DEF m
  <2>4. p.seq \in Nat \ {0} /\ p.seq <= Capacity(m) /\ p.code = Code(setting.key, m, p.seq)
    <3>1. p.seq \in Nat \ {0} /\ p.seq <= Capacity(m) /\ p.seq \in 1 .. Capacity(1) + 1
      BY <2>1, <2>2, <2>3
    <3> QED BY <2>1, <2>3, <3>1
  <2>5. PICK t : Falls(m, p.seq, t)
    BY <2>1, <2>4, CodeWalk
  <2>6. Len(p.code) = t /\ t \in 1 .. MaxLen
    BY <2>1, <2>4, <2>5, CodeShape
  <2>7. PICK n \in 1 .. Capacity(m) : Falls(m, n, Len(c)) /\ codeOf[n] = c
    BY <2>1
  <2> DEFINE l == Len(c)
  <2>8. l \in 1 .. MaxLen /\ l < t
    BY <2>6, ValidCodesAreWords
  <2>9. Falls(m, n, l)
    BY <2>7
  <2> HIDE DEF l
  <2>10. l \in Nat /\ t \in Nat /\ l + 1 \in Nat /\ l + 1 <= t
    BY <2>6, <2>8, CodeAssumption
  <2>11. n <= CodesBelow(m, l + 1) /\ CodesBelow(m, t) < p.seq
    BY <2>5, <2>9 DEF Falls
  <2>12. /\ CodesBelow(m, l + 1) <= CodesBelow(m, t)
         /\ CodesBelow(m, l + 1) \in Nat /\ CodesBelow(m, t) \in Nat
    BY <2>1, <2>10, Ladder, LadderRises
  <2>13. n \in 1 .. seq
    BY <2>1, <2>2, <2>3, <2>7, <2>11, <2>12
  <2> QED BY <2>7, <2>13 DEF FirstLifeInv
<1> QED BY <1>1, AllocInvHolds, FirstLifeInvHolds, PTL

=============================================================================
