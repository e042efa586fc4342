------------------------- MODULE CompactRangeProofs -------------------------
(***************************************************************************)
(* Compact ranges and the tree hash of RFC 6962, for every number of       *)
(* leaves: what an append keeps and visits, and the root of a range.       *)
(*                                                                         *)
(* A function f that recurs on a number is CHOOSE g : g = [... g ...], so  *)
(* each has a lemma that some g exists (by induction over the sets of      *)
(* numbers up to which it does, from their least exception) and one that   *)
(* unfolds f.                                                              *)
(***************************************************************************)
EXTENDS CompactRange, WellFoundedInduction, SequenceTheorems, TLAPS

(* A set of naturals that is not empty has a least element. *)
LEMMA LeastNatural ==
    ASSUME NEW T \in SUBSET Nat, T # {}
    PROVE  \E x \in T : \A y \in T : x <= y
<1>1. PICK x \in T : \A y \in T : ~ (<<y, x>> \in OpToRel(<, Nat))
  BY NatLessThanWellFounded, WFMin, Zenon
<1>2. \A y \in T : ~ (y < x)
  BY <1>1, Zenon DEF OpToRel
<1> QED  BY <1>2

(* Induction over the naturals, for the members of a set. *)
LEMMA Induction ==
    ASSUME NEW S, 0 \in S, \A n \in Nat : n \in S => n + 1 \in S
    PROVE  Nat \subseteq S
<1> SUFFICES ASSUME Nat \ S # {} PROVE FALSE
  BY Zenon
<1>1. PICK x \in Nat \ S : \A y \in Nat \ S : x <= y
  BY LeastNatural, Zenon
<1>2. x # 0 /\ x - 1 \in Nat
  BY <1>1
<1>3. x - 1 \in S
  BY <1>1, <1>2
<1>4. (x - 1) + 1 \in S
  BY <1>2, <1>3
<1> QED  BY <1>1, <1>4

LEMMA StrongInduction ==
    ASSUME NEW S, \A n \in Nat : (\A m \in Nat : m < n => m \in S) => n \in S
    PROVE  Nat \subseteq S
<1> SUFFICES ASSUME Nat \ S # {} PROVE FALSE
  BY Zenon
<1>1. PICK x \in Nat \ S : \A y \in Nat \ S : x <= y
  BY LeastNatural, Zenon
<1>2. \A m \in Nat : m < x => m \in S
  BY <1>1
<1> QED  BY <1>1, <1>2
-----------------------------------------------------------------------------
(* Powers of two. *)

IsPow(f, n) == f = [k \in 0..n |-> IF k = 0 THEN 1 ELSE 2 * f[k - 1]]

LEMMA PowPrefix == \A n \in Nat : \E f : IsPow(f, n)
<1> DEFINE S == {n \in Nat : \E f : IsPow(f, n)}
<1>1. 0 \in S
  <2> DEFINE f == [k \in 0..0 |-> 1]
  <2>1. f = [k \in 0..0 |-> IF k = 0 THEN 1 ELSE 2 * f[k - 1]]
    OBVIOUS
  <2> QED  BY <2>1, Zenon DEF IsPow
<1>2. ASSUME NEW n \in Nat, n \in S PROVE n + 1 \in S
  <2>1. PICK f : IsPow(f, n)
    BY <1>2
  <2> DEFINE g == [k \in 0..(n + 1) |-> IF k = n + 1 THEN 2 * f[n] ELSE f[k]]
  <2>2. \A k \in 0..n : g[k] = f[k]
    OBVIOUS
  <2>3. ASSUME NEW k \in 0..(n + 1) PROVE g[k] = IF k = 0 THEN 1 ELSE 2 * g[k - 1]
    <3>1. CASE k = n + 1
      BY <3>1, <2>2
    <3>2. CASE k \in 0..n
      BY <3>2, <2>1, <2>2 DEF IsPow
    <3> QED  BY <3>1, <3>2
  <2>4. g = [k \in 0..(n + 1) |-> IF k = 0 THEN 1 ELSE 2 * g[k - 1]]
    BY <2>3
  <2>5. IsPow(g, n + 1)
    BY <2>4, Zenon DEF IsPow
  <2> QED  BY <2>5
<1> HIDE DEF S
<1>3. Nat \subseteq S
  BY <1>1, <1>2, Induction
<1> QED  BY <1>3 DEF S

LEMMA PowUnique ==
    ASSUME NEW n \in Nat, NEW m \in Nat, n <= m, NEW f, NEW g, IsPow(f, n), IsPow(g, m)
    PROVE  \A k \in 0..n : f[k] = g[k]
<1> DEFINE S == {k \in Nat : k <= n => f[k] = g[k]}
<1>1. 0 \in S
  BY DEF IsPow
<1>2. ASSUME NEW k \in Nat, k \in S PROVE k + 1 \in S
  <2> SUFFICES ASSUME k + 1 <= n PROVE f[k + 1] = g[k + 1]
    OBVIOUS
  <2>1. f[k] = g[k] /\ k + 1 \in 0..n /\ k + 1 \in 0..m
    BY <1>2
  <2>2. f[k + 1] = 2 * f[k] /\ g[k + 1] = 2 * g[k]
    BY <2>1 DEF IsPow
  <2> QED  BY <2>1, <2>2
<1> HIDE DEF S
<1>3. Nat \subseteq S
  BY <1>1, <1>2, Induction
<1> QED  BY <1>3 DEF S

LEMMA PowDef == Pow2 = [k \in Nat |-> IF k = 0 THEN 1 ELSE 2 * Pow2[k - 1]]
<1> DEFINE F(n) == CHOOSE f : IsPow(f, n)
           g == [k \in Nat |-> F(k)[k]]
<1>1. \A n \in Nat : IsPow(F(n), n)
  BY PowPrefix
<1> HIDE DEF F
<1>2. ASSUME NEW k \in Nat PROVE g[k] = IF k = 0 THEN 1 ELSE 2 * g[k - 1]
  <2>1. CASE k = 0
    BY <2>1, <1>1 DEF IsPow
  <2>2. CASE k # 0
    <3>1. k - 1 \in Nat /\ k - 1 <= k /\ k - 1 \in 0..(k - 1)
      BY <2>2
    <3>2. F(k)[k] = 2 * F(k)[k - 1]
      BY <1>1, <2>2 DEF IsPow
    <3>3. F(k - 1)[k - 1] = F(k)[k - 1]
      BY <3>1, <1>1, PowUnique
    <3> QED  BY <3>1, <3>2, <3>3, <2>2
  <2> QED  BY <2>1, <2>2
<1>3. g = [k \in Nat |-> IF k = 0 THEN 1 ELSE 2 * g[k - 1]]
  BY <1>2
<1> HIDE DEF g
<1> QED  BY <1>3 DEF Pow2

LEMMA PowZero == Pow2[0] = 1
BY PowDef

LEMMA PowNext == ASSUME NEW k \in Nat PROVE Pow2[k + 1] = 2 * Pow2[k]
BY PowDef

LEMMA PowNat == \A k \in Nat : Pow2[k] \in Nat /\ Pow2[k] >= k + 1
<1> DEFINE S == {k \in Nat : Pow2[k] \in Nat /\ Pow2[k] >= k + 1}
<1>1. 0 \in S
  BY PowZero
<1>2. ASSUME NEW k \in Nat, k \in S PROVE k + 1 \in S
  BY <1>2, PowNext
<1> HIDE DEF S
<1>3. Nat \subseteq S
  BY <1>1, <1>2, Induction
<1> QED  BY <1>3 DEF S

LEMMA PowSum ==
    ASSUME NEW a \in Nat, NEW b \in Nat
    PROVE  Pow2[a + b] = Pow2[a] * Pow2[b]
<1> DEFINE S == {n \in Nat : Pow2[a + n] = Pow2[a] * Pow2[n]}
<1>1. 0 \in S
  BY PowZero, PowNat
<1>2. ASSUME NEW n \in Nat, n \in S PROVE n + 1 \in S
  <2>1. Pow2[a + (n + 1)] = 2 * Pow2[a + n] /\ Pow2[n + 1] = 2 * Pow2[n]
    <3>1. a + n \in Nat /\ a + (n + 1) = (a + n) + 1
      OBVIOUS
    <3> QED  BY <3>1, PowNext
  <2>2. ASSUME NEW p \in Nat, NEW q \in Nat PROVE 2 * (p * q) = p * (2 * q)
    OBVIOUS
  <2>3. Pow2[a + n] = Pow2[a] * Pow2[n] /\ Pow2[a] \in Nat /\ Pow2[n] \in Nat
    BY <1>2, PowNat
  <2>4. Pow2[a + (n + 1)] = Pow2[a] * Pow2[n + 1]
    BY <2>1, <2>2, <2>3
  <2> QED  BY <2>4
<1> HIDE DEF S
<1>3. b \in S
  BY <1>1, <1>2, Induction
<1> QED  BY <1>3 DEF S
-----------------------------------------------------------------------------
(* Multiples of powers of two. *)

Aligned(k, b) == \E q \in Nat : b = q * Pow2[k]

LEMMA ProductNat ==
    ASSUME NEW a \in Nat, NEW b \in Nat
    PROVE  a * b \in Nat
OBVIOUS

LEMMA DivFacts ==
    ASSUME NEW b \in Nat, NEW d \in Nat, d > 0
    PROVE  /\ b \div d \in Nat /\ b % d \in 0..(d - 1)
           /\ b = (b \div d) * d + (b % d)
OBVIOUS

LEMMA DivExact ==
    ASSUME NEW q \in Nat, NEW d \in Nat, d > 0
    PROVE  (q * d) \div d = q /\ (q * d) % d = 0
OBVIOUS

LEMMA DivLast ==
    ASSUME NEW p \in Nat, NEW d \in Nat, d > 0
    PROVE  (p * d + (d - 1)) \div d = p
OBVIOUS

LEMMA AlignedDiv ==
    ASSUME NEW k \in Nat, NEW b \in Nat
    PROVE  b % Pow2[k] = 0 <=> Aligned(k, b)
<1>1. Pow2[k] \in Nat /\ Pow2[k] > 0
  BY PowNat
<1>2. ASSUME b % Pow2[k] = 0 PROVE Aligned(k, b)
  <2>1. b = (b \div Pow2[k]) * Pow2[k] /\ b \div Pow2[k] \in Nat
    BY <1>1, <1>2, DivFacts
  <2> QED  BY <2>1, Zenon DEF Aligned
<1>3. ASSUME Aligned(k, b) PROVE b % Pow2[k] = 0
  BY <1>1, <1>3, DivExact DEF Aligned
<1> QED  BY <1>2, <1>3

LEMMA AlignedNat ==
    ASSUME NEW k \in Nat, NEW b, Aligned(k, b)
    PROVE  b \in Nat
BY PowNat, ProductNat DEF Aligned

LEMMA AlignedZero == ASSUME NEW k \in Nat PROVE Aligned(k, 0)
<1>1. 0 = 0 * Pow2[k]
  BY PowNat
<1> QED  BY <1>1, Zenon DEF Aligned

LEMMA AlignedHalf ==
    ASSUME NEW k \in Nat, NEW b, Aligned(k + 1, b)
    PROVE  Aligned(k, b)
<1>1. PICK q \in Nat : b = q * Pow2[k + 1]
  BY Zenon DEF Aligned
<1>2. q * (2 * Pow2[k]) = (2 * q) * Pow2[k] /\ 2 * q \in Nat
  BY PowNat
<1>3. b = (2 * q) * Pow2[k]
  BY <1>1, <1>2, PowNext
<1> QED  BY <1>2, <1>3, Zenon DEF Aligned

LEMMA AlignedBelow ==
    ASSUME NEW k \in Nat, NEW j \in Nat, j <= k, NEW b, Aligned(k, b)
    PROVE  Aligned(j, b)
<1> DEFINE S == {d \in Nat : d <= k => Aligned(k - d, b)}
<1>1. 0 \in S
  OBVIOUS
<1>2. ASSUME NEW d \in Nat, d \in S PROVE d + 1 \in S
  <2> SUFFICES ASSUME d + 1 <= k PROVE Aligned(k - (d + 1), b)
    OBVIOUS
  <2>1. k - (d + 1) \in Nat /\ (k - (d + 1)) + 1 = k - d
    OBVIOUS
  <2>2. Aligned(k - d, b)
    BY <1>2
  <2> QED  BY <2>1, <2>2, AlignedHalf
<1>3. k - j \in S
  <2> HIDE DEF S
  <2> QED  BY <1>1, <1>2, Induction
<1> QED  BY <1>3

LEMMA AlignedSum ==
    ASSUME NEW k \in Nat, NEW a, NEW b, Aligned(k, a), Aligned(k, b)
    PROVE  Aligned(k, a + b)
<1>1. PICK p \in Nat : a = p * Pow2[k]
  BY Zenon DEF Aligned
<1>2. PICK q \in Nat : b = q * Pow2[k]
  BY Zenon DEF Aligned
<1>3. a + b = (p + q) * Pow2[k] /\ p + q \in Nat
  BY <1>1, <1>2, PowNat
<1> QED  BY <1>3, Zenon DEF Aligned

LEMMA AlignedDiff ==
    ASSUME NEW k \in Nat, NEW a, NEW b, Aligned(k, a), Aligned(k, b), b <= a
    PROVE  Aligned(k, a - b)
<1>1. PICK p \in Nat : a = p * Pow2[k]
  BY Zenon DEF Aligned
<1>2. PICK q \in Nat : b = q * Pow2[k]
  BY Zenon DEF Aligned
<1>3. q <= p
  BY <1>1, <1>2, PowNat
<1>4. a - b = (p - q) * Pow2[k] /\ p - q \in Nat
  BY <1>1, <1>2, <1>3, PowNat
<1> QED  BY <1>4, Zenon DEF Aligned

(* A positive multiple is at least the power itself. *)
LEMMA AlignedGap ==
    ASSUME NEW k \in Nat, NEW a, NEW b, Aligned(k, a), Aligned(k, b), a < b
    PROVE  a + Pow2[k] <= b
<1>1. PICK p \in Nat : a = p * Pow2[k]
  BY Zenon DEF Aligned
<1>2. PICK q \in Nat : b = q * Pow2[k]
  BY Zenon DEF Aligned
<1>3. p < q
  <2>1. ASSUME NEW w \in Nat, p * w < q * w PROVE p < q
    BY <2>1
  <2>2. Pow2[k] \in Nat /\ p * Pow2[k] < q * Pow2[k]
    BY <1>1, <1>2, PowNat
  <2> QED  BY <2>1, <2>2
<1>4. (p + 1) * Pow2[k] <= q * Pow2[k]
  <2> DEFINE d == q - (p + 1)
  <2>1. d \in Nat /\ q = (p + 1) + d
    BY <1>3
  <2> HIDE DEF d
  <2>2. Pow2[k] \in Nat
    BY PowNat
  <2>3. q * Pow2[k] = (p + 1) * Pow2[k] + d * Pow2[k]
    <3>1. ASSUME NEW w \in Nat PROVE ((p + 1) + d) * w = (p + 1) * w + d * w
      BY <2>1
    <3>2. q * Pow2[k] = ((p + 1) + d) * Pow2[k]
      BY <2>1, Zenon
    <3> QED  BY <2>2, <3>1, <3>2
  <2>4. d * Pow2[k] \in Nat /\ (p + 1) * Pow2[k] \in Nat
    BY <2>1, <2>2, ProductNat
  <2> QED  BY <2>3, <2>4
<1>5. (p + 1) * Pow2[k] = p * Pow2[k] + Pow2[k]
  BY PowNat
<1>6. Pow2[k] \in Nat /\ p * Pow2[k] \in Nat /\ q * Pow2[k] \in Nat
  BY PowNat, ProductNat
<1> QED  BY <1>1, <1>2, <1>4, <1>5, <1>6

(* Of two neighbours, one is a multiple of twice the power. *)
LEMMA AlignedNeighbour ==
    ASSUME NEW k \in Nat, NEW b, Aligned(k, b), ~ Aligned(k + 1, b)
    PROVE  /\ Aligned(k + 1, b + Pow2[k])
           /\ b >= Pow2[k] /\ Aligned(k + 1, b - Pow2[k])
<1>1. PICK q \in Nat : b = q * Pow2[k]
  BY Zenon DEF Aligned
<1>2. Pow2[k] \in Nat /\ Pow2[k + 1] = 2 * Pow2[k]
  BY PowNat, PowNext
<1>3. CASE \E p \in Nat : q = 2 * p
  <2>1. PICK p \in Nat : q = 2 * p
    BY <1>3
  <2>2. b = p * Pow2[k + 1]
    BY <1>1, <1>2, <2>1
  <2> QED  BY <2>2, Zenon DEF Aligned
<1>4. CASE \E p \in Nat : q = 2 * p + 1
  <2>1. PICK p \in Nat : q = 2 * p + 1
    BY <1>4
  <2>2. b - Pow2[k] = p * Pow2[k + 1] /\ b + Pow2[k] = (p + 1) * Pow2[k + 1] /\ p + 1 \in Nat
    BY SMTT(30), <1>1, <1>2, <2>1
  <2>3. Aligned(k + 1, b - Pow2[k]) /\ Aligned(k + 1, b + Pow2[k])
    BY <2>2, Zenon DEF Aligned
  <2>4. b >= Pow2[k]
    BY <2>3, <1>1, <1>2, AlignedNat, ProductNat
  <2> QED  BY <2>3, <2>4
<1> QED
  <2>1. q = 2 * (q \div 2) \/ q = 2 * (q \div 2) + 1
    OBVIOUS
  <2>2. q \div 2 \in Nat
    OBVIOUS
  <2> QED  BY <1>3, <1>4, <2>1, <2>2

LEMMA PowAligned ==
    ASSUME NEW k \in Nat, NEW j \in Nat, j <= k
    PROVE  Aligned(j, Pow2[k]) /\ Pow2[j] <= Pow2[k]
<1>1. Pow2[k] = 1 * Pow2[k]
  BY PowNat
<1>2. Aligned(k, Pow2[k])
  BY <1>1, Zenon DEF Aligned
<1>3. Aligned(j, Pow2[k])
  BY <1>2, AlignedBelow
<1>4. Aligned(j, 0) /\ 0 < Pow2[k]
  BY AlignedZero, PowNat
<1>5. 0 + Pow2[j] <= Pow2[k]
  BY <1>3, <1>4, AlignedGap
<1> QED  BY <1>3, <1>5, PowNat

(* FitLevel is the one level that fits and whose successor does not. *)
LEMMA FitLevelIs ==
    ASSUME NEW b \in Nat, NEW e \in Nat, NEW k \in Nat, Aligned(k, b), b + Pow2[k] <= e,
           ~ (Aligned(k + 1, b) /\ b + Pow2[k + 1] <= e)
    PROVE  FitLevel(b, e) = k
<1> DEFINE Fits(j) == /\ b % Pow2[j] = 0 /\ b + Pow2[j] <= e
                      /\ b % Pow2[j + 1] # 0 \/ b + Pow2[j + 1] > e
<1>1. \A j \in Nat : Fits(j) <=> /\ Aligned(j, b) /\ b + Pow2[j] <= e
                                 /\ ~ (Aligned(j + 1, b) /\ b + Pow2[j + 1] <= e)
  <2> TAKE j \in Nat
  <2>1. j + 1 \in Nat /\ Pow2[j + 1] \in Nat
    BY PowNat
  <2>2. (b % Pow2[j] = 0 <=> Aligned(j, b)) /\ (b % Pow2[j + 1] = 0 <=> Aligned(j + 1, b))
    BY <2>1, AlignedDiv
  <2> QED  BY <2>1, <2>2
<1>2. k \in 0..e /\ Fits(k)
  BY <1>1, PowNat
<1>3. ASSUME NEW i \in Nat, NEW j \in Nat, i < j, Fits(j) PROVE ~ Fits(i)
  <2>1. Aligned(i + 1, b)
    BY <1>1, <1>3, AlignedBelow
  <2>2. Pow2[i + 1] <= Pow2[j] /\ Pow2[j] \in Nat /\ Pow2[i + 1] \in Nat
    BY <1>3, PowAligned, PowNat
  <2>3. b + Pow2[i + 1] <= e
    BY <2>2, <1>1, <1>3
  <2> QED  BY <1>1, <2>1, <2>3
<1>4. \A j \in 0..e : Fits(j) => j = k
  BY <1>2, <1>3
<1>5. FitLevel(b, e) = CHOOSE j \in 0..e : Fits(j)
  BY DEF FitLevel
<1> HIDE DEF Fits
<1> QED  BY <1>2, <1>4, <1>5

LEMMA CompletedIs ==
    ASSUME NEW n \in Nat
    PROVE  /\ Completed(n) \in Nat
           /\ Aligned(Completed(n), n + 1) /\ ~ Aligned(Completed(n) + 1, n + 1)
<1> DEFINE T == {k \in Nat : ~ Aligned(k + 1, n + 1)}
<1>1. n + 1 \in T
  <2> SUFFICES ASSUME Aligned(n + 2, n + 1) PROVE FALSE
    OBVIOUS
  <2>1. Aligned(n + 2, 0)
    BY AlignedZero
  <2>2. 0 + Pow2[n + 2] <= n + 1
    BY <2>1, AlignedGap
  <2> QED  BY <2>2, PowNat
<1>2. PICK k \in T : \A j \in T : k <= j
  <2> HIDE DEF T
  <2>1. T \in SUBSET Nat
    BY DEF T
  <2> QED  BY <1>1, <2>1, LeastNatural
<1>3. Aligned(k, n + 1)
  <2>1. CASE k = 0
    BY <2>1, PowZero DEF Aligned
  <2>2. CASE k # 0
    BY <2>2, <1>2
  <2> QED  BY <2>1, <2>2
<1>4. Aligned(k, 0)
  BY AlignedZero
<1>5. 0 + Pow2[k] <= n + 1
  BY <1>3, <1>4, AlignedGap
<1>6. k \in 0..n
  BY <1>5, PowNat
<1> DEFINE Is(j) == (n + 1) % Pow2[j] = 0 /\ (n + 1) % Pow2[j + 1] # 0
<1>7. \A j \in Nat : Is(j) <=> Aligned(j, n + 1) /\ ~ Aligned(j + 1, n + 1)
  <2> TAKE j \in Nat
  <2>1. j + 1 \in Nat /\ n + 1 \in Nat
    OBVIOUS
  <2> QED  BY <2>1, AlignedDiv
<1>8. Is(k)
  BY <1>2, <1>3, <1>7
<1>9. Completed(n) = CHOOSE j \in 0..n : Is(j)
  BY DEF Completed
<1> HIDE DEF Is
<1>10. Completed(n) \in 0..n /\ Is(Completed(n))
  BY <1>6, <1>8, <1>9
<1> QED  BY <1>7, <1>10

LEMMA SplitIs ==
    ASSUME NEW n \in Nat, NEW k \in Nat, Pow2[k] < n, n <= 2 * Pow2[k]
    PROVE  Split(n) = Pow2[k]
<1>1. k \in 0..n
  BY PowNat
<1>2. ASSUME NEW i \in Nat, NEW j \in Nat, i < j, n <= 2 * Pow2[i] PROVE ~ (Pow2[j] < n)
  <2>1. Pow2[i + 1] <= Pow2[j] /\ Pow2[i + 1] = 2 * Pow2[i]
    BY <1>2, PowAligned, PowNext
  <2> QED  BY <2>1, <1>2, PowNat
<1>3. \A i \in 0..n : Pow2[i] < n /\ n <= 2 * Pow2[i] => i = k
  <2> SUFFICES ASSUME NEW i \in 0..n, Pow2[i] < n, n <= 2 * Pow2[i], i # k PROVE FALSE
    OBVIOUS
  <2>1. i < k \/ k < i
    OBVIOUS
  <2> QED  BY <2>1, <1>2
<1> DEFINE D == {Pow2[i] : i \in 0..n}
<1>4. \A d \in D : d < n /\ 2 * d >= n => d = Pow2[k]
  BY <1>3, PowNat
<1>5. Pow2[k] \in D /\ Pow2[k] < n /\ 2 * Pow2[k] >= n
  BY <1>1, PowNat
<1>6. Split(n) = CHOOSE d \in D : d < n /\ 2 * d >= n
  BY DEF Split
<1> HIDE DEF D
<1> QED  BY <1>4, <1>5, <1>6

LEMMA SplitExists ==
    ASSUME NEW n \in Nat, n > 1
    PROVE  \E k \in Nat : Pow2[k] < n /\ n <= 2 * Pow2[k]
<1> DEFINE T == {k \in Nat : n <= Pow2[k + 1]}
<1>1. n \in T
  BY PowNat
<1>2. PICK k \in T : \A j \in T : k <= j
  <2>1. T \in SUBSET Nat /\ T # {}
    BY <1>1
  <2> HIDE DEF T
  <2> QED  BY <2>1, LeastNatural
<1>3. n <= 2 * Pow2[k]
  BY <1>2, PowNext
<1>4. Pow2[k] < n
  <2>1. CASE k = 0
    BY <2>1, PowZero
  <2>2. CASE k # 0
    <3>1. k - 1 \in Nat /\ k - 1 \notin T /\ (k - 1) + 1 = k
      BY <2>2, <1>2
    <3> QED  BY <3>1, PowNat
  <2> QED  BY <2>1, <2>2
<1> QED  BY <1>2, <1>3, <1>4

LEMMA SplitBounds ==
    ASSUME NEW n \in Nat, n > 1
    PROVE  Split(n) \in Nat /\ 0 < Split(n) /\ Split(n) < n
<1>1. PICK k \in Nat : Pow2[k] < n /\ n <= 2 * Pow2[k]
  BY SplitExists
<1> QED  BY <1>1, SplitIs, PowNat
-----------------------------------------------------------------------------
(* The tree hash. *)

MthRow(f, n) ==
    [i \in Nat |-> IF n <= 1 THEN HashLeaf(i + 1)
                   ELSE HashChildren(f[Split(n)][i], f[n - Split(n)][i + Split(n)])]

IsMth(f, s) == f = [n \in 0..s |-> MthRow(f, n)]

(* A row depends on the rows of smaller sizes only. *)
LEMMA MthRowCong ==
    ASSUME NEW n \in Nat, NEW f, NEW g, \A m \in 0..(n - 1) : f[m] = g[m]
    PROVE  MthRow(f, n) = MthRow(g, n)
<1>1. CASE n <= 1
  BY <1>1 DEF MthRow
<1>2. CASE n > 1
  <2>1. Split(n) \in 0..(n - 1) /\ n - Split(n) \in 0..(n - 1)
    BY <1>2, SplitBounds
  <2>2. f[Split(n)] = g[Split(n)] /\ f[n - Split(n)] = g[n - Split(n)]
    BY <2>1
  <2> QED  BY <2>2, Zenon DEF MthRow
<1> QED  BY <1>1, <1>2

LEMMA MthPrefix == \A s \in Nat : \E f : IsMth(f, s)
<1> DEFINE S == {s \in Nat : \E f : IsMth(f, s)}
           Extended(f, s) == [n \in 0..s |-> IF n = s THEN MthRow(f, n) ELSE f[n]]
<1>1. ASSUME NEW s \in Nat, NEW f, \A n \in 0..(s - 1) : f[n] = MthRow(f, n)
      PROVE  IsMth(Extended(f, s), s)
  <2> DEFINE g == Extended(f, s)
  <2>1. \A n \in 0..(s - 1) : g[n] = f[n]
    OBVIOUS
  <2>2. g[s] = MthRow(f, s)
    OBVIOUS
  <2>3. ASSUME NEW n \in 0..s PROVE g[n] = MthRow(g, n)
    <3>1. \A m \in 0..(n - 1) : f[m] = g[m]
      BY <2>1
    <3>2. MthRow(f, n) = MthRow(g, n)
      BY <3>1, MthRowCong
    <3> QED  BY <3>2, <2>1, <2>2, <1>1
  <2>4. g = [n \in 0..s |-> MthRow(g, n)]
    BY <2>3
  <2> QED  BY <2>4, Zenon DEF IsMth
<1>2. 0 \in S
  <2>1. \A f : \A n \in 0..(0 - 1) : f[n] = MthRow(f, n)
    OBVIOUS
  <2>2. IsMth(Extended(<<>>, 0), 0)
    BY <2>1, <1>1
  <2> QED  BY <2>2
<1>3. ASSUME NEW s \in Nat, s \in S PROVE s + 1 \in S
  <2>1. PICK f : IsMth(f, s)
    BY <1>3
  <2>2. \A n \in 0..((s + 1) - 1) : f[n] = MthRow(f, n)
    BY <2>1 DEF IsMth
  <2>3. IsMth(Extended(f, s + 1), s + 1)
    BY <2>2, <1>1
  <2> QED  BY <2>3
<1> HIDE DEF S
<1>4. Nat \subseteq S
  BY <1>2, <1>3, Induction
<1> QED  BY <1>4 DEF S

LEMMA MthUnique ==
    ASSUME NEW s \in Nat, NEW r \in Nat, s <= r, NEW f, NEW g, IsMth(f, s), IsMth(g, r)
    PROVE  \A n \in 0..s : f[n] = g[n]
<1> DEFINE S == {n \in Nat : n <= s => f[n] = g[n]}
<1>1. ASSUME NEW n \in Nat, \A m \in Nat : m < n => m \in S PROVE n \in S
  <2> SUFFICES ASSUME n <= s PROVE f[n] = g[n]
    OBVIOUS
  <2>1. n \in 0..s /\ n \in 0..r
    OBVIOUS
  <2>2. f[n] = MthRow(f, n) /\ g[n] = MthRow(g, n)
    BY <2>1 DEF IsMth
  <2>3. \A m \in 0..(n - 1) : f[m] = g[m]
    BY <1>1
  <2> QED  BY <2>2, <2>3, MthRowCong
<1> HIDE DEF S
<1>2. Nat \subseteq S
  BY <1>1, StrongInduction
<1> QED  BY <1>2 DEF S

(* MTH obeys its defining equation. *)
LEMMA MthDef ==
    ASSUME NEW b \in Nat, NEW n \in Nat
    PROVE  MTH(b, b + n) = IF n <= 1 THEN HashLeaf(b + 1)
                           ELSE HashChildren(MTH(b, b + Split(n)), MTH(b + Split(n), b + n))
<1> DEFINE F(s) == CHOOSE f : IsMth(f, s)
           g == [s \in Nat |-> F(s)[s]]
           c == CHOOSE f : f = [s \in Nat |-> MthRow(f, s)]
<1>1. \A s \in Nat : IsMth(F(s), s)
  BY MthPrefix
<1> HIDE DEF F
<1>2. ASSUME NEW s \in Nat PROVE g[s] = MthRow(g, s)
  <2>1. F(s)[s] = MthRow(F(s), s)
    BY <1>1 DEF IsMth
  <2>2. \A m \in 0..(s - 1) : F(m)[m] = F(s)[m]
    BY <1>1, MthUnique
  <2>3. \A m \in 0..(s - 1) : F(s)[m] = g[m]
    BY <2>2
  <2>4. MthRow(F(s), s) = MthRow(g, s)
    BY <2>3, MthRowCong
  <2> QED  BY <2>1, <2>4
<1>3. g = [s \in Nat |-> MthRow(g, s)]
  BY <1>2
<1> HIDE DEF g
<1>4. c = [s \in Nat |-> MthRow(c, s)]
  BY <1>3
<1>5. \A i, j : MTH(i, j) = c[j - i][i]
  BY DEF MTH, MthRow
<1> HIDE DEF c
<1>6. c[n] = MthRow(c, n) /\ MTH(b, b + n) = c[n][b]
  <2>1. (b + n) - b = n
    OBVIOUS
  <2>2. MTH(b, b + n) = c[n][b]
    BY <2>1, <1>5
  <2> QED  BY <2>2, <1>4
<1>7. CASE n <= 1
  BY <1>6, <1>7 DEF MthRow
<1>8. CASE n > 1
  <2>1. Split(n) \in Nat /\ n - Split(n) \in Nat
    BY <1>8, SplitBounds
  <2>2. (b + Split(n)) - b = Split(n) /\ (b + n) - (b + Split(n)) = n - Split(n)
    BY <2>1
  <2>3. MTH(b, b + Split(n)) = c[Split(n)][b]
    BY <2>2, <1>5
  <2>4. MTH(b + Split(n), b + n) = c[n - Split(n)][b + Split(n)]
    BY <2>2, <1>5
  <2> QED  BY <1>6, <1>8, <2>3, <2>4 DEF MthRow
<1> QED  BY <1>7, <1>8

LEMMA MthLeaf ==
    ASSUME NEW b \in Nat
    PROVE  MTH(b, b + 1) = HashLeaf(b + 1)
<1>1. MTH(b, b + 1) = IF 1 <= 1 THEN HashLeaf(b + 1)
                      ELSE HashChildren(MTH(b, b + Split(1)), MTH(b + Split(1), b + 1))
  BY MthDef
<1> QED  BY <1>1

(* The hash of b..n-1 is split at the largest power of two. *)
LEMMA MthSplit ==
    ASSUME NEW b \in Nat, NEW n \in Nat, NEW k \in Nat, Pow2[k] < n - b, n - b <= 2 * Pow2[k]
    PROVE  MTH(b, n) = HashChildren(MTH(b, b + Pow2[k]), MTH(b + Pow2[k], n))
<1>1. Pow2[k] \in Nat /\ Pow2[k] > 0 /\ n - b \in Nat /\ n - b > 1 /\ b + (n - b) = n
  BY PowNat
<1>2. Split(n - b) = Pow2[k]
  BY <1>1, SplitIs
<1>3. MTH(b, b + (n - b)) = HashChildren(MTH(b, b + Split(n - b)), MTH(b + Split(n - b), b + (n - b)))
  BY <1>1, MthDef
<1> QED  BY <1>1, <1>2, <1>3

LEMMA MthDouble ==
    ASSUME NEW b \in Nat, NEW k \in Nat
    PROVE  MTH(b, b + Pow2[k + 1]) = HashChildren(MTH(b, b + Pow2[k]), MTH(b + Pow2[k], b + Pow2[k + 1]))
<1>1. Pow2[k + 1] = 2 * Pow2[k] /\ Pow2[k] \in Nat /\ Pow2[k] > 0
  BY PowNext, PowNat
<1> DEFINE n == b + Pow2[k + 1]
<1>2. n \in Nat /\ Pow2[k] < n - b /\ n - b <= 2 * Pow2[k]
  BY <1>1
<1> HIDE DEF n
<1>3. MTH(b, n) = HashChildren(MTH(b, b + Pow2[k]), MTH(b + Pow2[k], n))
  BY <1>2, MthSplit
<1> QED  BY <1>3 DEF n
-----------------------------------------------------------------------------
(* The nodes that cover a range. *)

LEMMA FitLevelExists ==
    ASSUME NEW b \in Nat, NEW e \in Nat, b < e
    PROVE  /\ FitLevel(b, e) \in Nat
           /\ Aligned(FitLevel(b, e), b)
           /\ b + Pow2[FitLevel(b, e)] \in (b + 1)..e
<1> DEFINE T == {k \in Nat : ~ (Aligned(k, b) /\ b + Pow2[k] <= e)}
<1>1. e \in T
  BY PowNat
<1>2. PICK m \in T : \A j \in T : m <= j
  <2>1. T \in SUBSET Nat /\ T # {}
    BY <1>1
  <2> HIDE DEF T
  <2> QED  BY <2>1, LeastNatural
<1>3. 0 \notin T
  <2>1. b = b * Pow2[0]
    BY PowZero
  <2>2. Aligned(0, b)
    BY <2>1, Zenon DEF Aligned
  <2> QED  BY <2>2, PowZero
<1>4. m - 1 \in Nat /\ m - 1 \notin T /\ (m - 1) + 1 = m
  BY <1>2, <1>3
<1>5. Aligned(m - 1, b) /\ b + Pow2[m - 1] <= e /\ ~ (Aligned((m - 1) + 1, b) /\ b + Pow2[(m - 1) + 1] <= e)
  BY <1>2, <1>4
<1>6. FitLevel(b, e) = m - 1
  BY <1>4, <1>5, FitLevelIs
<1> QED  BY <1>4, <1>5, <1>6, PowNat

CoverStep(f, b, e) ==
    IF b = e THEN <<>>
    ELSE LET k == FitLevel(b, e)
         IN  <<NewNodeID(k, b \div Pow2[k])>> \o f[b + Pow2[k]]

LEMMA CoverExists ==
    ASSUME NEW e \in Nat
    PROVE  \E f : f = [b \in 0..e |-> CoverStep(f, b, e)]
<1> DEFINE Covers(f, d) == f = [b \in (e - d)..e |-> CoverStep(f, b, e)]
           S == {d \in Nat : d <= e => \E f : Covers(f, d)}
<1>1. 0 \in S
  <2> DEFINE f == [b \in (e - 0)..e |-> <<>>]
  <2>1. \A b \in (e - 0)..e : CoverStep(f, b, e) = <<>>
    BY DEF CoverStep
  <2>2. Covers(f, 0)
    BY <2>1
  <2> QED  BY <2>2
<1>2. ASSUME NEW d \in Nat, d \in S PROVE d + 1 \in S
  <2> SUFFICES ASSUME d + 1 <= e PROVE \E f : Covers(f, d + 1)
    OBVIOUS
  <2>1. PICK f : Covers(f, d)
    BY <1>2
  <2> DEFINE a == e - (d + 1)
             g == [b \in a..e |-> IF b = a THEN CoverStep(f, b, e) ELSE f[b]]
  <2>2. \A b \in (e - d)..e : g[b] = f[b]
    OBVIOUS
  <2>3. ASSUME NEW b \in a..e PROVE g[b] = CoverStep(g, b, e)
    <3>1. CASE b = e
      <4>1. b \in (e - d)..e
        BY <3>1
      <4>2. f[b] = CoverStep(f, b, e) /\ g[b] = f[b]
        BY <2>1, <2>2, <4>1
      <4> QED  BY <3>1, <4>2 DEF CoverStep
    <3>2. CASE b # e
      <4>1. b \in Nat /\ b < e
        BY <3>2
      <4>2. b + Pow2[FitLevel(b, e)] \in (e - d)..e
        BY <4>1, FitLevelExists
      <4>3. CoverStep(f, b, e) = CoverStep(g, b, e)
        BY <4>2, <2>2, Zenon DEF CoverStep
      <4>4. CASE b # a
        <5>1. b \in (e - d)..e
          BY <4>4
        <5>2. f[b] = CoverStep(f, b, e)
          BY <2>1, <5>1
        <5> QED  BY <5>1, <5>2, <4>3, <2>2
      <4>5. CASE b = a
        <5>1. g[b] = CoverStep(f, b, e)
          BY <4>5
        <5> QED  BY <5>1, <4>3
      <4> QED  BY <4>4, <4>5
    <3> QED  BY <3>1, <3>2
  <2>4. g = [b \in a..e |-> CoverStep(g, b, e)]
    BY <2>3
  <2>5. Covers(g, d + 1)
    BY <2>4
  <2> QED  BY <2>5, Zenon
<1> HIDE DEF S
<1>3. e \in S
  BY <1>1, <1>2, Induction
<1>4. PICK f : Covers(f, e)
  BY <1>3 DEF S
<1>5. e - e = 0
  OBVIOUS
<1> QED  BY <1>4, <1>5

(* RangeNodes obeys its defining equation. *)
LEMMA RangeNodesDef ==
    ASSUME NEW e \in Nat, NEW b \in 0..e
    PROVE  RangeNodes(b, e) =
               IF b = e THEN <<>>
               ELSE <<NewNodeID(FitLevel(b, e), b \div Pow2[FitLevel(b, e)])>>
                        \o RangeNodes(b + Pow2[FitLevel(b, e)], e)
<1> DEFINE c == CHOOSE f : f = [i \in 0..e |-> CoverStep(f, i, e)]
<1>1. c = [i \in 0..e |-> CoverStep(c, i, e)]
  BY CoverExists, Zenon
<1>2. \A i : RangeNodes(i, e) = c[i]
  BY DEF RangeNodes, CoverStep
<1> HIDE DEF c
<1>3. c[b] = CoverStep(c, b, e)
  BY <1>1
<1> QED  BY <1>2, <1>3 DEF CoverStep

LEMMA RangeNodesEmpty == ASSUME NEW n \in Nat PROVE RangeNodes(n, n) = <<>>
<1>1. n \in 0..n
  OBVIOUS
<1> QED  BY <1>1, RangeNodesDef, Zenon

LEMMA RangeNodesStep ==
    ASSUME NEW n \in Nat, NEW b \in Nat, b < n
    PROVE  RangeNodes(b, n) = <<NewNodeID(FitLevel(b, n), b \div Pow2[FitLevel(b, n)])>>
                                  \o RangeNodes(b + Pow2[FitLevel(b, n)], n)
<1>1. b \in 0..n /\ b # n
  OBVIOUS
<1> QED  BY <1>1, RangeNodesDef, Zenon
-----------------------------------------------------------------------------
(* The binary representation of n: nodes that follow each other from 0 to  *)
(* n, at levels that decrease.                                             *)

IsRange(s, n) ==
    /\ s \in Seq(Nat \X Nat)
    /\ \A i \in 1..(Len(s) - 1) : s[i + 1][1] < s[i][1] /\ First(s[i + 1]) = Last(s[i])
    /\ s = <<>> => n = 0
    /\ s # <<>> => First(s[1]) = 0 /\ Last(s[Len(s)]) = n

LEMMA RangeIn ==
    ASSUME NEW n, NEW s, IsRange(s, n), NEW i \in 1..Len(s)
    PROVE  s[i] \in Nat \X Nat
<1> DEFINE N == Nat \X Nat
<1>1. s \in Seq(N)
  BY DEF IsRange
<1> HIDE DEF N
<1>2. s[i] \in N
  BY <1>1
<1> QED  BY <1>2 DEF N

LEMMA NextProduct ==
    ASSUME NEW q \in Nat, NEW p \in Nat
    PROVE  (q + 1) * p = q * p + p
OBVIOUS

LEMMA NodeFacts ==
    ASSUME NEW id \in Nat \X Nat
    PROVE  /\ First(id) \in Nat /\ Last(id) \in Nat
           /\ Last(id) = First(id) + Pow2[id[1]]
           /\ Pow2[id[1]] \in Nat /\ Pow2[id[1]] > 0
           /\ Aligned(id[1], First(id)) /\ Aligned(id[1], Last(id))
           /\ id = <<id[1], id[2]>> /\ First(id) \div Pow2[id[1]] = id[2]
<1>1. id[1] \in Nat /\ id[2] \in Nat /\ id = <<id[1], id[2]>>
  OBVIOUS
<1>2. Pow2[id[1]] \in Nat /\ Pow2[id[1]] > 0
  BY <1>1, PowNat
<1>3. First(id) \in Nat /\ Last(id) \in Nat
  BY <1>1, <1>2, ProductNat DEF First, Last
<1>4. Last(id) = First(id) + Pow2[id[1]]
  BY <1>1, <1>2, NextProduct DEF First, Last
<1>5. Aligned(id[1], First(id)) /\ Aligned(id[1], Last(id))
  <2>1. id[2] + 1 \in Nat
    BY <1>1
  <2> QED  BY <1>1, <2>1, Zenon DEF First, Last, Aligned
<1>6. First(id) \div Pow2[id[1]] = id[2]
  BY <1>1, <1>2, DivExact DEF First
<1> QED  BY <1>1, <1>2, <1>3, <1>4, <1>5, <1>6

LEMMA TailSum ==
    ASSUME NEW n \in Nat, NEW a \in Nat, NEW p \in Nat, NEW q \in Nat, n < (a + p) + 2 * q, 2 * q <= p
    PROVE  n < a + 2 * p
OBVIOUS

(* What is left behind a node is less than twice its size. *)
LEMMA RangeTail ==
    ASSUME NEW n \in Nat, NEW s, IsRange(s, n), NEW i \in 1..Len(s)
    PROVE  /\ Last(s[i]) <= n /\ n < First(s[i]) + 2 * Pow2[s[i][1]]
           /\ i # Len(s) => Last(s[i]) < n
<1> DEFINE L == Len(s)
           Good(j) == Last(s[j]) <= n /\ n < First(s[j]) + 2 * Pow2[s[j][1]]
           S == {d \in Nat : d < L => Good(L - d)}
<1>1. L \in Nat /\ \A j \in 1..L : s[j] \in Nat \X Nat
  <2>1. L \in Nat
    BY DEF IsRange
  <2> QED  BY <2>1, RangeIn
<1>2. 0 \in S
  <2> SUFFICES ASSUME 0 < L PROVE Good(L - 0)
    OBVIOUS
  <2>1. L \in 1..L /\ L - 0 = L
    BY <1>1
  <2>2. s # <<>>
    BY <2>1
  <2>3. Last(s[L]) = n
    BY <2>2 DEF IsRange
  <2>4. Last(s[L]) = First(s[L]) + Pow2[s[L][1]] /\ Pow2[s[L][1]] \in Nat /\ Pow2[s[L][1]] > 0 /\ First(s[L]) \in Nat
    BY <2>1, <1>1, NodeFacts
  <2>5. Good(L)
    BY <2>3, <2>4
  <2> HIDE DEF Good
  <2> QED  BY <2>1, <2>5
<1>3. ASSUME NEW j \in 1..L, j + 1 \in 1..L, Good(j + 1) PROVE Good(j) /\ Last(s[j]) < n
  <2>1. s[j + 1][1] < s[j][1] /\ First(s[j + 1]) = Last(s[j])
    BY <1>3 DEF IsRange
  <2>2. s[j] \in Nat \X Nat /\ s[j + 1] \in Nat \X Nat
    BY <1>1, <1>3
  <2>3. s[j][1] \in Nat /\ s[j + 1][1] + 1 \in Nat /\ s[j + 1][1] + 1 <= s[j][1]
    BY SMTT(30), <2>1, <2>2
  <2>4. 2 * Pow2[s[j + 1][1]] <= Pow2[s[j][1]]
    BY <2>2, <2>3, PowNext, PowAligned
  <2>5. First(s[j]) \in Nat /\ Pow2[s[j][1]] \in Nat /\ Last(s[j]) = First(s[j]) + Pow2[s[j][1]]
    BY <2>2, NodeFacts
  <2>6. First(s[j + 1]) \in Nat /\ Pow2[s[j + 1][1]] \in Nat /\ Pow2[s[j + 1][1]] > 0
        /\ Last(s[j + 1]) = First(s[j + 1]) + Pow2[s[j + 1][1]]
    BY <2>2, NodeFacts
  <2>7. Last(s[j]) < n
    BY <1>3, <2>1, <2>6
  <2>8. n < Last(s[j]) + 2 * Pow2[s[j + 1][1]]
    BY <1>3, <2>1
  <2>9. n < First(s[j]) + 2 * Pow2[s[j][1]]
    <3>1. n < (First(s[j]) + Pow2[s[j][1]]) + 2 * Pow2[s[j + 1][1]]
      BY <2>5, <2>8
    <3> QED  BY <3>1, <2>4, <2>5, <2>6, TailSum
  <2> QED  BY <2>5, <2>7, <2>9
<1>4. ASSUME NEW d \in Nat, d \in S PROVE d + 1 \in S
  <2> SUFFICES ASSUME d + 1 < L PROVE Good(L - (d + 1))
    OBVIOUS
  <2>1. L - (d + 1) \in 1..L /\ (L - (d + 1)) + 1 = L - d /\ L - d \in 1..L
    BY <1>1
  <2>2. Good(L - d)
    BY <1>4
  <2> HIDE DEF Good
  <2> QED  BY <2>1, <2>2, <1>3
<1> HIDE DEF S
<1>5. Nat \subseteq S
  BY <1>2, <1>4, Induction
<1>6. \A j \in 1..L : Good(j)
  <2> TAKE j \in 1..L
  <2>1. L - j \in Nat /\ L - j < L /\ L - (L - j) = j
    BY <1>1
  <2>2. L - j \in S
    BY <1>5, <2>1
  <2> HIDE DEF Good
  <2> QED  BY <2>1, <2>2 DEF S
<1>7. ASSUME i # L PROVE Last(s[i]) < n
  <2>1. i + 1 \in 1..L
    BY <1>1, <1>7
  <2> HIDE DEF Good
  <2> QED  BY <1>3, <1>6, <2>1
<1> QED  BY <1>6, <1>7

(* Nodes start at a multiple of twice their size: they are left children. *)
LEMMA RangeEven ==
    ASSUME NEW n \in Nat, NEW s, IsRange(s, n), NEW i \in 1..Len(s)
    PROVE  Aligned(s[i][1] + 1, First(s[i]))
<1>1. Len(s) \in Nat /\ \A j \in 1..Len(s) : s[j] \in Nat \X Nat
  BY SMTT(30) DEF IsRange
<1>2. CASE i = 1
  <2>1. First(s[i]) = 0
    BY <1>2, <1>1 DEF IsRange
  <2> QED  BY <2>1, <1>1, AlignedZero
<1>3. CASE i # 1
  <2>1. i - 1 \in 1..(Len(s) - 1) /\ (i - 1) + 1 = i
    BY <1>1, <1>3
  <2>2. s[i][1] < s[i - 1][1] /\ First(s[i]) = Last(s[i - 1])
    BY <2>1 DEF IsRange
  <2>3. s[i] \in Nat \X Nat /\ s[i - 1] \in Nat \X Nat
    BY <1>1, <2>1
  <2>4. s[i][1] + 1 \in Nat /\ s[i - 1][1] \in Nat /\ s[i][1] + 1 <= s[i - 1][1]
    BY <2>2, <2>3
  <2>5. Aligned(s[i - 1][1], Last(s[i - 1]))
    BY <2>3, NodeFacts
  <2> QED  BY <2>2, <2>4, <2>5, AlignedBelow
<1> QED  BY <1>2, <1>3

LEMMA RangeFit ==
    ASSUME NEW n \in Nat, NEW s, IsRange(s, n), NEW i \in 1..Len(s)
    PROVE  FitLevel(First(s[i]), n) = s[i][1]
<1>1. s[i] \in Nat \X Nat
  BY DEF IsRange
<1>2. First(s[i]) \in Nat /\ Pow2[s[i][1]] \in Nat /\ Aligned(s[i][1], First(s[i])) /\ s[i][1] \in Nat
      /\ Last(s[i]) = First(s[i]) + Pow2[s[i][1]]
  BY <1>1, NodeFacts
<1>3. Last(s[i]) <= n /\ n < First(s[i]) + Pow2[s[i][1] + 1]
  BY <1>2, RangeTail, PowNext
<1>4. s[i][1] + 1 \in Nat
  BY <1>2
<1>5. Pow2[s[i][1] + 1] \in Nat
  BY <1>4, PowNat, Zenon
<1>6. ~ (First(s[i]) + Pow2[s[i][1] + 1] <= n)
  BY <1>2, <1>3, <1>5
<1> QED  BY <1>2, <1>3, <1>6, FitLevelIs

(* RangeNodes yields the nodes from any node of the range on. *)
LEMMA RangeFrom ==
    ASSUME NEW n \in Nat, NEW s, IsRange(s, n)
    PROVE  /\ \A i \in 1..Len(s) : SubSeq(s, i, Len(s)) = RangeNodes(First(s[i]), n)
           /\ \A i \in 1..Len(s) : SubSeq(s, i + 1, Len(s)) = RangeNodes(Last(s[i]), n)
<1> DEFINE L == Len(s)
           Good(i) == SubSeq(s, i, L) = RangeNodes(First(s[i]), n)
           S == {d \in Nat : d < L => Good(L - d)}
<1>1. s \in Seq(Nat \X Nat) /\ L \in Nat /\ \A i \in 1..L : s[i] \in Nat \X Nat
  BY DEF IsRange
<1>2. RangeNodes(n, n) = <<>>
  BY RangeNodesEmpty
<1>3. ASSUME NEW i \in 1..L, SubSeq(s, i + 1, L) = RangeNodes(Last(s[i]), n) PROVE Good(i)
  <2>1. FitLevel(First(s[i]), n) = s[i][1]
    BY RangeFit
  <2>2. /\ First(s[i]) \in Nat /\ Last(s[i]) = First(s[i]) + Pow2[s[i][1]]
        /\ Pow2[s[i][1]] \in Nat /\ Pow2[s[i][1]] > 0
        /\ s[i] = NewNodeID(s[i][1], First(s[i]) \div Pow2[s[i][1]])
    BY <1>1, NodeFacts DEF NewNodeID
  <2>3. First(s[i]) < n
    BY <2>2, RangeTail
  <2>4. RangeNodes(First(s[i]), n) = <<s[i]>> \o RangeNodes(Last(s[i]), n)
    BY <2>1, <2>2, <2>3, RangeNodesStep, Zenon
  <2>5. SubSeq(s, i, L) = <<s[i]>> \o SubSeq(s, i + 1, L)
    <3>1. L \in i..L
      BY <1>1
    <3> QED  BY <1>1, <3>1, SubSeqRecursiveFirst
  <2> QED  BY <1>3, <2>4, <2>5
<1>4. L > 0 => SubSeq(s, L + 1, L) = RangeNodes(Last(s[L]), n)
  <2> SUFFICES ASSUME L > 0 PROVE SubSeq(s, L + 1, L) = RangeNodes(Last(s[L]), n)
    OBVIOUS
  <2>1. s # <<>>
    OBVIOUS
  <2>2. Last(s[L]) = n
    BY <2>1 DEF IsRange
  <2> QED  BY <2>2, <1>1, <1>2, SubSeqEmpty
<1>5. ASSUME NEW i \in 1..L, i + 1 \in 1..L, Good(i + 1) PROVE SubSeq(s, i + 1, L) = RangeNodes(Last(s[i]), n)
  <2>1. i \in 1..(Len(s) - 1)
    BY <1>1, <1>5
  <2>2. First(s[i + 1]) = Last(s[i])
    BY <2>1 DEF IsRange
  <2> QED  BY <1>5, <2>2
<1>6. 0 \in S
  <2> SUFFICES ASSUME L > 0 PROVE Good(L - 0)
    OBVIOUS
  <2>1. L \in 1..L /\ L - 0 = L
    BY <1>1
  <2>2. Good(L)
    BY <2>1, <1>3, <1>4
  <2> QED  BY <2>1, <2>2
<1>7. ASSUME NEW d \in Nat, d \in S PROVE d + 1 \in S
  <2> SUFFICES ASSUME d + 1 < L PROVE Good(L - (d + 1))
    OBVIOUS
  <2>1. L - (d + 1) \in 1..L /\ (L - (d + 1)) + 1 = L - d /\ L - d \in 1..L
    BY <1>1
  <2>2. Good(L - d)
    BY <1>7
  <2> HIDE DEF Good
  <2> QED  BY <2>1, <2>2, <1>3, <1>5
<1> HIDE DEF S
<1>8. Nat \subseteq S
  BY <1>6, <1>7, Induction
<1>9. \A i \in 1..L : Good(i)
  <2> TAKE i \in 1..L
  <2>1. L - i \in Nat /\ L - i < L /\ L - (L - i) = i
    BY <1>1
  <2>2. L - i \in S
    BY <1>8, <2>1
  <2> HIDE DEF Good
  <2> QED  BY <2>1, <2>2 DEF S
<1>10. ASSUME NEW i \in 1..L PROVE SubSeq(s, i + 1, L) = RangeNodes(Last(s[i]), n)
  <2>1. CASE i = L
    BY <2>1, <1>1, <1>4
  <2>2. CASE i # L
    <3>1. i + 1 \in 1..L
      BY SMTT(30), <2>2, <1>1
    <3> QED  BY <3>1, <1>5, <1>9
  <2> QED  BY <2>1, <2>2
<1> QED  BY <1>9, <1>10

LEMMA RangeIs ==
    ASSUME NEW n \in Nat, NEW s, IsRange(s, n)
    PROVE  RangeNodes(0, n) = s
<1>1. s \in Seq(Nat \X Nat)
  BY DEF IsRange
<1>2. CASE s = <<>>
  <2>1. n = 0
    BY <1>2 DEF IsRange
  <2> QED  BY <1>2, <2>1, RangeNodesEmpty
<1>3. CASE s # <<>>
  <2>1. First(s[1]) = 0 /\ 1 \in 1..Len(s)
    BY <1>1, <1>3 DEF IsRange
  <2>2. SubSeq(s, 1, Len(s)) = s
    BY <1>1, SubSeqFull
  <2> QED  BY <2>1, <2>2, RangeFrom
<1> QED  BY <1>2, <1>3
-----------------------------------------------------------------------------
(* Appending a leaf. *)

(* The nodes that leaf n completes end at n + 1. *)
LEMMA CompletedNode ==
    ASSUME NEW n \in Nat, NEW j \in Nat, Aligned(j, n + 1)
    PROVE  /\ NewNodeID(j, n \div Pow2[j]) \in Nat \X Nat
           /\ NewNodeID(j, n \div Pow2[j])[1] = j
           /\ Last(NewNodeID(j, n \div Pow2[j])) = n + 1
           /\ First(NewNodeID(j, n \div Pow2[j])) = (n + 1) - Pow2[j]
<1> DEFINE id == NewNodeID(j, n \div Pow2[j])
<1>1. PICK q \in Nat : n + 1 = q * Pow2[j]
  BY Zenon DEF Aligned
<1>2. Pow2[j] \in Nat /\ Pow2[j] > 0
  BY PowNat
<1>3. q # 0
  BY <1>1, <1>2
<1> DEFINE p == q - 1
<1>4. p \in Nat /\ p + 1 = q
  BY <1>3
<1>5. n = p * Pow2[j] + (Pow2[j] - 1)
  <2>1. (p + 1) * Pow2[j] = p * Pow2[j] + Pow2[j]
    BY <1>2, <1>4, NextProduct
  <2>2. p * Pow2[j] \in Nat
    BY <1>2, <1>4, ProductNat
  <2> QED  BY <1>1, <1>2, <1>4, <2>1, <2>2
<1>6. n \div Pow2[j] = p
  BY <1>2, <1>4, <1>5, DivLast
<1>7. id = <<j, p>> /\ id \in Nat \X Nat /\ id[1] = j /\ id[2] = p
  BY <1>4, <1>6 DEF NewNodeID
<1>8. Last(id) = n + 1
  BY <1>1, <1>4, <1>7 DEF Last
<1>9. Last(id) = First(id) + Pow2[j] /\ First(id) \in Nat
  BY <1>7, NodeFacts
<1> QED  BY <1>2, <1>7, <1>8, <1>9

(* The last nodes of the range are those that leaf n completes. *)
LEMMA RangeLow ==
    ASSUME NEW n \in Nat, NEW s, IsRange(s, n)
    PROVE  /\ Completed(n) \in 0..Len(s)
           /\ \A j \in 0..(Completed(n) - 1) : /\ s[Len(s) - j][1] = j
                                               /\ Last(s[Len(s) - j]) = (n + 1) - Pow2[j]
           /\ Completed(n) = Len(s) => n + 1 = Pow2[Completed(n)]
           /\ Completed(n) # Len(s) =>
                  /\ Completed(n) < s[Len(s) - Completed(n)][1]
                  /\ Last(s[Len(s) - Completed(n)]) = (n + 1) - Pow2[Completed(n)]
<1> DEFINE L == Len(s)
           t == Completed(n)
           EndAt(j) == IF j = L THEN 0 ELSE Last(s[L - j])
           Good(j) == /\ j <= L /\ EndAt(j) = (n + 1) - Pow2[j]
                      /\ j < L => s[L - j][1] >= j
           Node(j) == s[L - j][1] = j /\ Last(s[L - j]) = (n + 1) - Pow2[j]
           S == {j \in Nat : j <= t => Good(j) /\ \A i \in 0..(j - 1) : Node(i)}
<1>1. /\ s \in Seq(Nat \X Nat) /\ L \in Nat
      /\ \A i \in 1..L : s[i] \in Nat \X Nat /\ s[i][1] \in Nat
  BY DEF IsRange
<1>2. t \in Nat /\ Aligned(t, n + 1) /\ ~ Aligned(t + 1, n + 1)
  BY CompletedIs
<1> HIDE DEF t
<1>3. 0 \in S
  <2>1. EndAt(0) = n
    <3>1. CASE L = 0
      <4>1. s = <<>>
        BY <1>1, <3>1
      <4> QED  BY <3>1, <4>1 DEF IsRange
    <3>2. CASE L # 0
      <4>1. s # <<>>
        BY <3>2
      <4>2. L - 0 = L
        BY <1>1
      <4> QED  BY <3>2, <4>1, <4>2 DEF IsRange
    <3> QED  BY <3>1, <3>2
  <2>2. 0 < L => s[L - 0][1] >= 0
    BY <1>1
  <2>3. Good(0)
    BY <1>1, <2>1, <2>2, PowZero
  <2> HIDE DEF Good
  <2> QED  BY <2>3
<1>4. ASSUME NEW j \in Nat, j + 1 <= t, Good(j) PROVE Node(j) /\ Good(j + 1)
  <2>1. Aligned(j + 1, n + 1) /\ Aligned(j, n + 1)
    BY <1>2, <1>4, AlignedBelow
  <2>2. Pow2[j] \in Nat /\ Pow2[j] > 0 /\ Pow2[j + 1] = 2 * Pow2[j]
    BY PowNat, PowNext
  <2>3. ~ Aligned(j + 1, (n + 1) - Pow2[j])
    <3> SUFFICES ASSUME Aligned(j + 1, (n + 1) - Pow2[j]) PROVE FALSE
      OBVIOUS
    <3>1. (n + 1) - Pow2[j] \in Nat /\ (n + 1) - Pow2[j] < n + 1
      BY <2>2, AlignedNat
    <3>2. ((n + 1) - Pow2[j]) + Pow2[j + 1] <= n + 1
      BY <2>1, <3>1, AlignedGap
    <3> QED  BY <2>2, <3>1, <3>2
  <2>4. EndAt(j) # 0
    BY <2>3, <1>4, AlignedZero
  <2>5. j # L /\ L - j \in 1..L /\ Last(s[L - j]) = (n + 1) - Pow2[j]
    BY SMTT(30), <1>1, <1>4, <2>4
  <2> DEFINE x == s[L - j][1]
  <2>6. x \in Nat /\ x >= j
    BY SMTT(30), <1>1, <1>4, <2>5
  <2>7. /\ Aligned(x, Last(s[L - j])) /\ Last(s[L - j]) = First(s[L - j]) + Pow2[x]
        /\ First(s[L - j]) \in Nat
    BY <1>1, <2>5, NodeFacts
  <2>8. x = j
    <3> SUFFICES ASSUME j + 1 <= x PROVE FALSE
      BY <2>6
    <3> QED  BY <2>3, <2>5, <2>6, <2>7, AlignedBelow
  <2>9. First(s[L - j]) = (n + 1) - Pow2[j + 1]
    BY SMTT(30), <2>2, <2>5, <2>7, <2>8
  <2>10. CASE j + 1 = L
    <3>1. L - j = 1 /\ s # <<>>
      BY <1>1, <2>10
    <3>2. First(s[L - j]) = 0
      BY <3>1 DEF IsRange
    <3>3. Node(j)
      BY <2>5, <2>8
    <3>4. EndAt(j + 1) = (n + 1) - Pow2[j + 1]
      BY <2>9, <2>10, <3>2
    <3>5. Good(j + 1)
      BY <1>1, <2>10, <3>4
    <3> HIDE DEF Good, Node
    <3> QED  BY <3>3, <3>5
  <2>11. CASE j + 1 # L
    <3>1. L - (j + 1) \in 1..(L - 1) /\ (L - (j + 1)) + 1 = L - j
      BY <1>1, <2>5, <2>11
    <3>2. s[L - j][1] < s[L - (j + 1)][1] /\ First(s[L - j]) = Last(s[L - (j + 1)])
      BY <3>1 DEF IsRange
    <3>3. s[L - (j + 1)][1] \in Nat
      BY <1>1, <3>1
    <3>4. s[L - (j + 1)][1] >= j + 1
      BY <2>8, <3>2, <3>3
    <3>5. Node(j)
      BY <2>5, <2>8
    <3>6. EndAt(j + 1) = (n + 1) - Pow2[j + 1]
      BY <2>9, <2>11, <3>2
    <3>7. j + 1 <= L
      BY <1>1, <2>5, <2>11
    <3>8. Good(j + 1)
      <4> HIDE DEF EndAt
      <4> QED  BY <3>4, <3>6, <3>7
    <3> HIDE DEF Good, Node
    <3> QED  BY <3>5, <3>8
  <2> QED  BY <2>10, <2>11
<1>5. ASSUME NEW j \in Nat, j \in S PROVE j + 1 \in S
  <2> SUFFICES ASSUME j + 1 <= t PROVE Good(j + 1) /\ \A i \in 0..((j + 1) - 1) : Node(i)
    OBVIOUS
  <2> HIDE DEF Good, Node
  <2>1. Good(j) /\ \A i \in 0..(j - 1) : Node(i)
    BY <1>2, <1>5
  <2>2. Good(j + 1) /\ Node(j)
    BY <1>4, <2>1
  <2> QED  BY <2>1, <2>2
<1> HIDE DEF S
<1>6. t \in S
  BY <1>2, <1>3, <1>5, Induction
<1>7. Good(t) /\ \A i \in 0..(t - 1) : Node(i)
  BY <1>2, <1>6 DEF S
<1>8. Pow2[t] \in Nat /\ Pow2[t] > 0 /\ Pow2[t + 1] = 2 * Pow2[t]
  BY <1>2, PowNat, PowNext
<1>9. ASSUME t # L PROVE t < s[L - t][1] /\ Last(s[L - t]) = (n + 1) - Pow2[t]
  <2>1. L - t \in 1..L /\ s[L - t][1] \in Nat /\ s[L - t][1] >= t /\ Last(s[L - t]) = (n + 1) - Pow2[t]
    BY SMTT(30), <1>1, <1>2, <1>7, <1>9
  <2>2. s[L - t][1] # t
    <3> SUFFICES ASSUME s[L - t][1] = t PROVE FALSE
      OBVIOUS
    <3>1. Aligned(t + 1, First(s[L - t]))
      BY <2>1, RangeEven
    <3>2. Aligned(t + 1, (n + 1) - Pow2[t])
      BY <1>2, AlignedNeighbour
    <3>3. Last(s[L - t]) = First(s[L - t]) + Pow2[t] /\ First(s[L - t]) \in Nat
      BY <1>1, <2>1, NodeFacts
    <3>4. First(s[L - t]) + Pow2[t + 1] <= Last(s[L - t])
      BY SMTT(30), <1>2, <1>8, <2>1, <3>1, <3>2, <3>3, AlignedGap
    <3> QED  BY <1>8, <3>3, <3>4
  <2> HIDE DEF EndAt, Good, Node
  <2>3. \A x, y \in Nat : x >= y /\ x # y => y < x
    OBVIOUS
  <2> QED  BY <2>1, <2>2, <2>3, <1>2
<1>10. ASSUME t = L PROVE n + 1 = Pow2[t]
  BY <1>7, <1>8, <1>10
<1> QED  BY <1>1, <1>2, <1>7, <1>9, <1>10 DEF t

(* The range after one more leaf. *)
Appended(s, n) == Append(SubSeq(s, 1, Len(s) - Completed(n)),
                         NewNodeID(Completed(n), n \div Pow2[Completed(n)]))

AppendedTo(s, n) ==
    /\ Appended(s, n) \in Seq(Nat \X Nat)
    /\ Len(Appended(s, n)) = Len(s) - Completed(n) + 1
    /\ \A i \in 1..(Len(s) - Completed(n)) : Appended(s, n)[i] = s[i]
    /\ Appended(s, n)[Len(s) - Completed(n) + 1] = NewNodeID(Completed(n), n \div Pow2[Completed(n)])

LEMMA AppendedSeq ==
    ASSUME NEW n \in Nat, NEW s, IsRange(s, n)
    PROVE  AppendedTo(s, n)
<1> DEFINE m == Len(s) - Completed(n)
           id == NewNodeID(Completed(n), n \div Pow2[Completed(n)])
           p == SubSeq(s, 1, m)
<1>1. m \in 0..Len(s) /\ Len(s) \in Nat /\ s \in Seq(Nat \X Nat)
  BY SMTT(30), RangeLow DEF IsRange
<1>2. id \in Nat \X Nat
  BY CompletedNode, CompletedIs
<1> HIDE DEF id, m
<1>3. p \in Seq(Nat \X Nat) /\ Len(p) = m /\ \A i \in 1..m : p[i] = s[i]
  <2>1. \A i \in 1..m : s[i] \in Nat \X Nat
    BY <1>1
  <2>2. /\ SubSeq(s, 1, m) \in Seq(Nat \X Nat)
        /\ Len(SubSeq(s, 1, m)) = IF 1 <= m THEN m - 1 + 1 ELSE 0
        /\ \A i \in 1..(m - 1 + 1) : SubSeq(s, 1, m)[i] = s[1 + i - 1]
    BY <1>1, <2>1, SubSeqProperties
  <2> QED  BY <1>1, <2>2
<1> HIDE DEF p
<1>4. /\ Append(p, id) \in Seq(Nat \X Nat) /\ Len(Append(p, id)) = m + 1
      /\ \A i \in 1..m : Append(p, id)[i] = p[i] /\ Append(p, id)[m + 1] = id
  BY <1>2, <1>3, AppendProperties
<1>5. Appended(s, n) = Append(p, id)
  BY DEF p, id, m, Appended
<1> QED  BY <1>3, <1>4, <1>5 DEF id, m, AppendedTo

LEMMA RangeAppended ==
    ASSUME NEW n \in Nat, NEW s, IsRange(s, n)
    PROVE  IsRange(Appended(s, n), n + 1)
<1> DEFINE t == Completed(n)
           m == Len(s) - t
           r == Appended(s, n)
           id == NewNodeID(t, n \div Pow2[t])
<1>1. /\ s \in Seq(Nat \X Nat) /\ Len(s) \in Nat /\ t \in Nat /\ m \in 0..Len(s)
      /\ t # Len(s) <=> m # 0
  BY SMTT(30), RangeLow DEF IsRange
<1>2. /\ r \in Seq(Nat \X Nat) /\ Len(r) = m + 1 /\ r[m + 1] = id
      /\ \A i \in 1..m : r[i] = s[i]
  BY AppendedSeq, Zenon DEF AppendedTo
<1>3. id[1] = t /\ Last(id) = n + 1 /\ First(id) = (n + 1) - Pow2[t]
  BY <1>1, CompletedNode, CompletedIs
<1>4. m # 0 => t < s[m][1] /\ Last(s[m]) = (n + 1) - Pow2[t]
  BY <1>1, RangeLow
<1>5. m = 0 => n + 1 = Pow2[t]
  BY <1>1, RangeLow
<1>6. Pow2[t] \in Nat
  BY <1>1, PowNat
<1> HIDE DEF id, r, t, m
<1>7. ASSUME NEW i \in 1..(Len(r) - 1) PROVE r[i + 1][1] < r[i][1] /\ First(r[i + 1]) = Last(r[i])
  <2>1. CASE i = m
    <3>0. m \in 1..m /\ m # 0
      BY <2>1, <1>1, <1>2
    <3>1. r[i] = s[m] /\ r[i + 1] = id /\ m # 0
      BY <2>1, <3>0, <1>2, Zenon
    <3>2. id[1] < s[m][1] /\ First(id) = Last(s[m])
      BY <3>1, <1>3, <1>4
    <3> QED  BY <3>1, <3>2
  <2>2. CASE i # m
    <3>1. i \in 1..(Len(s) - 1) /\ i \in 1..m /\ i + 1 \in 1..m
      BY <2>2, <1>1, <1>2
    <3>2. s[i + 1][1] < s[i][1] /\ First(s[i + 1]) = Last(s[i])
      BY <3>1 DEF IsRange
    <3> QED  BY <3>1, <3>2, <1>2
  <2> QED  BY <2>1, <2>2
<1>8. First(r[1]) = 0
  <2>1. CASE m = 0
    BY <2>1, <1>2, <1>3, <1>5, <1>6
  <2>2. CASE m # 0
    <3>1. r[1] = s[1] /\ s # <<>>
      BY <2>2, <1>1, <1>2
    <3> QED  BY <3>1 DEF IsRange
  <2> QED  BY <2>1, <2>2
<1>9. Last(r[Len(r)]) = n + 1 /\ r # <<>>
  <2>1. r # <<>>
    BY <1>1, <1>2
  <2> QED  BY <2>1, <1>2, <1>3
<1> QED  BY <1>2, <1>7, <1>8, <1>9 DEF IsRange, r

LEMMA RangeZero == IsRange(<<>>, 0)
BY DEF IsRange

(* RangeNodes(0, n) is the binary representation of n. *)
LEMMA RangeNodesIsRange == ASSUME NEW n \in Nat PROVE IsRange(RangeNodes(0, n), n)
<1> DEFINE S == {k \in Nat : \E s : IsRange(s, k)}
<1>1. 0 \in S
  BY RangeZero
<1>2. ASSUME NEW k \in Nat, k \in S PROVE k + 1 \in S
  BY <1>2, RangeAppended
<1> HIDE DEF S
<1>3. n \in S
  BY <1>1, <1>2, Induction
<1>4. PICK s : IsRange(s, n)
  BY <1>3 DEF S
<1> QED  BY <1>4, RangeIs

LEMMA RangeNodesAppend ==
    ASSUME NEW n \in Nat
    PROVE  RangeNodes(0, n + 1) = Appended(RangeNodes(0, n), n)
BY RangeNodesIsRange, RangeAppended, RangeIs
-----------------------------------------------------------------------------
(* The hashes of the range. *)

NodeHashes == {NodeMTH(id) : id \in Nat \X Nat}

LEMMA RangeHashesSeq ==
    ASSUME NEW n \in Nat
    PROVE  /\ RangeHashes(n) \in Seq(NodeHashes)
           /\ Len(RangeHashes(n)) = Len(RangeNodes(0, n))
           /\ \A i \in 1..Len(RangeNodes(0, n)) : RangeHashes(n)[i] = NodeMTH(RangeNodes(0, n)[i])
<1> DEFINE s == RangeNodes(0, n)
<1>1. s \in Seq(Nat \X Nat)
  BY RangeNodesIsRange DEF IsRange
<1>2. Len(s) \in Nat /\ DOMAIN s = 1..Len(s) /\ \A i \in 1..Len(s) : s[i] \in Nat \X Nat
  BY <1>1
<1>3. RangeHashes(n) = [i \in 1..Len(s) |-> NodeMTH(s[i])]
  BY <1>2 DEF RangeHashes
<1> HIDE DEF s
<1>4. \A i \in 1..Len(s) : NodeMTH(s[i]) \in NodeHashes
  BY <1>2, Zenon DEF NodeHashes
<1> QED  BY <1>2, <1>3, <1>4 DEF s

UpStep(f, j, hs, h) == IF j = 0 THEN h ELSE HashChildren(hs[Len(hs) - j + 1], f[j - 1])

IsUp(f, t, hs, h) == f = [j \in 0..t |-> UpStep(f, j, hs, h)]

LEMMA UpExists ==
    ASSUME NEW t \in Nat, NEW hs, NEW h
    PROVE  \E f : IsUp(f, t, hs, h)
<1> DEFINE Ups(f, d) == f = [j \in 0..d |-> UpStep(f, j, hs, h)]
           S == {d \in Nat : \E f : Ups(f, d)}
<1>1. 0 \in S
  <2> DEFINE f == [j \in 0..0 |-> h]
  <2>1. \A j \in 0..0 : f[j] = UpStep(f, j, hs, h)
    BY DEF UpStep
  <2>2. Ups(f, 0)
    BY <2>1
  <2> QED  BY <2>2
<1>2. ASSUME NEW d \in Nat, d \in S PROVE d + 1 \in S
  <2>1. PICK f : Ups(f, d)
    BY <1>2
  <2> DEFINE g == [j \in 0..(d + 1) |-> IF j = d + 1 THEN UpStep(f, d + 1, hs, h) ELSE f[j]]
  <2>2. \A j \in 0..d : g[j] = f[j]
    OBVIOUS
  <2>3. ASSUME NEW j \in 0..(d + 1) PROVE g[j] = UpStep(g, j, hs, h)
    <3>1. j # 0 => j - 1 \in 0..d
      OBVIOUS
    <3>2. UpStep(f, j, hs, h) = UpStep(g, j, hs, h)
      BY <3>1, <2>2 DEF UpStep
    <3>3. j # d + 1 => f[j] = UpStep(f, j, hs, h)
      BY <2>1
    <3> QED  BY <3>2, <3>3
  <2>4. Ups(g, d + 1)
    BY <2>3
  <2>5. \E q : Ups(q, d + 1)
    BY <2>4, Zenon
  <2> QED  BY <2>5
<1> HIDE DEF S
<1>3. t \in S
  BY <1>1, <1>2, Induction
<1> QED  BY <1>3 DEF S, IsUp

(* RangeAppend is computed by the joins of UpStep. *)
Joins(up, n, hs, h) ==
    /\ IsUp(up, Completed(n), hs, h)
    /\ RangeAppend(n, hs, h).hashes = Append(SubSeq(hs, 1, Len(hs) - Completed(n)), up[Completed(n)])
    /\ RangeAppend(n, hs, h).visited
         = [id \in {NewNodeID(j, n \div Pow2[j]) : j \in 0..Completed(n)} |-> up[id[1]]]

LEMMA RangeAppendDef ==
    ASSUME NEW n \in Nat, NEW hs, NEW h
    PROVE  \E up : Joins(up, n, hs, h)
<1> DEFINE t == Completed(n)
           c == CHOOSE f : IsUp(f, t, hs, h)
<1>1. t \in Nat
  BY CompletedIs
<1> HIDE DEF t
<1>2. IsUp(c, t, hs, h)
  BY <1>1, UpExists, Zenon
<1> DEFINE kept == Append(SubSeq(hs, 1, Len(hs) - t), c[t])
           seen == [id \in {NewNodeID(j, n \div Pow2[j]) : j \in 0..t} |-> c[id[1]]]
<1>3. RangeAppend(n, hs, h) = [hashes |-> kept, visited |-> seen]
  BY DEF RangeAppend, IsUp, UpStep, t
<1> HIDE DEF kept, seen
<1>4. RangeAppend(n, hs, h).hashes = kept /\ RangeAppend(n, hs, h).visited = seen
  BY <1>3
<1> HIDE DEF c
<1>5. Joins(c, n, hs, h)
  BY <1>2, <1>4, Zenon DEF Joins, kept, seen, t
<1> QED  BY <1>5, Zenon

(* What Append keeps is the range of one more leaf, and what it visits are *)
(* the nodes that leaf n + 1 completes, with their hashes.                 *)
THEOREM RangeAppendCorrect ==
    ASSUME NEW n \in Nat
    PROVE  LET r == RangeAppend(n, RangeHashes(n), HashLeaf(n + 1))
           IN  /\ r.hashes = RangeHashes(n + 1)
               /\ DOMAIN r.visited = {NewNodeID(j, n \div Pow2[j]) : j \in 0..Completed(n)}
               /\ \A id \in DOMAIN r.visited : r.visited[id] = NodeMTH(id)
<1> DEFINE t == Completed(n)
           s == RangeNodes(0, n)
           hs == RangeHashes(n)
           ids == {NewNodeID(j, n \div Pow2[j]) : j \in 0..t}
           r == RangeAppend(n, hs, HashLeaf(n + 1))
<1>0. PICK up : Joins(up, n, hs, HashLeaf(n + 1))
  BY RangeAppendDef, Zenon
<1>1. /\ IsUp(up, t, hs, HashLeaf(n + 1))
      /\ r.hashes = Append(SubSeq(hs, 1, Len(hs) - t), up[t])
      /\ r.visited = [id \in ids |-> up[id[1]]]
  BY <1>0, Zenon DEF Joins
<1>2. IsRange(s, n)
  BY RangeNodesIsRange
<1>3. t \in Nat /\ t \in 0..Len(s) /\ Aligned(t, n + 1) /\ Len(s) \in Nat
  <2>1. Len(s) \in Nat
    BY <1>2 DEF IsRange
  <2>2. t \in 0..Len(s)
    BY <1>2, RangeLow
  <2>3. t \in Nat /\ Aligned(t, n + 1)
    BY CompletedIs
  <2> QED  BY <2>1, <2>2, <2>3
<1>4. hs \in Seq(NodeHashes) /\ Len(hs) = Len(s) /\ \A i \in 1..Len(s) : hs[i] = NodeMTH(s[i])
  BY RangeHashesSeq
<1>5. \A j \in 0..(t - 1) : s[Len(s) - j][1] = j /\ Last(s[Len(s) - j]) = (n + 1) - Pow2[j]
  BY <1>2, RangeLow
<1> HIDE DEF r, hs, s, t
<1> DEFINE S == {j \in Nat : j <= t => up[j] = MTH((n + 1) - Pow2[j], n + 1)}
<1>6. 0 \in S
  <2>1. up[0] = HashLeaf(n + 1)
    BY <1>1, <1>3 DEF IsUp, UpStep
  <2>2. (n + 1) - Pow2[0] = n
    BY PowZero
  <2> QED  BY <2>1, <2>2, MthLeaf
<1>7. ASSUME NEW j \in Nat, j \in S PROVE j + 1 \in S
  <2> SUFFICES ASSUME j + 1 <= t PROVE up[j + 1] = MTH((n + 1) - Pow2[j + 1], n + 1)
    OBVIOUS
  <2> DEFINE b == (n + 1) - Pow2[j + 1]
             i == Len(s) - j
  <2>1. i \in 1..Len(s) /\ Len(hs) - (j + 1) + 1 = i
    BY <1>3, <1>4
  <2>2. up[j + 1] = HashChildren(hs[i], up[j])
    <3>1. j + 1 \in 0..t /\ j + 1 # 0 /\ (j + 1) - 1 = j
      OBVIOUS
    <3>2. up[j + 1] = UpStep(up, j + 1, hs, HashLeaf(n + 1))
      BY <1>1, <3>1 DEF IsUp
    <3> QED  BY <3>1, <3>2, <2>1 DEF UpStep
  <2>3. Aligned(j + 1, n + 1)
    BY <1>3, AlignedBelow
  <2>4. Pow2[j] \in Nat /\ Pow2[j] > 0 /\ Pow2[j + 1] = 2 * Pow2[j]
    BY PowNat, PowNext
  <2>5. b \in Nat
    <3>1. Aligned(j + 1, 0) /\ 0 < n + 1
      BY AlignedZero
    <3>2. 0 + Pow2[j + 1] <= n + 1
      BY <2>3, <3>1, AlignedGap
    <3> QED  BY <2>4, <3>2
  <2>6. s[i] \in Nat \X Nat /\ s[i][1] = j /\ Last(s[i]) = b + Pow2[j]
    <3>1. s[i][1] = j /\ Last(s[i]) = (n + 1) - Pow2[j]
      <4>1. j \in 0..(t - 1)
        BY <1>3
      <4> QED  BY <4>1, <1>5
    <3>2. s[i] \in Nat \X Nat
      BY <2>1, <1>2, RangeIn
    <3> QED  BY <3>1, <3>2, <2>4
  <2>7. First(s[i]) = b
    <3>1. Last(s[i]) = First(s[i]) + Pow2[j] /\ First(s[i]) \in Nat
      BY <2>6, NodeFacts
    <3> QED  BY SMTT(30), <3>1, <2>4, <2>5, <2>6
  <2>8. hs[i] = MTH(b, b + Pow2[j])
    BY <1>4, <2>1, <2>6, <2>7 DEF NodeMTH
  <2>9. b + Pow2[j + 1] = n + 1 /\ (n + 1) - Pow2[j] = b + Pow2[j]
    BY <2>4
  <2>10. up[j] = MTH(b + Pow2[j], b + Pow2[j + 1])
    BY <1>3, <1>7, <2>9
  <2> HIDE DEF b, i
  <2>11. MTH(b, b + Pow2[j + 1]) = HashChildren(MTH(b, b + Pow2[j]), MTH(b + Pow2[j], b + Pow2[j + 1]))
    BY <2>5, MthDouble
  <2> QED  BY <2>2, <2>8, <2>9, <2>10, <2>11 DEF b
<1> HIDE DEF S
<1>8. \A j \in 0..t : up[j] = MTH((n + 1) - Pow2[j], n + 1)
  <2>1. Nat \subseteq S
    BY <1>6, <1>7, Induction
  <2> QED  BY <2>1, <1>3 DEF S
<1>9. ASSUME NEW j \in 0..t PROVE LET id == NewNodeID(j, n \div Pow2[j])
                                  IN  id[1] = j /\ id \in Nat \X Nat /\ up[j] = NodeMTH(id)
  <2>1. j \in Nat /\ Aligned(j, n + 1)
    BY <1>3, AlignedBelow
  <2> QED  BY <2>1, <1>8, CompletedNode DEF NodeMTH
<1>10. DOMAIN r.visited = ids /\ \A id \in ids : r.visited[id] = NodeMTH(id)
  <2>1. r.visited = [id \in ids |-> up[id[1]]]
    BY <1>1
  <2> QED  BY <2>1, <1>9
<1> DEFINE q == RangeNodes(0, n + 1)
           p == SubSeq(hs, 1, Len(hs) - t)
<1>11. /\ q \in Seq(Nat \X Nat) /\ Len(q) = Len(s) - t + 1 /\ \A i \in 1..(Len(s) - t) : q[i] = s[i]
       /\ q[Len(s) - t + 1] = NewNodeID(t, n \div Pow2[t])
  <2>1. q = Appended(RangeNodes(0, n), n)
    BY RangeNodesAppend
  <2> HIDE DEF q
  <2>2. IsRange(RangeNodes(0, n), n)
    BY <1>2 DEF s
  <2>3. AppendedTo(RangeNodes(0, n), n)
    BY <2>2, AppendedSeq
  <2> QED  BY <2>1, <2>3, Zenon DEF AppendedTo, s, t
<1>12. /\ RangeHashes(n + 1) \in Seq(NodeHashes) /\ Len(RangeHashes(n + 1)) = Len(q)
       /\ \A i \in 1..Len(q) : RangeHashes(n + 1)[i] = NodeMTH(q[i])
  BY RangeHashesSeq
<1>13. p \in Seq(NodeHashes) /\ Len(p) = Len(s) - t /\ \A i \in 1..(Len(s) - t) : p[i] = hs[i]
  <2> DEFINE m == Len(hs) - t
  <2>1. m \in 0..Len(hs) /\ m = Len(s) - t
    BY <1>3, <1>4
  <2> HIDE DEF m
  <2>2. \A i \in 1..m : hs[i] \in NodeHashes
    BY <1>4, <2>1
  <2>3. /\ SubSeq(hs, 1, m) \in Seq(NodeHashes)
        /\ Len(SubSeq(hs, 1, m)) = IF 1 <= m THEN m - 1 + 1 ELSE 0
        /\ \A i \in 1..(m - 1 + 1) : SubSeq(hs, 1, m)[i] = hs[1 + i - 1]
    BY <2>1, <2>2, SubSeqProperties
  <2>4. p = SubSeq(hs, 1, m)
    BY DEF m
  <2> HIDE DEF p
  <2> QED  BY <2>1, <2>3, <2>4
<1>14. up[t] = NodeMTH(NewNodeID(t, n \div Pow2[t])) /\ up[t] \in NodeHashes
  BY <1>3, <1>9 DEF NodeHashes
<1> HIDE DEF p, q
<1>15. r.hashes = Append(p, up[t])
  BY <1>1 DEF p
<1>16. /\ Append(p, up[t]) \in Seq(NodeHashes) /\ Len(Append(p, up[t])) = Len(s) - t + 1
       /\ \A i \in 1..(Len(s) - t) : Append(p, up[t])[i] = p[i]
       /\ Append(p, up[t])[Len(s) - t + 1] = up[t]
  BY <1>13, <1>14, AppendProperties
<1>17. \A i \in 1..(Len(s) - t + 1) : Append(p, up[t])[i] = RangeHashes(n + 1)[i]
  <2> TAKE i \in 1..(Len(s) - t + 1)
  <2>1. CASE i = Len(s) - t + 1
    BY <2>1, <1>11, <1>12, <1>14, <1>16
  <2>2. CASE i # Len(s) - t + 1
    <3>1. i \in 1..(Len(s) - t) /\ i \in 1..Len(q) /\ i \in 1..Len(s)
      <4>1. Len(s) - t \in Nat /\ Len(s) - t <= Len(s)
        BY <1>3
      <4>2. ASSUME NEW m \in Nat, NEW l \in Nat, m <= l, NEW a \in 1..(m + 1), a # m + 1
            PROVE  a \in 1..m /\ a \in 1..(m + 1) /\ a \in 1..l
        BY <4>2
      <4>3. Len(s) - t + 1 = Len(q) /\ Len(s) \in Nat
        BY <1>3, <1>11
      <4> HIDE DEF s, t, q
      <4> QED  BY <4>1, <4>2, <4>3, <2>2
    <3> QED  BY <3>1, <1>4, <1>11, <1>12, <1>13, <1>16
  <2> QED  BY <2>1, <2>2
<1>18. r.hashes = RangeHashes(n + 1)
  <2> DEFINE a == Append(p, up[t])
             b == RangeHashes(n + 1)
  <2>1. a \in Seq(NodeHashes) /\ b \in Seq(NodeHashes) /\ Len(a) = Len(b)
    BY <1>11, <1>12, <1>16
  <2>2. \A i \in 1..Len(a) : a[i] = b[i]
    BY <1>16, <1>17
  <2> HIDE DEF a, b
  <2>3. a = b
    BY <2>1, <2>2
  <2> QED  BY <1>15, <2>3 DEF a, b
<1> QED  BY <1>10, <1>18 DEF r, hs, t
-----------------------------------------------------------------------------
(* The root of the range. *)

LEMMA ParentOfLeft ==
    ASSUME NEW id \in Nat \X Nat, Aligned(id[1] + 1, First(id))
    PROVE  /\ Parent(id) \in Nat \X Nat /\ Parent(id)[1] = id[1] + 1
           /\ First(Parent(id)) = First(id) /\ Last(Parent(id)) = First(id) + 2 * Pow2[id[1]]
<1> DEFINE k == id[1]
           q == id[2]
<1>1. k \in Nat /\ q \in Nat /\ k + 1 \in Nat
  OBVIOUS
<1>2. Pow2[k] \in Nat /\ Pow2[k] > 0 /\ Pow2[k + 1] = 2 * Pow2[k]
  BY <1>1, PowNat, PowNext
<1>3. PICK p \in Nat : First(id) = p * Pow2[k + 1]
  BY Zenon DEF Aligned
<1>4. p * (2 * Pow2[k]) = (2 * p) * Pow2[k] /\ 2 * p \in Nat
  BY <1>2
<1>5. q = 2 * p
  <2>1. q * Pow2[k] = (2 * p) * Pow2[k]
    BY <1>2, <1>3, <1>4 DEF First
  <2>2. (q * Pow2[k]) \div Pow2[k] = q /\ ((2 * p) * Pow2[k]) \div Pow2[k] = 2 * p
    BY <1>1, <1>2, <1>4, DivExact
  <2> QED  BY <2>1, <2>2
<1>6. Parent(id) = <<k + 1, p>>
  <2>1. q \div 2 = p
    BY <1>5
  <2> QED  BY <2>1 DEF Parent
<1>7. Parent(id) \in Nat \X Nat /\ Parent(id)[1] = k + 1 /\ Parent(id)[2] = p
  BY <1>1, <1>6
<1>8. First(Parent(id)) = First(id)
  BY <1>3, <1>7 DEF First
<1>9. Last(Parent(id)) = First(Parent(id)) + Pow2[k + 1]
  BY <1>7, NodeFacts
<1> QED  BY <1>2, <1>7, <1>8, <1>9

JoinStep(f, i, hs) == IF i = Len(hs) THEN hs[i] ELSE HashChildren(hs[i], f[i + 1])

IsJoin(f, hs) == f = [i \in 1..Len(hs) |-> JoinStep(f, i, hs)]

LEMMA JoinExists ==
    ASSUME NEW hs, Len(hs) \in Nat
    PROVE  \E f : IsJoin(f, hs)
<1> DEFINE L == Len(hs)
           Part(f, d) == f = [i \in (L - d + 1)..L |-> JoinStep(f, i, hs)]
           S == {d \in Nat : d <= L => \E f : Part(f, d)}
<1>1. 0 \in S
  <2>1. Part([i \in (L - 0 + 1)..L |-> 0], 0)
    OBVIOUS
  <2>2. \E f : Part(f, 0)
    BY <2>1
  <2> QED  BY <2>2
<1>2. ASSUME NEW d \in Nat, d \in S PROVE d + 1 \in S
  <2> SUFFICES ASSUME d + 1 <= L PROVE \E f : Part(f, d + 1)
    OBVIOUS
  <2>1. PICK f : Part(f, d)
    BY <1>2
  <2> DEFINE a == L - (d + 1) + 1
             g == [i \in a..L |-> IF i = a THEN JoinStep(f, i, hs) ELSE f[i]]
  <2>2. a \in 1..L /\ a + 1 = L - d + 1
    OBVIOUS
  <2>3. \A i \in (a + 1)..L : g[i] = f[i]
    BY <2>2
  <2>4. ASSUME NEW i \in a..L PROVE g[i] = JoinStep(g, i, hs)
    <3>1. i # L => i + 1 \in (a + 1)..L
      BY <2>2
    <3>2. JoinStep(f, i, hs) = JoinStep(g, i, hs)
      BY <3>1, <2>3 DEF JoinStep
    <3>3. CASE i = a
      BY <3>2, <3>3, <2>2
    <3>4. CASE i # a
      <4>1. i \in (a + 1)..L
        BY <3>4, <2>2
      <4>2. f[i] = JoinStep(f, i, hs)
        BY <4>1, <2>1, <2>2
      <4> QED  BY <4>1, <4>2, <3>2, <2>3
    <3> QED  BY <3>3, <3>4
  <2>5. Part(g, d + 1)
    BY <2>4
  <2> QED  BY <2>5, Zenon
<1> HIDE DEF S
<1>3. L \in S
  BY <1>1, <1>2, Induction
<1>4. PICK f : Part(f, L)
  BY <1>3 DEF S
<1>5. L - L + 1 = 1
  OBVIOUS
<1>6. IsJoin(f, hs)
  BY <1>4, <1>5 DEF IsJoin
<1> QED  BY <1>6, Zenon

RootJoins(join, n, hs) ==
    /\ IsJoin(join, hs)
    /\ GetRootHash(n, hs).root = join[1]
    /\ DOMAIN GetRootHash(n, hs).visited = {Parent(RangeNodes(0, n)[i]) : i \in 1..(Len(hs) - 1)}

LEMMA GetRootHashDef ==
    ASSUME NEW n, NEW hs, Len(hs) \in Nat
    PROVE  \E join : RootJoins(join, n, hs)
<1> DEFINE c == CHOOSE f : IsJoin(f, hs)
<1>1. IsJoin(c, hs)
  BY JoinExists, Zenon
<1> DEFINE ids == {Parent(RangeNodes(0, n)[i]) : i \in 1..(Len(hs) - 1)}
           seen == [id \in ids |-> c[CHOOSE i \in 1..(Len(hs) - 1) : Parent(RangeNodes(0, n)[i]) = id]]
<1>2. GetRootHash(n, hs) = [root |-> c[1], visited |-> seen]
  BY DEF GetRootHash, IsJoin, JoinStep
<1>3. DOMAIN seen = ids
  OBVIOUS
<1> HIDE DEF seen, c, ids
<1>4. GetRootHash(n, hs).root = c[1] /\ GetRootHash(n, hs).visited = seen
  BY <1>2
<1>5. RootJoins(c, n, hs)
  BY <1>1, <1>3, <1>4, Zenon DEF RootJoins, ids
<1> QED  BY <1>5, Zenon

(* The root of the range is the tree hash, and the nodes that are visited  *)
(* reach beyond the range.                                                 *)
THEOREM RootHashCorrect ==
    ASSUME NEW n \in Nat, n > 0
    PROVE  LET r == GetRootHash(n, RangeHashes(n))
           IN  /\ r.root = MTH(0, n)
               /\ \A id \in DOMAIN r.visited :
                     id \in (1..n) \X (0..n) /\ First(id) < n /\ n < Last(id)
<1> DEFINE s == RangeNodes(0, n)
           hs == RangeHashes(n)
           L == Len(s)
           r == GetRootHash(n, hs)
<1>1. IsRange(s, n)
  BY RangeNodesIsRange
<1>2. L \in Nat /\ s # <<>> /\ \A i \in 1..L : s[i] \in Nat \X Nat
  BY <1>1 DEF IsRange
<1>3. Len(hs) = L /\ \A i \in 1..L : hs[i] = MTH(First(s[i]), Last(s[i]))
  BY RangeHashesSeq DEF NodeMTH
<1>4. PICK join : RootJoins(join, n, hs)
  BY <1>2, <1>3, GetRootHashDef, Zenon
<1>5. /\ \A i \in 1..L : join[i] = JoinStep(join, i, hs)
      /\ r.root = join[1] /\ DOMAIN r.visited = {Parent(s[i]) : i \in 1..(L - 1)}
  BY <1>3, <1>4 DEF RootJoins, IsJoin
<1> HIDE DEF r, hs, s
<1>6. L > 0 /\ L \in 1..L
  BY <1>1, <1>2 DEF IsRange
<1>7. ASSUME NEW i \in 1..(L - 1)
      PROVE  /\ i \in 1..L /\ i + 1 \in 1..L /\ First(s[i + 1]) = Last(s[i])
             /\ Last(s[i]) < n /\ n < First(s[i]) + 2 * Pow2[s[i][1]]
  <2>1. i \in 1..L /\ i + 1 \in 1..L /\ i # L
    BY <1>2
  <2>2. First(s[i + 1]) = Last(s[i])
    BY <1>1 DEF IsRange
  <2> QED  BY <1>1, <2>1, <2>2, RangeTail
<1> DEFINE Good(i) == join[i] = MTH(First(s[i]), n)
           S == {d \in Nat : d < L => Good(L - d)}
<1>8. 0 \in S
  <2>1. Last(s[L]) = n
    BY <1>1, <1>2 DEF IsRange
  <2>2. join[L] = hs[L]
    BY <1>3, <1>5, <1>6 DEF JoinStep
  <2>3. L - 0 = L
    BY <1>2
  <2> QED  BY <1>3, <1>6, <2>1, <2>2, <2>3
<1>9. ASSUME NEW i \in 1..(L - 1), Good(i + 1) PROVE Good(i)
  <2>1. join[i] = HashChildren(hs[i], join[i + 1])
    BY <1>2, <1>3, <1>5, <1>7 DEF JoinStep
  <2> DEFINE b == First(s[i])
             k == s[i][1]
  <2>2. b \in Nat /\ k \in Nat /\ Last(s[i]) = b + Pow2[k] /\ Pow2[k] \in Nat
    BY <1>2, <1>7, NodeFacts
  <2>3. hs[i] = MTH(b, b + Pow2[k]) /\ join[i + 1] = MTH(b + Pow2[k], n)
    BY <1>3, <1>7, <1>9, <2>2
  <2>4. Pow2[k] < n - b /\ n - b <= 2 * Pow2[k]
    BY SMTT(30), <1>7, <2>2
  <2> HIDE DEF b, k
  <2>5. MTH(b, n) = HashChildren(MTH(b, b + Pow2[k]), MTH(b + Pow2[k], n))
    BY <2>2, <2>4, MthSplit
  <2> QED  BY <2>1, <2>3, <2>5 DEF b
<1>10. ASSUME NEW d \in Nat, d \in S PROVE d + 1 \in S
  <2> SUFFICES ASSUME d + 1 < L PROVE Good(L - (d + 1))
    OBVIOUS
  <2>1. L - (d + 1) \in 1..(L - 1) /\ (L - (d + 1)) + 1 = L - d
    BY <1>2
  <2>2. Good(L - d)
    BY <1>10
  <2> HIDE DEF Good
  <2> QED  BY <2>1, <2>2, <1>9
<1> HIDE DEF S
<1>11. Good(1)
  <2>1. L - 1 \in Nat /\ L - 1 < L /\ L - (L - 1) = 1
    BY <1>2, <1>6
  <2>2. L - 1 \in S
    BY <1>8, <1>10, <2>1, Induction
  <2> HIDE DEF Good
  <2> QED  BY <2>1, <2>2 DEF S
<1>12. r.root = MTH(0, n)
  BY <1>1, <1>2, <1>5, <1>11 DEF IsRange
<1>13. ASSUME NEW i \in 1..(L - 1)
       PROVE  Parent(s[i]) \in (1..n) \X (0..n) /\ First(Parent(s[i])) < n /\ n < Last(Parent(s[i]))
  <2> DEFINE id == Parent(s[i])
  <2>1. s[i] \in Nat \X Nat /\ Aligned(s[i][1] + 1, First(s[i]))
    BY <1>1, <1>2, <1>7, RangeEven
  <2>2. /\ id \in Nat \X Nat /\ id[1] = s[i][1] + 1
        /\ First(id) = First(s[i]) /\ Last(id) = First(s[i]) + 2 * Pow2[s[i][1]]
    BY <2>1, ParentOfLeft
  <2>3. First(s[i]) \in Nat /\ Last(s[i]) = First(s[i]) + Pow2[s[i][1]] /\ Pow2[s[i][1]] >= s[i][1] + 1
        /\ Pow2[s[i][1]] \in Nat /\ s[i][1] \in Nat
    BY <2>1, NodeFacts, PowNat
  <2>4. First(id) < n /\ n < Last(id) /\ s[i][1] + 1 <= n
    BY SMTT(30), <1>7, <2>2, <2>3
  <2>5. id[2] <= First(id)
    <3>1. id[1] \in Nat /\ id[2] \in Nat
      BY <2>2
    <3>2. Pow2[id[1]] \in Nat /\ Pow2[id[1]] > 0
      BY <2>2, NodeFacts
    <3>3. id[2] <= id[2] * Pow2[id[1]]
      BY <3>1, <3>2
    <3> QED  BY <3>3 DEF First
  <2> HIDE DEF id
  <2>6. id[1] \in 1..n /\ id[2] \in 0..n
    <3>1. id[2] \in Nat /\ id[2] <= n
      BY <2>2, <2>3, <2>4, <2>5
    <3>2. id[1] \in Nat /\ 1 <= id[1] /\ id[1] <= n
      BY <2>2, <2>3, <2>4
    <3> QED  BY <3>1, <3>2
  <2>7. id = <<id[1], id[2]>>
    BY <2>2
  <2> QED  BY <2>4, <2>6, <2>7 DEF id
<1> QED  BY <1>5, <1>12, <1>13 DEF r, hs
=============================================================================
