-------------------------- MODULE TreeStateProofs ---------------------------
(***************************************************************************)
(* Proofs about TreeState: what is read back from a column is what was     *)
(* written into it, for any number of hashes, and a column that is cut is  *)
(* never taken for a whole one; handlers that race leave a row that can be *)
(* restored.                                                               *)
(***************************************************************************)
EXTENDS TreeState, CompactRangeProofs
-----------------------------------------------------------------------------
(* Numbers as bytes. *)

IsShift(f, n, k) == f = [i \in 0..k |-> IF i = 0 THEN n ELSE f[i - 1] \div 256]

LEMMA ShiftExists ==
    ASSUME NEW n, NEW k \in Nat
    PROVE  \E f : IsShift(f, n, k)
<1> DEFINE S == {d \in Nat : \E f : IsShift(f, n, d)}
<1>1. 0 \in S
  <2> DEFINE f == [i \in 0..0 |-> n]
  <2>0. \A i \in 0..0 : i = 0
    OBVIOUS
  <2>1. f = [i \in 0..0 |-> IF i = 0 THEN n ELSE f[i - 1] \div 256]
    BY <2>0, Zenon
  <2> HIDE DEF f
  <2>2. IsShift(f, n, 0)
    BY <2>1, Zenon DEF IsShift
  <2> HIDE DEF f
  <2> QED  BY <2>2
<1>2. ASSUME NEW d \in Nat, d \in S PROVE d + 1 \in S
  <2>1. PICK f : IsShift(f, n, d)
    BY <1>2
  <2> DEFINE g == [i \in 0..(d + 1) |-> IF i = d + 1 THEN f[d] \div 256 ELSE f[i]]
  <2>2. \A i \in 0..d : g[i] = f[i]
    OBVIOUS
  <2>3. ASSUME NEW i \in 0..(d + 1) PROVE g[i] = IF i = 0 THEN n ELSE g[i - 1] \div 256
    <3>1. CASE i = d + 1
      BY <3>1, <2>2
    <3>2. CASE i \in 0..d
      BY <3>2, <2>1, <2>2 DEF IsShift
    <3> QED  BY <3>1, <3>2
  <2>4. g = [i \in 0..(d + 1) |-> IF i = 0 THEN n ELSE g[i - 1] \div 256]
    BY <2>3
  <2> HIDE DEF g
  <2>5. IsShift(g, n, d + 1)
    BY <2>4, Zenon DEF IsShift
  <2> QED  BY <2>5
<1> HIDE DEF S
<1>3. k \in S
  BY <1>1, <1>2, Induction
<1> QED  BY <1>3 DEF S

LEMMA ShiftUnique ==
    ASSUME NEW n, NEW k \in Nat, NEW m \in Nat, k <= m, NEW f, NEW g, IsShift(f, n, k), IsShift(g, n, m)
    PROVE  f[k] = g[k]
<1> DEFINE S == {i \in Nat : i <= k => f[i] = g[i]}
<1>1. 0 \in S
  BY DEF IsShift
<1>2. ASSUME NEW i \in Nat, i \in S PROVE i + 1 \in S
  <2> SUFFICES ASSUME i + 1 <= k PROVE f[i + 1] = g[i + 1]
    OBVIOUS
  <2>1. f[i] = g[i] /\ i + 1 \in 0..k /\ i + 1 \in 0..m
    BY <1>2
  <2>2. f[i + 1] = f[i] \div 256 /\ g[i + 1] = g[i] \div 256
    BY <2>1 DEF IsShift
  <2> QED  BY <2>1, <2>2
<1> HIDE DEF S
<1>3. k \in S
  BY <1>1, <1>2, Induction
<1> QED  BY <1>3 DEF S

LEMMA ShiftedIs ==
    ASSUME NEW n, NEW k \in Nat, NEW f, IsShift(f, n, k)
    PROVE  Shifted(n, k) = f[k]
<1> DEFINE c == CHOOSE g : IsShift(g, n, k)
<1>1. IsShift(c, n, k)
  BY Zenon
<1>2. Shifted(n, k) = c[k]
  BY DEF Shifted, IsShift
<1> HIDE DEF c
<1>3. c[k] = f[k]
  BY <1>1, ShiftUnique
<1> QED  BY <1>2, <1>3

LEMMA ShiftedZero == ASSUME NEW n PROVE Shifted(n, 0) = n
<1>1. PICK f : IsShift(f, n, 0)
  BY ShiftExists
<1>2. f[0] = n
  BY <1>1 DEF IsShift
<1> QED  BY <1>1, <1>2, ShiftedIs

LEMMA ShiftedNext == ASSUME NEW n, NEW k \in Nat PROVE Shifted(n, k + 1) = Shifted(n, k) \div 256
<1>1. PICK f : IsShift(f, n, k)
  BY ShiftExists
<1>2. PICK g : IsShift(g, n, k + 1)
  BY ShiftExists
<1>3. g[k + 1] = g[k] \div 256
  BY <1>2 DEF IsShift
<1>4. f[k] = g[k]
  BY <1>1, <1>2, ShiftUnique
<1> QED  BY <1>1, <1>2, <1>3, <1>4, ShiftedIs

LEMMA ShiftedNat == ASSUME NEW n \in Nat PROVE \A k \in Nat : Shifted(n, k) \in Nat
<1> DEFINE S == {k \in Nat : Shifted(n, k) \in Nat}
<1>1. 0 \in S
  BY ShiftedZero
<1>2. ASSUME NEW k \in Nat, k \in S PROVE k + 1 \in S
  BY <1>2, ShiftedNext
<1> HIDE DEF S
<1>3. Nat \subseteq S
  BY <1>1, <1>2, Induction
<1> QED  BY <1>3 DEF S

(* A smaller number has fewer bytes. *)
LEMMA ShiftedMonotone ==
    ASSUME NEW m \in Nat, NEW n \in Nat, m <= n
    PROVE  \A k \in Nat : Shifted(m, k) <= Shifted(n, k)
<1> DEFINE S == {k \in Nat : Shifted(m, k) <= Shifted(n, k)}
<1>1. 0 \in S
  BY ShiftedZero
<1>2. ASSUME NEW k \in Nat, k \in S PROVE k + 1 \in S
  <2>1. ASSUME NEW a \in Nat, NEW b \in Nat, a <= b PROVE a \div 256 <= b \div 256
    BY <2>1
  <2>2. Shifted(m, k) \in Nat /\ Shifted(n, k) \in Nat
    BY ShiftedNat
  <2>3. Shifted(m, k + 1) = Shifted(m, k) \div 256 /\ Shifted(n, k + 1) = Shifted(n, k) \div 256
    BY ShiftedNext
  <2>4. Shifted(m, k) \div 256 <= Shifted(n, k) \div 256
    BY <1>2, <2>1, <2>2
  <2> QED  BY <2>3, <2>4
<1> HIDE DEF S
<1>3. Nat \subseteq S
  BY <1>1, <1>2, Induction
<1> QED  BY <1>3 DEF S

(* n has no more bytes than the width. *)
Fits(width, n) == n \in Nat /\ Shifted(n, width) = 0

LEMMA FitsBelow ==
    ASSUME NEW w \in Nat, NEW m \in Nat, NEW n, Fits(w, n), m <= n
    PROVE  Fits(w, m)
<1>1. n \in Nat /\ Shifted(n, w) = 0
  BY DEF Fits
<1>2. Shifted(m, w) <= 0 /\ Shifted(m, w) \in Nat
  BY <1>1, ShiftedMonotone, ShiftedNat
<1> QED  BY <1>2 DEF Fits

LEMMA FitsSmall == ASSUME NEW n \in Nat, n < 256 PROVE Fits(4, n)
<1>1. Shifted(n, 0) = n
  BY ShiftedZero
<1>2. /\ Shifted(n, 0 + 1) = Shifted(n, 0) \div 256 /\ Shifted(n, 1 + 1) = Shifted(n, 1) \div 256
      /\ Shifted(n, 2 + 1) = Shifted(n, 2) \div 256 /\ Shifted(n, 3 + 1) = Shifted(n, 3) \div 256
  BY ShiftedNext
<1>3. 0 + 1 = 1 /\ 1 + 1 = 2 /\ 2 + 1 = 3 /\ 3 + 1 = 4
  OBVIOUS
<1>4. n \div 256 = 0 /\ 0 \div 256 = 0
  OBVIOUS
<1> QED  BY <1>1, <1>2, <1>3, <1>4 DEF Fits

LEMMA PowEight == Pow2[8] = 256
<1>1. /\ Pow2[0 + 1] = 2 * Pow2[0] /\ Pow2[1 + 1] = 2 * Pow2[1]
      /\ Pow2[2 + 2] = Pow2[2] * Pow2[2] /\ Pow2[4 + 4] = Pow2[4] * Pow2[4]
  BY PowNext, PowSum
<1>2. 0 + 1 = 1 /\ 1 + 1 = 2 /\ 2 + 2 = 4 /\ 4 + 4 = 8
  OBVIOUS
<1>3. Pow2[4] = 16
  BY <1>1, <1>2, PowZero
<1> QED  BY <1>1, <1>2, <1>3

LEMMA PowPositive == ASSUME NEW j \in Nat PROVE Pow2[j] \in Nat /\ Pow2[j] >= 1
<1>1. Pow2[j] \in Nat /\ Pow2[j] >= j + 1
  BY PowNat
<1> QED  BY <1>1

LEMMA PowByte == ASSUME NEW j \in Nat PROVE Pow2[8 + j] = 256 * Pow2[j]
<1>1. Pow2[8 + j] = Pow2[8] * Pow2[j]
  BY PowSum
<1> QED  BY <1>1, PowEight, Zenon

(* Numbers of w bytes are below 256^w. *)
LEMMA FitsPower ==
    ASSUME NEW w \in Nat, NEW n, Fits(w, n)
    PROVE  n \in Nat /\ n < Pow2[8 * w]
<1> DEFINE S == {d \in Nat : d <= w => Shifted(n, w - d) < Pow2[8 * d]}
<1>1. n \in Nat /\ \A k \in Nat : Shifted(n, k) \in Nat
  BY ShiftedNat DEF Fits
<1>2. 0 \in S
  <2>1. w - 0 = w /\ 8 * 0 = 0
    OBVIOUS
  <2> QED  BY <2>1, PowZero DEF Fits
<1>3. ASSUME NEW d \in Nat, d \in S PROVE d + 1 \in S
  <2> SUFFICES ASSUME d + 1 <= w PROVE Shifted(n, w - (d + 1)) < Pow2[8 * (d + 1)]
    OBVIOUS
  <2> DEFINE k == w - (d + 1)
  <2>1. k \in Nat /\ k + 1 = w - d /\ d <= w /\ 8 * d \in Nat /\ 8 * (d + 1) = 8 + 8 * d
    OBVIOUS
  <2>2. Shifted(n, k + 1) < Pow2[8 * d]
    BY <1>3, <2>1
  <2>3. Pow2[8 * (d + 1)] = 256 * Pow2[8 * d] /\ Pow2[8 * d] \in Nat
    <3>2. Pow2[8 + 8 * d] = 256 * Pow2[8 * d] /\ Pow2[8 * d] \in Nat
      BY <2>1, PowByte, PowPositive
    <3> QED  BY <2>1, <3>2, Zenon
  <2>4. Shifted(n, k + 1) = Shifted(n, k) \div 256 /\ Shifted(n, k) \in Nat
    BY <1>1, <2>1, ShiftedNext
  <2>5. ASSUME NEW x \in Nat, NEW c \in Nat, x \div 256 < c PROVE x < 256 * c
    BY <2>5
  <2>6. Shifted(n, k) < 256 * Pow2[8 * d]
    BY <2>2, <2>3, <2>4, <2>5
  <2> QED  BY <2>3, <2>6
<1> HIDE DEF S
<1>4. w \in S
  BY <1>2, <1>3, Induction
<1>5. w - w = 0 /\ w <= w
  OBVIOUS
<1>6. Shifted(n, 0) < Pow2[8 * w]
  BY <1>4, <1>5 DEF S
<1> QED  BY <1>1, <1>6, ShiftedZero

(* The range of a tree has a node on each of its 64 levels at most. *)
LEMMA RangeShort ==
    ASSUME NEW n, Fits(8, n)
    PROVE  /\ Fits(4, Len(RangeNodes(0, n)))
           /\ \A i \in 1..Len(RangeNodes(0, n)) : Fits(4, RangeNodes(0, n)[i][1])
                                                  /\ Fits(8, RangeNodes(0, n)[i][2])
<1> DEFINE s == RangeNodes(0, n)
           L == Len(s)
           S == {d \in Nat : d < L => d <= s[L - d][1]}
<1>1. n \in Nat /\ n < Pow2[64]
  <2>1. 8 * 8 = 64
    OBVIOUS
  <2>2. n \in Nat /\ n < Pow2[8 * 8]
    BY FitsPower
  <2> QED  BY <2>1, <2>2
<1>2. IsRange(s, n)
  BY <1>1, RangeNodesIsRange
<1>3. L \in Nat /\ \A i \in 1..(L - 1) : s[i + 1][1] < s[i][1]
  BY <1>2 DEF IsRange
<1>4. \A i \in 1..L : s[i] \in Nat \X Nat
  BY <1>2, RangeIn
<1>5. ASSUME NEW i \in 1..L PROVE s[i][1] \in Nat /\ s[i][2] \in Nat /\ s[i][1] < 64 /\ s[i][2] <= n
  <2>1. s[i] \in Nat \X Nat /\ Last(s[i]) <= n
    BY <1>1, <1>2, <1>4, RangeTail
  <2> DEFINE k == s[i][1]
             q == s[i][2]
  <2>2. k \in Nat /\ q \in Nat
    BY <2>1
  <2>3. Pow2[k] \in Nat /\ Pow2[k] >= 1
    <3> HIDE DEF k
    <3> QED  BY <2>2, PowPositive
  <2>4. (q + 1) * Pow2[k] <= n
    BY <2>1 DEF Last
  <2> HIDE DEF k, q, s
  <2>5. ASSUME NEW x \in Nat, NEW w \in Nat, w >= 1, (x + 1) * w <= n PROVE x <= n /\ w <= n
    <3>1. x * w \in Nat /\ (x + 1) * w = x * w + w /\ x * w >= x
      BY <2>5
    <3> QED  BY <1>1, <2>5, <3>1
  <2>6. q <= n /\ Pow2[k] <= n
    BY <2>2, <2>3, <2>4, <2>5
  <2>7. k < 64
    <3> SUFFICES ASSUME 64 <= k PROVE FALSE
      BY <2>2
    <3>1. Pow2[64] <= Pow2[k]
      BY <2>2, PowAligned
    <3>2. Pow2[64] \in Nat
      BY PowNat
    <3> QED  BY <1>1, <2>3, <2>6, <3>1, <3>2
  <2> QED  BY <2>2, <2>6, <2>7 DEF k, q
<1> HIDE DEF s
<1>6. 0 \in S
  BY <1>3, <1>5
<1>7. ASSUME NEW d \in Nat, d \in S PROVE d + 1 \in S
  <2> SUFFICES ASSUME d + 1 < L PROVE d + 1 <= s[L - (d + 1)][1]
    OBVIOUS
  <2> DEFINE i == L - (d + 1)
  <2>1. i \in 1..(L - 1) /\ i \in 1..L /\ i + 1 = L - d /\ i + 1 \in 1..L /\ d < L
    BY <1>3
  <2>2. d <= s[i + 1][1]
    BY <1>7, <2>1
  <2> HIDE DEF i
  <2>3. s[i + 1][1] < s[i][1] /\ s[i][1] \in Nat /\ s[i + 1][1] \in Nat
    BY <1>3, <1>5, <2>1
  <2> QED  BY <2>2, <2>3 DEF i
<1> HIDE DEF S
<1>8. Nat \subseteq S
  BY <1>6, <1>7, Induction
<1>9. L <= 64
  <2> SUFFICES ASSUME L > 64 PROVE FALSE
    BY <1>3
  <2>1. 64 \in S
    BY <1>8
  <2>2. 64 <= s[L - 64][1] /\ L - 64 \in 1..L
    BY <1>3, <2>1 DEF S
  <2>3. s[L - 64][1] \in Nat /\ s[L - 64][1] < 64
    BY <1>5, <2>2
  <2> QED  BY <2>2, <2>3
<1>10. Fits(4, L)
  BY <1>3, <1>9, FitsSmall
<1>11. ASSUME NEW i \in 1..L PROVE Fits(4, s[i][1]) /\ Fits(8, s[i][2])
  BY <1>5, FitsSmall, FitsBelow
<1> QED  BY <1>10, <1>11 DEF s

IsValue(f, b, n) == f = [i \in 0..n |-> IF i = 0 THEN 0 ELSE 256 * f[i - 1] + b[i].value]

LEMMA ValueExists ==
    ASSUME NEW b, NEW n \in Nat
    PROVE  \E f : IsValue(f, b, n)
<1> DEFINE S == {d \in Nat : \E f : IsValue(f, b, d)}
<1>1. 0 \in S
  <2> DEFINE f == [i \in 0..0 |-> 0]
  <2>0. \A i \in 0..0 : i = 0
    OBVIOUS
  <2>1. f = [i \in 0..0 |-> IF i = 0 THEN 0 ELSE 256 * f[i - 1] + b[i].value]
    BY <2>0, Zenon
  <2> HIDE DEF f
  <2>2. IsValue(f, b, 0)
    BY <2>1, Zenon DEF IsValue
  <2> HIDE DEF f
  <2> QED  BY <2>2
<1>2. ASSUME NEW d \in Nat, d \in S PROVE d + 1 \in S
  <2>1. PICK f : IsValue(f, b, d)
    BY <1>2
  <2> DEFINE last == 256 * f[d] + b[(d + 1)].value
             g == [i \in 0..(d + 1) |-> IF i = d + 1 THEN last ELSE f[i]]
  <2>2. (\A i \in 0..d : g[i] = f[i]) /\ g[d + 1] = last
    OBVIOUS
  <2>3. ASSUME NEW i \in 0..(d + 1) PROVE g[i] = IF i = 0 THEN 0 ELSE 256 * g[i - 1] + b[i].value
    <3>1. CASE i = d + 1
      <4>1. g[i] = last /\ i # 0 /\ i - 1 = d /\ g[d] = f[d]
        BY <2>2, <3>1
      <4> HIDE DEF g, last
      <4>2. g[i - 1] = f[d]
        BY <4>1, Zenon
      <4>3. 256 * g[i - 1] + b[i].value = last
        BY <3>1, <4>2, Zenon DEF last
      <4> QED  BY <4>1, <4>3, Zenon
    <3>2. CASE i \in 0..d
      <4>1. g[i] = f[i] /\ (i # 0 => g[i - 1] = f[i - 1])
        BY <2>2, <3>2
      <4> HIDE DEF g
      <4>2. f[i] = IF i = 0 THEN 0 ELSE 256 * f[i - 1] + b[i].value
        BY <2>1, <3>2, Zenon DEF IsValue
      <4> QED  BY <4>1, <4>2, Zenon
    <3> QED  BY <3>1, <3>2
  <2>4. g = [i \in 0..(d + 1) |-> IF i = 0 THEN 0 ELSE 256 * g[i - 1] + b[i].value]
    BY <2>3
  <2> HIDE DEF g
  <2>5. IsValue(g, b, d + 1)
    BY <2>4, Zenon DEF IsValue
  <2> QED  BY <2>5
<1> HIDE DEF S
<1>3. n \in S
  BY <1>1, <1>2, Induction
<1> QED  BY <1>3 DEF S

LEMMA UintIs ==
    ASSUME NEW b, Len(b) \in Nat
    PROVE  \E f : IsValue(f, b, Len(b)) /\ Uint(b) = f[Len(b)]
<1> DEFINE n == Len(b)
           c == CHOOSE f : IsValue(f, b, n)
<1> HIDE DEF n
<1>1. n \in Nat
  BY DEF n
<1>2. IsValue(c, b, n)
  BY <1>1, ValueExists, Zenon
<1>3. Uint(b) = c[n]
  BY DEF Uint, IsValue, n
<1> HIDE DEF c
<1> QED  BY <1>2, <1>3, Zenon DEF n

AreBytes(b, w, n) ==
    /\ Len(b) = w /\ DOMAIN b = 1..w
    /\ \A k \in 1..w : /\ b[k] = [of |-> Nil, value |-> Shifted(n, w - k) % 256]
                       /\ Shifted(n, w - k) % 256 \in Nat

LEMMA BigEndianIs ==
    ASSUME NEW w \in Nat, NEW n \in Nat
    PROVE  AreBytes(BigEndian(w, n), w, n)
<1>1. BigEndian(w, n) = [k \in 1..w |-> [of |-> Nil, value |-> Shifted(n, w - k) % 256]]
  BY DEF BigEndian, Byte
<1>2. ASSUME NEW k \in 1..w PROVE Shifted(n, w - k) % 256 \in Nat
  <2>1. w - k \in Nat
    OBVIOUS
  <2>2. Shifted(n, w - k) \in Nat
    BY <2>1, ShiftedNat
  <2> QED  BY <2>2
<1> DEFINE b == BigEndian(w, n)
<1>3. b = [k \in 1..w |-> [of |-> Nil, value |-> Shifted(n, w - k) % 256]]
  BY <1>1
<1> HIDE DEF b
<1>4. AreBytes(b, w, n)
  BY <1>2, <1>3 DEF AreBytes
<1> QED  BY <1>4 DEF b

LEMMA BigEndianLen ==
    ASSUME NEW w \in Nat, NEW n \in Nat
    PROVE  Len(BigEndian(w, n)) = w
BY BigEndianIs, Zenon DEF AreBytes

(* What BigEndian writes, Uint reads. *)
LEMMA UintBigEndian ==
    ASSUME NEW w \in Nat, NEW n, Fits(w, n)
    PROVE  Uint(BigEndian(w, n)) = n
<1> DEFINE b == BigEndian(w, n)
<1>1. n \in Nat /\ Shifted(n, w) = 0
  BY DEF Fits
<1>2. Len(b) = w /\ \A k \in 1..w : b[k] = [of |-> Nil, value |-> Shifted(n, w - k) % 256]
  <2>1. AreBytes(b, w, n)
    BY <1>1, BigEndianIs
  <2> HIDE DEF b
  <2> QED  BY <2>1 DEF AreBytes
<1> HIDE DEF b
<1>3. PICK f : IsValue(f, b, w) /\ Uint(b) = f[w]
  BY <1>2, UintIs
<1> DEFINE S == {k \in Nat : k <= w => f[k] = Shifted(n, w - k)}
<1>4. 0 \in S
  <2>1. f[0] = 0
    BY <1>3 DEF IsValue
  <2>2. w - 0 = w
    OBVIOUS
  <2> QED  BY <1>1, <2>1, <2>2
<1>5. ASSUME NEW k \in Nat, k \in S PROVE k + 1 \in S
  <2> SUFFICES ASSUME k + 1 <= w PROVE f[k + 1] = Shifted(n, w - (k + 1))
    OBVIOUS
  <2> DEFINE j == w - (k + 1)
  <2>1. j \in Nat /\ j + 1 = w - k /\ k + 1 \in 1..w /\ (k + 1) - 1 = k /\ k + 1 \in 0..w /\ k + 1 # 0
    OBVIOUS
  <2>2. f[k] = Shifted(n, j + 1)
    BY <1>5, <2>1
  <2>3. b[k + 1].value = Shifted(n, j) % 256
    BY <1>2, <2>1
  <2> HIDE DEF j
  <2>4. f[k + 1] = 256 * f[(k + 1) - 1] + b[k + 1].value
    BY <1>3, <2>1, Zenon DEF IsValue
  <2>5. Shifted(n, j + 1) = Shifted(n, j) \div 256 /\ Shifted(n, j) \in Nat
    <3>1. Shifted(n, j) \in Nat
      BY <1>1, <2>1, ShiftedNat
    <3> QED  BY <2>1, <3>1, ShiftedNext
  <2>6. ASSUME NEW x \in Nat PROVE 256 * (x \div 256) + (x % 256) = x
    OBVIOUS
  <2>7. f[k + 1] = 256 * (Shifted(n, j) \div 256) + (Shifted(n, j) % 256)
    BY <2>1, <2>2, <2>3, <2>4, <2>5
  <2>8. f[k + 1] = Shifted(n, j)
    BY <2>5, <2>6, <2>7
  <2> QED  BY <2>8 DEF j
<1> HIDE DEF S
<1>6. w \in S
  BY <1>4, <1>5, Induction
<1>7. f[w] = Shifted(n, w - w) /\ w - w = 0
  BY <1>6 DEF S
<1> QED  BY <1>3, <1>7, ShiftedZero DEF b
-----------------------------------------------------------------------------
(* Columns: what one turn of a decoder reads. *)

Bytes(T) == [of : T \cup {Nil}, value : Nat]

LEMMA PartIs ==
    ASSUME NEW T, NEW s \in Seq(T), NEW a \in Nat, NEW b \in Nat, NEW t \in Seq(T),
           a >= 1, b <= Len(s), a + Len(t) = b + 1,
           \A k \in 1..Len(t) : s[(a - 1) + k] = t[k]
    PROVE  SubSeq(s, a, b) = t
<1>1. Len(t) \in Nat /\ Len(s) \in Nat /\ t = [k \in 1..Len(t) |-> t[k]]
  OBVIOUS
<1>2. SubSeq(s, a, b) = [k \in 1..(1 + b - a) |-> s[(a - 1) + k]]
  OBVIOUS
<1>3. 1 + b - a = Len(t)
  BY <1>1
<1> QED  BY <1>1, <1>2, <1>3

(* z is s followed by t. *)
Joined(z, s, t, T) ==
    /\ z \in Seq(T) /\ Len(z) = Len(s) + Len(t)
    /\ \A k \in 1..Len(s) : z[k] = s[k]
    /\ \A k \in 1..Len(t) : z[Len(s) + k] = t[k]

LEMMA JoinIs ==
    ASSUME NEW T, NEW s \in Seq(T), NEW t \in Seq(T)
    PROVE  Joined(s \o t, s, t, T)
<1>1. Len(s) \in Nat /\ Len(t) \in Nat
  OBVIOUS
<1>2. s \o t \in Seq(T) /\ Len(s \o t) = Len(s) + Len(t)
  OBVIOUS
<1>3. \A k \in 1..(Len(s) + Len(t)) : (s \o t)[k] = IF k <= Len(s) THEN s[k] ELSE t[k - Len(s)]
  OBVIOUS
<1>4. ASSUME NEW k \in 1..Len(s) PROVE (s \o t)[k] = s[k]
  BY <1>1, <1>3
<1>5. ASSUME NEW k \in 1..Len(t) PROVE (s \o t)[Len(s) + k] = t[k]
  <2>1. Len(s) + k \in 1..(Len(s) + Len(t)) /\ ~ (Len(s) + k <= Len(s)) /\ (Len(s) + k) - Len(s) = k
    BY <1>1
  <2> QED  BY <1>3, <2>1
<1> QED  BY <1>2, <1>4, <1>5 DEF Joined

LEMMA BigEndianIn ==
    ASSUME NEW T, NEW w \in Nat, NEW n \in Nat
    PROVE  BigEndian(w, n) \in Seq(Bytes(T)) /\ Len(BigEndian(w, n)) = w
<1> DEFINE b == BigEndian(w, n)
<1>1. /\ Len(b) = w /\ DOMAIN b = 1..w
      /\ \A k \in 1..w : /\ b[k] = [of |-> Nil, value |-> Shifted(n, w - k) % 256]
                         /\ Shifted(n, w - k) % 256 \in Nat
  <2>1. AreBytes(b, w, n)
    BY BigEndianIs
  <2> HIDE DEF b
  <2> QED  BY <2>1 DEF AreBytes
<1>2. b = [k \in 1..w |-> [of |-> Nil, value |-> Shifted(n, w - k) % 256]]
  BY DEF BigEndian, Byte
<1> HIDE DEF b
<1>3. \A k \in 1..w : [of |-> Nil, value |-> Shifted(n, w - k) % 256] \in Bytes(T)
  BY <1>1 DEF Bytes
<1>4. \A k \in 1..w : b[k] \in Bytes(T)
  BY <1>1, <1>3
<1>5. b = [k \in 1..w |-> b[k]]
  BY <1>1, <1>2
<1>6. b \in Seq(Bytes(T)) /\ Len(b) = w
  BY <1>4, <1>5
<1> QED  BY <1>6 DEF b

(* The bytes of a hash are the hash again, wherever they stand. *)
LEMMA HashBytesIs ==
    ASSUME NEW T, NEW h \in T
    PROVE  /\ HashBytes(h) \in Seq(Bytes(T)) /\ Len(HashBytes(h)) \in Nat
           /\ Fits(4, Len(HashBytes(h))) /\ HashOf(HashBytes(h)) = h
<1>1. CASE h = Nil
  <2>1. HashBytes(h) = <<>>
    BY <1>1 DEF HashBytes
  <2>2. Fits(4, 0)
    BY FitsSmall
  <2>3. <<>> \in Seq(Bytes(T)) /\ Len(<<>>) = 0
    OBVIOUS
  <2>4. HashOf(<<>>) = Nil
    BY DEF HashOf
  <2> QED  BY <1>1, <2>1, <2>2, <2>3, <2>4
<1>2. CASE h # Nil
  <2> DEFINE b == [k \in 1..2 |-> [of |-> h, value |-> k]]
  <2>1. HashBytes(h) = b
    BY <1>2 DEF HashBytes, HashSize
  <2>2. \A k \in 1..2 : [of |-> h, value |-> k] \in Bytes(T)
    BY DEF Bytes
  <2>3. b \in Seq(Bytes(T)) /\ Len(b) = 2
    BY <2>2
  <2>4. b[1].of = h
    OBVIOUS
  <2> HIDE DEF b
  <2>5. Fits(4, 2)
    BY FitsSmall
  <2>6. b # <<>>
    BY <2>3
  <2>7. HashOf(b) = h
    BY <2>1, <2>4, <2>6, Zenon DEF HashOf
  <2> QED  BY <2>1, <2>3, <2>5, <2>7
<1> QED  BY <1>1, <1>2

(* buf, and what a turn of the encoder's loop adds to it. *)
Whole(heads, hs, i) == heads[i] \o BigEndian(4, Len(HashBytes(hs[i])))
Extended(buf, heads, hs, i) == buf \o heads[i] \o BigEndian(4, Len(HashBytes(hs[i]))) \o HashBytes(hs[i])

IsBuf(f, heads, hs, n) == f = [i \in 0..n |-> IF i = 0 THEN BigEndian(4, Len(hs)) ELSE Extended(f[i - 1], heads, hs, i)]

LEMMA BufExists ==
    ASSUME NEW heads, NEW hs, NEW n \in Nat
    PROVE  \E f : IsBuf(f, heads, hs, n)
<1> DEFINE S == {d \in Nat : \E f : IsBuf(f, heads, hs, d)}
<1>1. 0 \in S
  <2> DEFINE f == [i \in 0..0 |-> BigEndian(4, Len(hs))]
  <2>1. f = [i \in 0..0 |-> IF i = 0 THEN BigEndian(4, Len(hs)) ELSE Extended(f[i - 1], heads, hs, i)]
    OBVIOUS
  <2> HIDE DEF f
  <2> QED  BY <2>1, Zenon DEF IsBuf
<1>2. ASSUME NEW d \in Nat, d \in S PROVE d + 1 \in S
  <2>1. PICK f : IsBuf(f, heads, hs, d)
    BY <1>2
  <2> DEFINE last == Extended(f[d], heads, hs, (d + 1))
             g == [i \in 0..(d + 1) |-> IF i = d + 1 THEN last ELSE f[i]]
  <2>2. (\A i \in 0..d : g[i] = f[i]) /\ g[d + 1] = last
    OBVIOUS
  <2>3. ASSUME NEW i \in 0..(d + 1) PROVE g[i] = IF i = 0 THEN BigEndian(4, Len(hs)) ELSE Extended(g[i - 1], heads, hs, i)
    <3>1. CASE i = d + 1
      <4>1. g[i] = last /\ i # 0 /\ i - 1 = d /\ g[d] = f[d]
        BY <2>2, <3>1
      <4> QED  BY <3>1, <4>1, Zenon
    <3>2. CASE i \in 0..d
      <4>1. g[i] = f[i] /\ (i # 0 => g[i - 1] = f[i - 1])
        BY <2>2, <3>2
      <4> HIDE DEF g
      <4>2. f[i] = IF i = 0 THEN BigEndian(4, Len(hs)) ELSE Extended(f[i - 1], heads, hs, i)
        BY <2>1, <3>2, Zenon DEF IsBuf
      <4> QED  BY <4>1, <4>2, Zenon
    <3> QED  BY <3>1, <3>2
  <2>4. g = [i \in 0..(d + 1) |-> IF i = 0 THEN BigEndian(4, Len(hs)) ELSE Extended(g[i - 1], heads, hs, i)]
    BY <2>3
  <2> HIDE DEF g
  <2>5. IsBuf(g, heads, hs, d + 1)
    BY <2>4, Zenon DEF IsBuf
  <2> QED  BY <2>5
<1> HIDE DEF S
<1>3. n \in S
  BY <1>1, <1>2, Induction
<1> QED  BY <1>3 DEF S

LEMMA ColumnIs ==
    ASSUME NEW heads, NEW hs, Len(hs) \in Nat
    PROVE  \E f : IsBuf(f, heads, hs, Len(hs)) /\ Column(heads, hs) = f[Len(hs)]
<1> DEFINE n == Len(hs)
           c == CHOOSE f : IsBuf(f, heads, hs, n)
<1>1. n \in Nat
  OBVIOUS
<1>2. IsBuf(c, heads, hs, n)
  <2> HIDE DEF n
  <2> QED  BY <1>1, BufExists, Zenon
<1>3. Column(heads, hs) = c[n]
  BY DEF Column, IsBuf, Extended
<1> HIDE DEF c
<1> QED  BY <1>2, <1>3, Zenon

LEMMA ColumnStart == ASSUME NEW heads, NEW hs, NEW f, NEW n \in Nat, IsBuf(f, heads, hs, n)
                     PROVE  f[0] = BigEndian(4, Len(hs))
BY DEF IsBuf

(* What heads a column has: n of them, all h bytes long. *)
Headed(heads, hs, T, h) ==
    /\ hs \in Seq(T)
    /\ \A i \in 1..Len(hs) : heads[i] \in Seq(Bytes(T)) /\ Len(heads[i]) = h

IsWhole(w, heads, hs, T, i, h) ==
    /\ w \in Seq(Bytes(T)) /\ Len(w) = h + 4
    /\ \A k \in 1..4 : w[h + k] = BigEndian(4, Len(HashBytes(hs[i])))[k]
    /\ \A k \in 1..h : w[k] = heads[i][k]

LEMMA WholeIs ==
    ASSUME NEW T, NEW hs, NEW heads, NEW h \in Nat, Headed(heads, hs, T, h), NEW i \in 1..Len(hs)
    PROVE  IsWhole(Whole(heads, hs, i), heads, hs, T, i, h)
<1> DEFINE a == heads[i]
           b == BigEndian(4, Len(HashBytes(hs[i])))
           B == Bytes(T)
<1>1. a \in Seq(B) /\ Len(a) = h /\ hs[i] \in T
  <2>1. a \in Seq(B) /\ Len(a) = h
    BY DEF Headed
  <2>2. hs[i] \in T
    BY DEF Headed
  <2> QED  BY <2>1, <2>2
<1>2. b \in Seq(B) /\ Len(b) = 4
  <2>1. Len(HashBytes(hs[i])) \in Nat
    BY <1>1, HashBytesIs
  <2> QED  BY <2>1, BigEndianIn
<1>3. Whole(heads, hs, i) = a \o b
  BY DEF Whole
<1> HIDE DEF a, b, B
<1>4. /\ a \o b \in Seq(B) /\ Len(a \o b) = Len(a) + Len(b)
      /\ \A k \in 1..Len(a) : (a \o b)[k] = a[k]
      /\ \A k \in 1..Len(b) : (a \o b)[Len(a) + k] = b[k]
  <2>1. Joined(a \o b, a, b, B)
    BY <1>1, <1>2, JoinIs
  <2> QED  BY <2>1 DEF Joined
<1> QED  BY <1>1, <1>2, <1>3, <1>4 DEF IsWhole, a, b, B

(* a is how b begins. *)
Begins(a, b) == Len(a) <= Len(b) /\ \A k \in 1..Len(a) : b[k] = a[k]

(* The turn i of the encoder's loop. *)
Turn(f, heads, hs, i, h) ==
    LET last == Len(f[i - 1])
    IN  /\ Len(f[i]) = last + (h + 4) + Len(HashBytes(hs[i]))
        /\ Begins(f[i - 1], f[i])
        /\ \A k \in 1..(h + 4) : f[i][last + k] = Whole(heads, hs, i)[k]
        /\ \A k \in 1..Len(HashBytes(hs[i])) : f[i][last + (h + 4) + k] = HashBytes(hs[i])[k]

LEMMA TurnIs ==
    ASSUME NEW T, NEW hs, NEW heads, NEW h \in Nat, Headed(heads, hs, T, h), NEW i \in 1..Len(hs),
           NEW f, f[i - 1] \in Seq(Bytes(T)), f[i] = Extended(f[i - 1], heads, hs, i)
    PROVE  f[i] \in Seq(Bytes(T)) /\ Turn(f, heads, hs, i, h)
<1> DEFINE B == Bytes(T)
           p == f[i - 1]
           a == heads[i]
           b == BigEndian(4, Len(HashBytes(hs[i])))
           d == HashBytes(hs[i])
           w == Whole(heads, hs, i)
<1>1. a \in Seq(B) /\ Len(a) = h /\ hs[i] \in T
  <2>1. a \in Seq(B) /\ Len(a) = h
    BY DEF Headed
  <2>2. hs[i] \in T
    BY DEF Headed
  <2> QED  BY <2>1, <2>2
<1>2. d \in Seq(B) /\ Len(d) \in Nat
  BY <1>1, HashBytesIs
<1>3. b \in Seq(B) /\ Len(b) = 4
  BY <1>2, BigEndianIn
<1>4. /\ w \in Seq(B) /\ Len(w) = h + 4
      /\ \A k \in 1..4 : w[h + k] = b[k]
      /\ \A k \in 1..h : w[k] = a[k]
  <2>1. IsWhole(Whole(heads, hs, i), heads, hs, T, i, h)
    BY WholeIs
  <2> QED  BY <2>1 DEF IsWhole
<1>5. f[i] = ((p \o a) \o b) \o d /\ p \in Seq(B)
  BY DEF Extended
<1> HIDE DEF B, p, a, b, d, w
<1> DEFINE x == p \o a
           y == x \o b
           z == y \o d
           L == Len(p)
<1>6. /\ x \in Seq(B) /\ Len(x) = L + h
      /\ \A k \in 1..L : x[k] = p[k]
      /\ \A k \in 1..h : x[L + k] = a[k]
  <2>1. Joined(x, p, a, B)
    BY <1>1, <1>5, JoinIs
  <2> HIDE DEF x
  <2> QED  BY <1>1, <2>1 DEF Joined
<1> HIDE DEF x
<1>7. /\ y \in Seq(B) /\ Len(y) = L + h + 4
      /\ \A k \in 1..(L + h) : y[k] = x[k]
      /\ \A k \in 1..4 : y[L + h + k] = b[k]
  <2>1. Joined(y, x, b, B)
    BY <1>3, <1>6, JoinIs
  <2> HIDE DEF y, L
  <2>2. Len(x) + 4 = L + h + 4
    BY <1>6
  <2> QED  BY <1>3, <1>6, <2>1, <2>2 DEF Joined
<1> HIDE DEF y
<1>8. /\ z \in Seq(B) /\ Len(z) = L + h + 4 + Len(d)
      /\ \A k \in 1..(L + h + 4) : z[k] = y[k]
      /\ \A k \in 1..Len(d) : z[L + h + 4 + k] = d[k]
  <2>1. Joined(z, y, d, B)
    BY <1>2, <1>7, JoinIs
  <2> HIDE DEF z, L
  <2> QED  BY <1>7, <2>1 DEF Joined
<1>9. f[i] = z
  BY <1>5 DEF x, y
<1> HIDE DEF z
<1>0. L \in Nat /\ Len(d) \in Nat
  BY <1>2, <1>5
<1> HIDE DEF L
<1>10. Len(z) = L + (h + 4) + Len(d) /\ L <= Len(z)
  BY <1>0, <1>8
<1>11. ASSUME NEW k \in 1..L PROVE z[k] = p[k]
  <2>1. k \in 1..(L + h) /\ k \in 1..(L + h + 4)
    BY <1>0
  <2> QED  BY <1>6, <1>7, <1>8, <2>1
<1>12. ASSUME NEW k \in 1..(h + 4) PROVE z[L + k] = w[k]
  <2>1. L + k \in 1..(L + h + 4)
    BY <1>0
  <2>2. CASE k <= h
    <3>1. k \in 1..h /\ L + k \in 1..(L + h)
      BY <1>0, <2>2
    <3>2. z[L + k] = y[L + k] /\ y[L + k] = x[L + k]
      BY <1>7, <1>8, <2>1, <3>1
    <3>3. x[L + k] = a[k] /\ w[k] = a[k]
      BY <1>4, <1>6, <3>1
    <3> QED  BY <3>2, <3>3
  <2>3. CASE ~ (k <= h)
    <3> DEFINE j == k - h
    <3>1. j \in 1..4 /\ k = h + j /\ L + k = L + h + j
      BY <1>0, <2>3
    <3> HIDE DEF j
    <3>2. z[L + k] = y[L + k] /\ y[L + h + j] = b[j] /\ w[h + j] = b[j]
      BY <1>4, <1>7, <1>8, <2>1, <3>1
    <3> QED  BY <3>1, <3>2
  <2> QED  BY <2>2, <2>3
<1>13. ASSUME NEW k \in 1..Len(d) PROVE z[L + (h + 4) + k] = d[k]
  <2>1. L + (h + 4) + k = L + h + 4 + k
    BY <1>0
  <2> QED  BY <1>8, <2>1
<1>14. Begins(p, z)
  BY <1>10, <1>11 DEF Begins, L
<1> QED  BY <1>8, <1>9, <1>10, <1>12, <1>13, <1>14 DEF Turn, B, p, d, w, L

(* The encoder's loop. *)
Turns(f, heads, hs, T, h) ==
    /\ f[0] = BigEndian(4, Len(hs))
    /\ \A i \in 0..Len(hs) : f[i] \in Seq(Bytes(T)) /\ Begins(f[i], f[Len(hs)])
    /\ \A i \in 1..Len(hs) : Turn(f, heads, hs, i, h)

LEMMA TurnsAre ==
    ASSUME NEW T, NEW hs, NEW heads, NEW h \in Nat, Headed(heads, hs, T, h),
           NEW f, IsBuf(f, heads, hs, Len(hs))
    PROVE  Turns(f, heads, hs, T, h)
<1> DEFINE n == Len(hs)
           B == Bytes(T)
           S == {i \in Nat : i <= n => f[i] \in Seq(B)}
           R == {d \in Nat : d <= n => Begins(f[n - d], f[n])}
<1>1. n \in Nat
  BY DEF Headed
<1>2. f[0] = BigEndian(4, n)
  BY <1>1, ColumnStart
<1>3. ASSUME NEW i \in 1..n PROVE f[i] = Extended(f[i - 1], heads, hs, i)
  <2> HIDE DEF n
  <2>1. i \in 0..n /\ i # 0
    BY <1>1
  <2>2. f = [j \in 0..n |-> IF j = 0 THEN BigEndian(4, Len(hs)) ELSE Extended(f[j - 1], heads, hs, j)]
    BY Zenon DEF IsBuf, n
  <2> QED  BY <2>1, <2>2, Zenon
<1>4. 0 \in S
  BY <1>1, <1>2, BigEndianIn
<1>5. ASSUME NEW i \in Nat, i \in S PROVE i + 1 \in S
  <2> SUFFICES ASSUME i + 1 <= n PROVE f[i + 1] \in Seq(B)
    OBVIOUS
  <2> DEFINE j == i + 1
  <2>1. j \in 1..n /\ j - 1 = i /\ f[i] \in Seq(B)
    BY <1>1, <1>5
  <2> HIDE DEF j
  <2>2. f[j - 1] \in Seq(Bytes(T)) /\ f[j] = Extended(f[j - 1], heads, hs, j)
    BY <1>3, <2>1
  <2>3. f[j] \in Seq(Bytes(T))
    BY <2>1, <2>2, TurnIs
  <2> QED  BY <2>3 DEF j
<1> HIDE DEF S
<1>6. Nat \subseteq S
  BY <1>4, <1>5, Induction
<1>7. \A i \in 0..n : f[i] \in Seq(B)
  BY <1>1, <1>6 DEF S
<1>8. ASSUME NEW i \in 1..n PROVE Turn(f, heads, hs, i, h)
  <2>1. i - 1 \in 0..n
    BY <1>1
  <2>2. f[i - 1] \in Seq(Bytes(T)) /\ f[i] = Extended(f[i - 1], heads, hs, i)
    BY <1>3, <1>7, <2>1
  <2> HIDE DEF n, B
  <2> QED  BY <2>2, TurnIs DEF n
<1>9. \A i \in 0..n : Len(f[i]) \in Nat
  BY <1>7
<1>10. 0 \in R
  <2>1. n - 0 = n /\ Len(f[n]) \in Nat
    BY <1>1, <1>9
  <2> QED  BY <2>1 DEF Begins
<1>11. ASSUME NEW d \in Nat, d \in R PROVE d + 1 \in R
  <2> SUFFICES ASSUME d + 1 <= n PROVE Begins(f[n - (d + 1)], f[n])
    OBVIOUS
  <2> DEFINE i == n - d
  <2>1. i \in 1..n /\ i - 1 = n - (d + 1) /\ i - 1 \in 0..n /\ i \in 0..n /\ n \in 0..n /\ d <= n
    BY <1>1
  <2>2. Begins(f[i], f[n])
    BY <1>11, <2>1
  <2> HIDE DEF i, n
  <2>3. Begins(f[i - 1], f[i])
    BY <1>8, <2>1 DEF Turn
  <2>4. Len(f[i - 1]) \in Nat /\ Len(f[i]) \in Nat /\ Len(f[n]) \in Nat
    BY <1>9, <2>1
  <2>5. Begins(f[i - 1], f[n])
    BY <2>2, <2>3, <2>4 DEF Begins
  <2> QED  BY <2>1, <2>5
<1> HIDE DEF R
<1>12. Nat \subseteq R
  BY <1>10, <1>11, Induction
<1>13. ASSUME NEW i \in 0..n PROVE Begins(f[i], f[n])
  <2> DEFINE d == n - i
  <2>1. d \in Nat /\ d <= n /\ n - d = i
    BY <1>1
  <2> HIDE DEF d
  <2>2. d \in R
    BY <1>12, <2>1
  <2> QED  BY <2>1, <2>2 DEF R
<1> QED  BY <1>2, <1>7, <1>8, <1>13 DEF Turns

LEMMA SameFieldHash ==
    ASSUME NEW T, NEW hs, NEW heads, NEW h, Headed(heads, hs, T, h), NEW i \in 1..Len(hs)
    PROVE  hs[i] \in T /\ Len(hs) \in Nat
BY DEF Headed

(* What the decoder makes of turn i. *)
Field(heads, hs, i) == [head |-> Whole(heads, hs, i), hash |-> hs[i]]

LEMMA ShorterEnds ==
    ASSUME NEW a \in Nat, NEW l \in Nat, NEW k \in Nat, NEW c \in Nat, k <= l, a + l <= c
    PROVE  a + k <= c
OBVIOUS

IsTurnRead(r, d, f, heads, hs, i, data) ==
    r = IF Len(f[i]) <= Len(data)
        THEN [pos |-> Len(f[i]), stopped |-> FALSE, fields |-> Append(d.fields, Field(heads, hs, i))]
        ELSE [d EXCEPT !.stopped = TRUE]

(* One turn of the decoder's loop over a column, or the beginning of one. *)
LEMMA ReadOne ==
    ASSUME NEW T, NEW hs, NEW heads, NEW h \in Nat, Headed(heads, hs, T, h),
           NEW f, Turns(f, heads, hs, T, h), NEW i \in 1..Len(hs),
           NEW data \in Seq(Bytes(T)), Begins(data, f[Len(hs)]),
           NEW d, ~ d.stopped, d.pos = Len(f[i - 1])
    PROVE  IsTurnRead(ReadField(data, h + 4, d), d, f, heads, hs, i, data)
<1> DEFINE n == Len(hs)
           B == Bytes(T)
           p == Len(f[i - 1])
           q == Len(f[i])
           b == HashBytes(hs[i])
           w == Whole(heads, hs, i)
           c == Len(data)
           all == f[n]
<1>1. n \in Nat /\ hs[i] \in T
  BY SameFieldHash
<1>2. /\ Len(b) \in Nat /\ b \in Seq(B) /\ Fits(4, Len(b)) /\ HashOf(b) = hs[i]
  BY <1>1, HashBytesIs
<1>3. /\ w \in Seq(B) /\ Len(w) = h + 4
      /\ \A k \in 1..4 : w[h + k] = BigEndian(4, Len(b))[k]
  <2>1. IsWhole(Whole(heads, hs, i), heads, hs, T, i, h)
    BY WholeIs
  <2> QED  BY <2>1 DEF IsWhole
<1>4. p \in Nat /\ q \in Nat /\ Begins(f[i], all) /\ all \in Seq(B)
  <2>1. i - 1 \in 0..n /\ i \in 0..n /\ n \in 0..n
    BY <1>1
  <2>2. \A j \in 0..n : f[j] \in Seq(B) /\ Begins(f[j], all)
    BY DEF Turns
  <2>3. f[i - 1] \in Seq(B) /\ f[i] \in Seq(B)
    BY <2>1, <2>2
  <2> QED  BY <2>1, <2>2, <2>3
<1>5. /\ q = p + (h + 4) + Len(b)
      /\ \A k \in 1..(h + 4) : f[i][p + k] = w[k]
      /\ \A k \in 1..Len(b) : f[i][p + (h + 4) + k] = b[k]
  BY DEF Turns, Turn
<1>6. c \in Nat /\ c <= Len(all) /\ \A k \in 1..c : data[k] = all[k]
  BY DEF Begins
<1>7. \A k \in 1..q : all[k] = f[i][k]
  BY <1>4 DEF Begins
<1> HIDE DEF n, B, p, q, b, w, c, all
<1>8. \A k \in Nat : 1 <= k /\ k <= c /\ k <= q => data[k] = f[i][k]
  BY <1>4, <1>6, <1>7
<1>9. ASSUME NEW k \in 1..(h + 4), p + k <= c PROVE data[p + k] = w[k]
  <2>1. p + k \in Nat /\ 1 <= p + k /\ p + k <= q
    BY <1>2, <1>4, <1>5
  <2>2. data[p + k] = f[i][p + k]
    BY <1>8, <1>9, <2>1
  <2> QED  BY <1>5, <2>2
<1>10. ASSUME NEW k \in 1..Len(b), p + (h + 4) + k <= c PROVE data[p + (h + 4) + k] = b[k]
  <2>1. p + (h + 4) + k \in Nat /\ 1 <= p + (h + 4) + k /\ p + (h + 4) + k <= q
    BY <1>2, <1>4, <1>5
  <2>2. data[p + (h + 4) + k] = f[i][p + (h + 4) + k]
    BY <1>8, <1>10, <2>1
  <2> QED  BY <1>5, <2>2
<1>11. CASE p + (h + 4) > c
  <2>1. ~ (q <= c)
    BY <1>2, <1>4, <1>5, <1>6, <1>11
  <2>2. d.pos + (h + 4) > Len(data)
    BY <1>11 DEF p, c
  <2>3. ReadField(data, h + 4, d) = [d EXCEPT !.stopped = TRUE]
    BY <2>2 DEF ReadField
  <2> QED  BY <2>1, <2>3 DEF q, c, IsTurnRead
<1>12. CASE ~ (p + (h + 4) > c)
  <2> DEFINE l == BigEndian(4, Len(b))
  <2>1. l \in Seq(B) /\ Len(l) = 4 /\ Uint(l) = Len(b)
    BY <1>2, BigEndianIn, UintBigEndian DEF B
  <2> HIDE DEF l
  <2>2. SubSeq(data, p + (h + 4) - 3, p + (h + 4)) = l
    <3> DEFINE x == p + (h + 4) - 3
               y == p + (h + 4)
    <3>1. x \in Nat /\ y \in Nat /\ x >= 1 /\ y <= c /\ x + 4 = y + 1 /\ x - 1 = p + h
      BY <1>4, <1>6, <1>12
    <3>2. ASSUME NEW k \in 1..4 PROVE data[(p + h) + k] = l[k]
      <4> DEFINE j == h + k
      <4>1. j \in 1..(h + 4) /\ p + j <= c /\ (p + h) + k = p + j
        BY <1>4, <1>6, <1>12
      <4> HIDE DEF j
      <4>2. data[p + j] = w[j]
        BY <1>9, <4>1
      <4>3. w[j] = l[k]
        BY <1>3 DEF j, l
      <4> QED  BY <4>1, <4>2, <4>3
    <3>3. data \in Seq(B) /\ c = Len(data)
      BY DEF B, c
    <3> HIDE DEF x, y
    <3>4. SubSeq(data, x, y) = l
      <4>1. \A k \in 1..Len(l) : data[(x - 1) + k] = l[k]
        BY <2>1, <3>1, <3>2
      <4>2. x + Len(l) = y + 1 /\ y <= Len(data)
        BY <2>1, <3>1, <3>3
      <4> QED  BY <2>1, <3>1, <3>3, <4>1, <4>2, PartIs
    <3> QED  BY <3>4 DEF x, y
  <2>3. HashLength(data, h + 4, d) = Len(b)
    BY <2>1, <2>2 DEF HashLength, p
  <2>4. d.pos + (h + 4) + HashLength(data, h + 4, d) = q
    BY <1>5, <2>3 DEF p
  <2>5. ~ (d.pos + (h + 4) > Len(data))
    BY <1>12 DEF p, c
  <2>6. CASE ~ (q <= c)
    <3>1. d.pos + (h + 4) + HashLength(data, h + 4, d) > Len(data)
      <4>1. q > c
        BY <1>4, <1>6, <2>6
      <4> QED  BY <2>4, <4>1, Zenon DEF c
    <3>2. ReadField(data, h + 4, d) = [d EXCEPT !.stopped = TRUE]
      BY <3>1 DEF ReadField
    <3> QED  BY <2>6, <3>2 DEF q, c, IsTurnRead
  <2>7. CASE q <= c
    <3>1. ~ (d.pos + (h + 4) + HashLength(data, h + 4, d) > Len(data))
      <4>1. ~ (q > c)
        BY <1>4, <1>6, <2>7
      <4> QED  BY <2>4, <4>1, Zenon DEF c
    <3>2. ReadField(data, h + 4, d) = Take(data, h + 4, d, q)
      BY <2>4, <2>5, <3>1, Zenon DEF ReadField
    <3>3. SubSeq(data, p + 1, p + (h + 4)) = w
      <4> DEFINE x == p + 1
                 y == p + (h + 4)
      <4>1. x \in Nat /\ y \in Nat /\ x >= 1 /\ y <= c /\ x + (h + 4) = y + 1 /\ x - 1 = p
        BY <1>4, <1>6, <1>12
      <4>2. ASSUME NEW k \in 1..(h + 4) PROVE data[p + k] = w[k]
        <5>1. p + k <= c
          BY <1>4, <1>6, <1>12
        <5> QED  BY <1>9, <5>1
      <4>3. data \in Seq(B) /\ c = Len(data)
        BY DEF B, c
      <4> HIDE DEF x, y
      <4>4. SubSeq(data, x, y) = w
        <5>1. \A k \in 1..Len(w) : data[(x - 1) + k] = w[k]
          BY <1>3, <4>1, <4>2
        <5>2. x + Len(w) = y + 1 /\ y <= Len(data) /\ w \in Seq(B)
          BY <1>3, <4>1, <4>3
        <5> QED  BY <4>1, <4>3, <5>1, <5>2, PartIs
      <4> QED  BY <4>4 DEF x, y
    <3>4. SubSeq(data, p + (h + 4) + 1, q) = b
      <4> DEFINE x == p + (h + 4) + 1
      <4>1. x \in Nat /\ x >= 1 /\ x + Len(b) = q + 1 /\ x - 1 = p + (h + 4)
        BY <1>2, <1>4, <1>5
      <4>2. ASSUME NEW k \in 1..Len(b) PROVE data[(p + (h + 4)) + k] = b[k]
        <5>1. p + (h + 4) + k <= c
          <6>1. q = p + (h + 4) + Len(b) /\ k <= Len(b) /\ k \in Nat /\ Len(b) \in Nat /\ p \in Nat
            BY <1>2, <1>4, <1>5
          <6>2. p + (h + 4) + Len(b) <= c
            BY <2>7, <6>1, Zenon
          <6>3. p + (h + 4) \in Nat
            BY <6>1
          <6> QED  BY <1>6, <6>1, <6>2, <6>3, ShorterEnds, Zenon
        <5> QED  BY <1>10, <5>1
      <4>3. data \in Seq(B) /\ c = Len(data)
        BY DEF B, c
      <4> HIDE DEF x
      <4>4. SubSeq(data, x, q) = b
        <5>1. \A k \in 1..Len(b) : data[(x - 1) + k] = b[k]
          BY <4>1, <4>2
        <5>2. q <= Len(data)
          BY <2>7, <4>3
        <5> QED  BY <1>2, <1>4, <4>1, <4>3, <5>1, <5>2, PartIs
      <4> QED  BY <4>4 DEF x
    <3>5. Take(data, h + 4, d, q) = [pos |-> q, stopped |-> FALSE, fields |-> Append(d.fields, Field(heads, hs, i))]
      BY <1>2, <3>3, <3>4 DEF Take, Field, p, w
    <3> QED  BY <2>7, <3>2, <3>5 DEF q, c, IsTurnRead
  <2> QED  BY <2>6, <2>7
<1> QED  BY <1>11, <1>12

IsRead(f, data, head, n) == f = [i \in 0..n |-> IF i = 0 THEN [pos |-> 4, stopped |-> FALSE, fields |-> <<>>] ELSE ReadField(data, head, f[i - 1])]

LEMMA ReadExists ==
    ASSUME NEW data, NEW head, NEW n \in Nat
    PROVE  \E f : IsRead(f, data, head, n)
<1> DEFINE S == {d \in Nat : \E f : IsRead(f, data, head, d)}
<1>1. 0 \in S
  <2> DEFINE f == [i \in 0..0 |-> [pos |-> 4, stopped |-> FALSE, fields |-> <<>>]]
  <2>1. f = [i \in 0..0 |-> IF i = 0 THEN [pos |-> 4, stopped |-> FALSE, fields |-> <<>>] ELSE ReadField(data, head, f[i - 1])]
    OBVIOUS
  <2> HIDE DEF f
  <2> QED  BY <2>1, Zenon DEF IsRead
<1>2. ASSUME NEW d \in Nat, d \in S PROVE d + 1 \in S
  <2>1. PICK f : IsRead(f, data, head, d)
    BY <1>2
  <2> DEFINE last == ReadField(data, head, f[d])
             g == [i \in 0..(d + 1) |-> IF i = d + 1 THEN last ELSE f[i]]
  <2>2. (\A i \in 0..d : g[i] = f[i]) /\ g[d + 1] = last
    OBVIOUS
  <2>3. ASSUME NEW i \in 0..(d + 1) PROVE g[i] = IF i = 0 THEN [pos |-> 4, stopped |-> FALSE, fields |-> <<>>] ELSE ReadField(data, head, g[i - 1])
    <3>1. CASE i = d + 1
      <4>1. g[i] = last /\ i # 0 /\ i - 1 = d /\ g[d] = f[d]
        BY <2>2, <3>1
      <4> QED  BY <3>1, <4>1, Zenon
    <3>2. CASE i \in 0..d
      <4>1. g[i] = f[i] /\ (i # 0 => g[i - 1] = f[i - 1])
        BY <2>2, <3>2
      <4> HIDE DEF g
      <4>2. f[i] = IF i = 0 THEN [pos |-> 4, stopped |-> FALSE, fields |-> <<>>] ELSE ReadField(data, head, f[i - 1])
        BY <2>1, <3>2, Zenon DEF IsRead
      <4> QED  BY <4>1, <4>2, Zenon
    <3> QED  BY <3>1, <3>2
  <2>4. g = [i \in 0..(d + 1) |-> IF i = 0 THEN [pos |-> 4, stopped |-> FALSE, fields |-> <<>>] ELSE ReadField(data, head, g[i - 1])]
    BY <2>3
  <2> HIDE DEF g
  <2>5. IsRead(g, data, head, d + 1)
    BY <2>4, Zenon DEF IsRead
  <2> QED  BY <2>5
<1> HIDE DEF S
<1>3. n \in S
  BY <1>1, <1>2, Induction
<1> QED  BY <1>3 DEF S

LEMMA FieldsIs ==
    ASSUME NEW data, NEW head, ~ (Len(data) < 4), NEW n \in Nat, Uint(SubSeq(data, 1, 4)) = n
    PROVE  \E f : IsRead(f, data, head, n) /\ Fields(data, head) = f[n].fields
<1> DEFINE c == CHOOSE f : IsRead(f, data, head, n)
<1>1. IsRead(c, data, head, n)
  BY ReadExists, Zenon
<1>2. Fields(data, head) = c[n].fields
  BY DEF Fields, IsRead
<1> HIDE DEF c
<1> QED  BY <1>1, <1>2, Zenon

(* The first k fields of a column. *)
FieldsTo(heads, hs, k) == [j \in 1..k |-> Field(heads, hs, j)]

LEMMA NextField ==
    ASSUME NEW heads, NEW hs, NEW k \in Nat
    PROVE  Append(FieldsTo(heads, hs, k), Field(heads, hs, k + 1)) = FieldsTo(heads, hs, k + 1)
<1> DEFINE s == FieldsTo(heads, hs, k)
           x == Field(heads, hs, k + 1)
           T == {Field(heads, hs, j) : j \in 1..(k + 1)}
<1>1. s = [j \in 1..k |-> Field(heads, hs, j)]
  BY DEF FieldsTo
<1>2. \A j \in 1..k : Field(heads, hs, j) \in T
  OBVIOUS
<1>3. x \in T
  OBVIOUS
<1> HIDE DEF s, x, T
<1>4. s \in Seq(T) /\ Len(s) = k
  BY <1>1, <1>2
<1>5. Append(s, x) = [j \in 1..(k + 1) |-> IF j = k + 1 THEN x ELSE s[j]]
  <2> DEFINE a == Append(s, x)
  <2>1. a \in Seq(T) /\ Len(a) = k + 1 /\ a[k + 1] = x /\ \A j \in 1..k : a[j] = s[j]
    BY <1>3, <1>4
  <2> HIDE DEF a
  <2>2. a = [j \in 1..(k + 1) |-> a[j]]
    BY <2>1
  <2>3. ASSUME NEW j \in 1..(k + 1) PROVE a[j] = IF j = k + 1 THEN x ELSE s[j]
    BY <2>1
  <2>4. a = [j \in 1..(k + 1) |-> IF j = k + 1 THEN x ELSE s[j]]
    BY <2>2, <2>3
  <2> QED  BY <2>4 DEF a
<1>6. ASSUME NEW j \in 1..(k + 1) PROVE (IF j = k + 1 THEN x ELSE s[j]) = Field(heads, hs, j)
  BY <1>1 DEF x
<1>7. Append(s, x) = [j \in 1..(k + 1) |-> Field(heads, hs, j)]
  BY <1>5, <1>6
<1> QED  BY <1>7, Zenon DEF FieldsTo, s, x

(* What a decoder has read after i turns: all fields, or it has stopped    *)
(* because the data ends too early.                                        *)
ReadSoFar(r, i, f, heads, hs, data) ==
    \/ /\ r = [pos |-> Len(f[i]), stopped |-> FALSE, fields |-> FieldsTo(heads, hs, i)]
       /\ Len(f[i]) <= Len(data)
    \/ \E p : \E k \in Nat : /\ r = [pos |-> p, stopped |-> TRUE, fields |-> FieldsTo(heads, hs, k)]
                             /\ k < i /\ Len(data) < Len(f[Len(hs)])

LEMMA ReadTurn ==
    ASSUME NEW T, NEW hs, NEW heads, NEW h \in Nat, Headed(heads, hs, T, h),
           NEW f, Turns(f, heads, hs, T, h), NEW i \in 1..Len(hs),
           NEW data \in Seq(Bytes(T)), Begins(data, f[Len(hs)]),
           NEW d, ReadSoFar(d, i - 1, f, heads, hs, data)
    PROVE  ReadSoFar(ReadField(data, h + 4, d), i, f, heads, hs, data)
<1> DEFINE n == Len(hs)
<1>1. n \in Nat /\ i \in Nat /\ i - 1 \in Nat /\ (i - 1) + 1 = i
  BY SameFieldHash
<1>2. Len(f[i]) \in Nat /\ Len(f[i]) <= Len(f[n]) /\ Len(data) \in Nat /\ Len(f[n]) \in Nat
  <2>1. i \in 0..n /\ n \in 0..n
    BY <1>1
  <2>2. f[i] \in Seq(Bytes(T)) /\ Begins(f[i], f[n]) /\ f[n] \in Seq(Bytes(T))
    BY <2>1 DEF Turns
  <2> QED  BY <2>2 DEF Begins
<1>3. CASE \E p : \E k \in Nat : /\ d = [pos |-> p, stopped |-> TRUE, fields |-> FieldsTo(heads, hs, k)]
                                 /\ k < i - 1 /\ Len(data) < Len(f[n])
  <2>1. PICK p : \E k \in Nat : /\ d = [pos |-> p, stopped |-> TRUE, fields |-> FieldsTo(heads, hs, k)]
                                /\ k < i - 1 /\ Len(data) < Len(f[n])
    BY <1>3
  <2>2. PICK k \in Nat : /\ d = [pos |-> p, stopped |-> TRUE, fields |-> FieldsTo(heads, hs, k)]
                         /\ k < i - 1 /\ Len(data) < Len(f[n])
    BY <2>1
  <2>3. ReadField(data, h + 4, d) = [d EXCEPT !.stopped = TRUE]
    BY <2>2 DEF ReadField
  <2>4. ReadField(data, h + 4, d) = [pos |-> p, stopped |-> TRUE, fields |-> FieldsTo(heads, hs, k)]
    BY <2>2, <2>3
  <2>5. k < i
    BY <1>1, <2>2
  <2> QED  BY <2>2, <2>4, <2>5, Zenon DEF ReadSoFar
<1>4. CASE /\ d = [pos |-> Len(f[i - 1]), stopped |-> FALSE, fields |-> FieldsTo(heads, hs, i - 1)]
           /\ Len(f[i - 1]) <= Len(data)
  <2>1. ~ d.stopped /\ d.pos = Len(f[i - 1]) /\ d.fields = FieldsTo(heads, hs, i - 1)
    BY <1>4
  <2>2. ReadField(data, h + 4, d) =
            IF Len(f[i]) <= Len(data)
            THEN [pos |-> Len(f[i]), stopped |-> FALSE, fields |-> Append(d.fields, Field(heads, hs, i))]
            ELSE [d EXCEPT !.stopped = TRUE]
    <3>1. IsTurnRead(ReadField(data, h + 4, d), d, f, heads, hs, i, data)
      BY <2>1, ReadOne
    <3> QED  BY <3>1, Zenon DEF IsTurnRead
  <2>3. Append(d.fields, Field(heads, hs, i)) = FieldsTo(heads, hs, i)
    <3>1. Append(FieldsTo(heads, hs, i - 1), Field(heads, hs, (i - 1) + 1)) = FieldsTo(heads, hs, (i - 1) + 1)
      BY <1>1, NextField
    <3> QED  BY <1>1, <2>1, <3>1
  <2>4. CASE Len(f[i]) <= Len(data)
    BY <2>2, <2>3, <2>4, Zenon DEF ReadSoFar
  <2>5. CASE ~ (Len(f[i]) <= Len(data))
    <3>1. ReadField(data, h + 4, d) = [d EXCEPT !.stopped = TRUE]
      BY <2>2, <2>5
    <3>2. ReadField(data, h + 4, d)
             = [pos |-> Len(f[i - 1]), stopped |-> TRUE, fields |-> FieldsTo(heads, hs, i - 1)]
      BY <1>4, <3>1
    <3>3. i - 1 \in Nat /\ i - 1 < i /\ Len(data) < Len(f[n])
      BY <1>1, <1>2, <2>5
    <3> QED  BY <3>2, <3>3, Zenon DEF ReadSoFar
  <2> QED  BY <2>4, <2>5
<1> QED  BY <1>3, <1>4, Zenon DEF ReadSoFar

(* The fields of a column, or of the beginning of one. *)
LEMMA ReadAll ==
    ASSUME NEW T, NEW hs, NEW heads, NEW h \in Nat, Headed(heads, hs, T, h), Fits(4, Len(hs)),
           NEW f, Turns(f, heads, hs, T, h),
           NEW data \in Seq(Bytes(T)), Begins(data, f[Len(hs)]), Len(data) >= 4
    PROVE  \E k \in 0..Len(hs) : /\ Fields(data, h + 4) = FieldsTo(heads, hs, k)
                                 /\ k = Len(hs) <=> Len(data) = Len(f[Len(hs)])
<1> DEFINE n == Len(hs)
<1>1. n \in Nat /\ Len(data) \in Nat
  BY DEF Headed
<1>2. f[0] = BigEndian(4, n) /\ Len(f[0]) = 4 /\ f[0] \in Seq(Bytes(T)) /\ Begins(f[0], f[n])
      /\ f[n] \in Seq(Bytes(T))
  <2>1. 0 \in 0..n /\ n \in 0..n
    BY <1>1
  <2>2. f[0] = BigEndian(4, n) /\ f[0] \in Seq(Bytes(T)) /\ Begins(f[0], f[n]) /\ f[n] \in Seq(Bytes(T))
    BY <2>1 DEF Turns
  <2> HIDE DEF n
  <2>3. Len(BigEndian(4, n)) = 4
    BY <1>1, BigEndianLen
  <2> QED  BY <2>2, <2>3, Zenon
<1>3. Len(data) <= Len(f[n]) /\ Len(f[n]) \in Nat
  BY <1>2 DEF Begins
<1>4. SubSeq(data, 1, 4) = f[0]
  <2>1. ASSUME NEW k \in 1..4 PROVE data[(1 - 1) + k] = f[0][k]
    <3>1. k \in 1..Len(data) /\ k \in 1..Len(f[0]) /\ (1 - 1) + k = k
      <4>1. ASSUME NEW c \in Nat, c >= 4 PROVE k \in 1..c
        BY <4>1
      <4>2. k \in 1..Len(data)
        BY <1>1, <4>1
      <4>3. k \in 1..Len(f[0])
        BY <1>2
      <4> QED  BY <4>2, <4>3
    <3>2. data[k] = f[n][k] /\ f[n][k] = f[0][k]
      BY <1>2, <3>1 DEF Begins
    <3> QED  BY <3>1, <3>2
  <2>2. \A k \in 1..Len(f[0]) : data[(1 - 1) + k] = f[0][k]
    BY <1>2, <2>1
  <2>3. 4 <= Len(data)
    <3>1. ASSUME NEW c \in Nat, c >= 4 PROVE 4 <= c
      BY <3>1
    <3> QED  BY <1>1, <3>1
  <2>4. 1 + Len(f[0]) = 4 + 1
    <3>1. ASSUME NEW a, a = 4 PROVE 1 + a = 4 + 1
      BY <3>1
    <3> QED  BY <1>2, <3>1, Zenon
  <2> QED  BY <1>2, <2>2, <2>3, <2>4, PartIs
<1> HIDE DEF n
<1>5. Uint(SubSeq(data, 1, 4)) = n
  BY <1>2, <1>4, UintBigEndian DEF n
<1>6. PICK r : IsRead(r, data, h + 4, n) /\ Fields(data, h + 4) = r[n].fields
  <2>1. ~ (Len(data) < 4)
    BY <1>1
  <2> QED  BY <1>1, <1>5, <2>1, FieldsIs
<1> DEFINE S == {i \in Nat : i <= n => ReadSoFar(r[i], i, f, heads, hs, data)}
<1>7. 0 \in S
  <2>1. r[0] = [pos |-> 4, stopped |-> FALSE, fields |-> <<>>]
    BY <1>1, <1>6 DEF IsRead
  <2>2. FieldsTo(heads, hs, 0) = <<>>
    BY DEF FieldsTo
  <2>3. Len(f[0]) <= Len(data) /\ Len(f[0]) = 4
    BY <1>1, <1>2
  <2> QED  BY <2>1, <2>2, <2>3 DEF ReadSoFar
<1>8. ASSUME NEW i \in Nat, i \in S PROVE i + 1 \in S
  <2> SUFFICES ASSUME i + 1 <= n PROVE ReadSoFar(r[i + 1], i + 1, f, heads, hs, data)
    OBVIOUS
  <2> DEFINE j == i + 1
  <2>1. j \in 1..n /\ j - 1 = i /\ j \in 0..n /\ j # 0
    BY <1>1
  <2>2. ReadSoFar(r[i], i, f, heads, hs, data)
    BY <1>1, <1>8
  <2> HIDE DEF j, S
  <2>3. r[j] = ReadField(data, h + 4, r[j - 1])
    BY <1>6, <2>1, Zenon DEF IsRead
  <2>4. ReadSoFar(r[j - 1], j - 1, f, heads, hs, data)
    BY <2>1, <2>2
  <2>5. ReadSoFar(ReadField(data, h + 4, r[j - 1]), j, f, heads, hs, data)
    BY <2>1, <2>4, ReadTurn DEF n
  <2> QED  BY <2>3, <2>5 DEF j
<1> HIDE DEF S
<1>9. n \in S
  BY <1>1, <1>7, <1>8, Induction
<1>10. ReadSoFar(r[n], n, f, heads, hs, data)
  BY <1>1, <1>9 DEF S
<1>11. CASE /\ r[n] = [pos |-> Len(f[n]), stopped |-> FALSE, fields |-> FieldsTo(heads, hs, n)]
            /\ Len(f[n]) <= Len(data)
  <2>1. Fields(data, h + 4) = FieldsTo(heads, hs, n)
    BY <1>6, <1>11
  <2>2. Len(data) = Len(f[n]) /\ n \in 0..n
    BY <1>1, <1>3, <1>11
  <2> QED  BY <2>1, <2>2 DEF n
<1>12. CASE \E p : \E k \in Nat : /\ r[n] = [pos |-> p, stopped |-> TRUE, fields |-> FieldsTo(heads, hs, k)]
                                  /\ k < n /\ Len(data) < Len(f[n])
  <2>1. PICK p : \E k \in Nat : /\ r[n] = [pos |-> p, stopped |-> TRUE, fields |-> FieldsTo(heads, hs, k)]
                                /\ k < n /\ Len(data) < Len(f[n])
    BY <1>12
  <2>2. PICK k \in Nat : /\ r[n] = [pos |-> p, stopped |-> TRUE, fields |-> FieldsTo(heads, hs, k)]
                         /\ k < n /\ Len(data) < Len(f[n])
    BY <2>1
  <2>3. Fields(data, h + 4) = FieldsTo(heads, hs, k)
    BY <1>6, <2>2
  <2>4. k \in 0..n /\ k # n /\ Len(data) # Len(f[n])
    BY <1>1, <1>3, <2>2
  <2> QED  BY <2>3, <2>4 DEF n
<1> QED  BY <1>10, <1>11, <1>12, Zenon DEF ReadSoFar, n

(* What is read from data that begins like the column of hs: the first k   *)
(* of its fields.                                                          *)
ReadTo(data, head, heads, hs, k) == Fields(data, head) = FieldsTo(heads, hs, k)

LEMMA ColumnBuf ==
    ASSUME NEW T, NEW hs, NEW heads, NEW h \in Nat, Headed(heads, hs, T, h)
    PROVE  \E f : /\ Turns(f, heads, hs, T, h) /\ Column(heads, hs) = f[Len(hs)]
                  /\ f[Len(hs)] \in Seq(Bytes(T)) /\ 4 <= Len(f[Len(hs)])
<1>1. Len(hs) \in Nat
  BY DEF Headed
<1>2. PICK f : IsBuf(f, heads, hs, Len(hs)) /\ Column(heads, hs) = f[Len(hs)]
  BY <1>1, ColumnIs
<1>3. Turns(f, heads, hs, T, h)
  BY <1>2, TurnsAre
<1>4. 0 \in 0..Len(hs) /\ Len(hs) \in 0..Len(hs)
  BY <1>1
<1>5. f[0] = BigEndian(4, Len(hs)) /\ Begins(f[0], f[Len(hs)]) /\ f[Len(hs)] \in Seq(Bytes(T))
  BY <1>3, <1>4 DEF Turns
<1>6. Len(BigEndian(4, Len(hs))) = 4
  BY <1>1, BigEndianLen
<1>7. Len(f[0]) = 4
  BY <1>5, <1>6, Zenon
<1>8. 4 <= Len(f[Len(hs)])
  <2>1. Len(f[0]) <= Len(f[Len(hs)])
    BY <1>5, Zenon DEF Begins
  <2> QED  BY <1>7, <2>1, Zenon
<1> QED  BY <1>2, <1>3, <1>5, <1>8, Zenon

LEMMA ColumnRead ==
    ASSUME NEW T, NEW hs, NEW heads, NEW h \in Nat, Headed(heads, hs, T, h), Fits(4, Len(hs))
    PROVE  ReadTo(Column(heads, hs), h + 4, heads, hs, Len(hs))
<1>1. PICK f : /\ Turns(f, heads, hs, T, h) /\ Column(heads, hs) = f[Len(hs)]
               /\ f[Len(hs)] \in Seq(Bytes(T)) /\ 4 <= Len(f[Len(hs)])
  BY ColumnBuf
<1> DEFINE data == f[Len(hs)]
<1>2. Len(data) \in Nat
  BY <1>1
<1>3. Begins(data, data) /\ Len(data) >= 4
  <2> HIDE DEF data
  <2>1. Len(data) <= Len(data)
    BY <1>2
  <2>2. Len(data) >= 4
    <3>1. 4 <= Len(data)
      BY <1>1 DEF data
    <3> QED  BY <1>2, <3>1
  <2> QED  BY <2>1, <2>2 DEF Begins
<1>4. PICK k \in 0..Len(hs) : /\ Fields(data, h + 4) = FieldsTo(heads, hs, k)
                              /\ k = Len(hs) <=> Len(data) = Len(f[Len(hs)])
  <2>1. data \in Seq(Bytes(T)) /\ Begins(data, f[Len(hs)]) /\ Len(data) >= 4
    BY <1>1, <1>3
  <2> HIDE DEF data
  <2> QED  BY <1>1, <2>1, ReadAll
<1>5. k = Len(hs)
  BY <1>4
<1> QED  BY <1>1, <1>4, <1>5, Zenon DEF ReadTo

LEMMA ColumnCut ==
    ASSUME NEW T, NEW hs, NEW heads, NEW h \in Nat, Headed(heads, hs, T, h), Fits(4, Len(hs)),
           Len(hs) >= 1, NEW m \in 0..(Len(Column(heads, hs)) - 1)
    PROVE  \E k \in 0..(Len(hs) - 1) : ReadTo(SubSeq(Column(heads, hs), 1, m), h + 4, heads, hs, k)
<1>1. PICK f : /\ Turns(f, heads, hs, T, h) /\ Column(heads, hs) = f[Len(hs)]
               /\ f[Len(hs)] \in Seq(Bytes(T)) /\ 4 <= Len(f[Len(hs)])
  BY ColumnBuf
<1> DEFINE all == f[Len(hs)]
           data == SubSeq(all, 1, m)
<1>2. Len(all) \in Nat /\ m \in Nat /\ m < Len(all) /\ Len(hs) \in Nat /\ all \in Seq(Bytes(T))
  <2>1. Len(hs) \in Nat
    BY DEF Headed
  <2>2. all \in Seq(Bytes(T)) /\ all = Column(heads, hs)
    BY <1>1
  <2> HIDE DEF all
  <2>3. Len(all) \in Nat
    BY <2>2
  <2>4. m \in 0..(Len(all) - 1)
    BY <2>2
  <2>5. m \in Nat /\ m < Len(all)
    BY <2>3, <2>4
  <2> QED  BY <2>1, <2>2, <2>3, <2>5
<1> HIDE DEF all
<1>3. data \in Seq(Bytes(T)) /\ Len(data) = m /\ \A j \in 1..m : data[j] = all[j]
  BY <1>2
<1> HIDE DEF data
<1>4. Begins(data, all)
  BY <1>2, <1>3 DEF Begins
<1>5. CASE m < 4
  <2>1. Len(data) < 4
    BY <1>3, <1>5, Zenon
  <2>2. Fields(data, h + 4) = <<>>
    BY <2>1, Zenon DEF Fields
  <2>3. FieldsTo(heads, hs, 0) = <<>>
    BY DEF FieldsTo
  <2>4. 0 \in 0..(Len(hs) - 1)
    BY <1>2
  <2>5. ReadTo(data, h + 4, heads, hs, 0)
    BY <2>2, <2>3, Zenon DEF ReadTo
  <2> QED  BY <1>1, <2>4, <2>5, Zenon DEF data, all
<1>6. CASE ~ (m < 4)
  <2>1. Len(data) >= 4
    BY <1>2, <1>3, <1>6
  <2>2. PICK k \in 0..Len(hs) : /\ Fields(data, h + 4) = FieldsTo(heads, hs, k)
                                /\ k = Len(hs) <=> Len(data) = Len(f[Len(hs)])
    <3>1. Begins(data, f[Len(hs)])
      BY <1>4 DEF all
    <3> QED  BY <1>1, <1>3, <2>1, <3>1, ReadAll
  <2>3. k # Len(hs)
    <3>1. m # Len(all)
      BY <1>2
    <3> QED  BY <1>3, <2>2, <3>1, Zenon DEF all
  <2>4. k \in 0..(Len(hs) - 1)
    BY <1>2, <2>2, <2>3
  <2>5. ReadTo(data, h + 4, heads, hs, k)
    BY <2>2, Zenon DEF ReadTo
  <2> QED  BY <1>1, <2>4, <2>5, Zenon DEF data, all
<1> QED  BY <1>5, <1>6
-----------------------------------------------------------------------------
(* Columns of hashes. *)

LEMMA HeadedHashes ==
    ASSUME NEW T, NEW hs \in Seq(T)
    PROVE  Headed([i \in DOMAIN hs |-> <<>>], hs, T, 0)
<1>1. \A i \in 1..Len(hs) : [j \in DOMAIN hs |-> <<>>][i] = <<>>
  OBVIOUS
<1>2. <<>> \in Seq(Bytes(T)) /\ Len(<<>>) = 0
  OBVIOUS
<1> QED  BY <1>1, <1>2 DEF Headed

LEMMA DecodeTo ==
    ASSUME NEW data, NEW heads, NEW hs, NEW k \in Nat, ReadTo(data, 4, heads, hs, k)
    PROVE  decodeHashes(data) = [i \in 1..k |-> hs[i]]
<1>1. Fields(data, 4) = [i \in 1..k |-> Field(heads, hs, i)]
  BY DEF ReadTo, FieldsTo
<1>2. DOMAIN Fields(data, 4) = 1..k
  BY <1>1
<1>3. \A i \in 1..k : Fields(data, 4)[i].hash = hs[i]
  BY <1>1 DEF Field
<1>4. decodeHashes(data) = [i \in DOMAIN Fields(data, 4) |-> Fields(data, 4)[i].hash]
  BY DEF decodeHashes
<1> QED  BY <1>2, <1>3, <1>4

(* The hashes come back from their column. *)
THEOREM HashesComeBack ==
    ASSUME NEW T, NEW hs \in Seq(T), Fits(4, Len(hs))
    PROVE  decodeHashes(encodeHashes(hs)) = hs
<1> DEFINE heads == [i \in DOMAIN hs |-> <<>>]
<1>1. encodeHashes(hs) = Column(heads, hs)
  BY DEF encodeHashes
<1>2. Headed(heads, hs, T, 0)
  BY HeadedHashes
<1> HIDE DEF heads
<1>3. ReadTo(Column(heads, hs), 0 + 4, heads, hs, Len(hs))
  BY <1>2, ColumnRead
<1>4. 0 + 4 = 4 /\ Len(hs) \in Nat
  OBVIOUS
<1>5. decodeHashes(encodeHashes(hs)) = [i \in 1..Len(hs) |-> hs[i]]
  BY <1>1, <1>3, <1>4, DecodeTo
<1>6. hs = [i \in 1..Len(hs) |-> hs[i]]
  OBVIOUS
<1> QED  BY <1>5, <1>6, Zenon

(* A column that is cut has fewer hashes. *)
THEOREM CutHashes ==
    ASSUME NEW T, NEW hs \in Seq(T), Fits(4, Len(hs)), Len(hs) >= 1,
           NEW m \in 0..(Len(encodeHashes(hs)) - 1)
    PROVE  Len(decodeHashes(SubSeq(encodeHashes(hs), 1, m))) < Len(hs)
<1> DEFINE heads == [i \in DOMAIN hs |-> <<>>]
<1>1. encodeHashes(hs) = Column(heads, hs)
  BY DEF encodeHashes
<1>2. Headed(heads, hs, T, 0)
  BY HeadedHashes
<1> HIDE DEF heads
<1>3. PICK k \in 0..(Len(hs) - 1) : ReadTo(SubSeq(Column(heads, hs), 1, m), 0 + 4, heads, hs, k)
  <2>1. m \in 0..(Len(Column(heads, hs)) - 1)
    BY <1>1
  <2> QED  BY <1>2, <2>1, ColumnCut
<1>4. 0 + 4 = 4 /\ Len(hs) \in Nat /\ k \in Nat /\ k < Len(hs)
  OBVIOUS
<1> DEFINE data == SubSeq(encodeHashes(hs), 1, m)
<1>5. ReadTo(data, 4, heads, hs, k)
  BY <1>1, <1>3, <1>4
<1> HIDE DEF data
<1>6. decodeHashes(data) = [i \in 1..k |-> hs[i]]
  BY <1>4, <1>5, DecodeTo
<1>7. Len(decodeHashes(data)) = k
  BY <1>4, <1>6
<1> QED  BY <1>4, <1>7 DEF data
-----------------------------------------------------------------------------
(* Columns of nodes. *)

IsNode(id) == id = <<id[1], id[2]>> /\ Fits(4, id[1]) /\ Fits(8, id[2])

IsHead(s, id, T) ==
    /\ s \in Seq(Bytes(T)) /\ Len(s) = 12
    /\ \A k \in 1..4 : s[k] = BigEndian(4, id[1])[k]
    /\ \A k \in 1..8 : s[4 + k] = BigEndian(8, id[2])[k]

(* Level and index come back from the head of a field. *)
LEMMA HeadIs ==
    ASSUME NEW T, NEW id, IsNode(id)
    PROVE  IsHead(BigEndian(4, id[1]) \o BigEndian(8, id[2]), id, T)
<1> DEFINE a == BigEndian(4, id[1])
           b == BigEndian(8, id[2])
           B == Bytes(T)
<1>1. id[1] \in Nat /\ id[2] \in Nat
  BY DEF IsNode, Fits
<1>2. a \in Seq(B) /\ Len(a) = 4
  BY <1>1, BigEndianIn
<1>3. b \in Seq(B) /\ Len(b) = 8
  BY <1>1, BigEndianIn
<1> HIDE DEF a, b, B
<1>4. Joined(a \o b, a, b, B)
  BY <1>2, <1>3, JoinIs
<1> DEFINE c == a \o b
<1>5. Joined(c, a, b, B)
  BY <1>4
<1> HIDE DEF c
<1>6. c \in Seq(B) /\ Len(c) = 12 /\ (\A k \in 1..4 : c[k] = a[k]) /\ \A k \in 1..8 : c[4 + k] = b[k]
  BY <1>2, <1>3, <1>5 DEF Joined
<1>7. IsHead(c, id, T)
  BY <1>6 DEF IsHead, a, b, B
<1> QED  BY <1>7 DEF c, a, b

LEMMA NodeComesBack ==
    ASSUME NEW T, NEW id, IsNode(id), NEW head \in Seq(Bytes(T)), Len(head) = 16,
           NEW s, IsHead(s, id, T), \A k \in 1..12 : head[k] = s[k], NEW field, field.head = head
    PROVE  NodeOf(field) = id
<1> DEFINE B == Bytes(T)
           a == BigEndian(4, id[1])
           b == BigEndian(8, id[2])
<1>1. id[1] \in Nat /\ id[2] \in Nat /\ Fits(4, id[1]) /\ Fits(8, id[2]) /\ id = <<id[1], id[2]>>
  BY DEF IsNode, Fits
<1>2. a \in Seq(B) /\ Len(a) = 4 /\ Uint(a) = id[1]
  BY <1>1, BigEndianIn, UintBigEndian
<1>3. b \in Seq(B) /\ Len(b) = 8 /\ Uint(b) = id[2]
  BY <1>1, BigEndianIn, UintBigEndian
<1>4. /\ \A k \in 1..4 : s[k] = a[k]
      /\ \A k \in 1..8 : s[4 + k] = b[k]
  BY DEF IsHead
<1>5. head \in Seq(B)
  OBVIOUS
<1> HIDE DEF a, b, B
<1>6. SubSeq(head, 1, 4) = a
  <2>1. ASSUME NEW k \in 1..4 PROVE head[(1 - 1) + k] = a[k]
    <3>1. k \in 1..12 /\ (1 - 1) + k = k
      OBVIOUS
    <3> QED  BY <1>4, <3>1
  <2>2. \A k \in 1..Len(a) : head[(1 - 1) + k] = a[k]
    BY <1>2, <2>1
  <2>3. 4 <= Len(head) /\ 1 + Len(a) = 4 + 1 /\ 1 >= 1
    BY <1>2
  <2> QED  BY <1>2, <1>5, <2>2, <2>3, PartIs
<1>7. SubSeq(head, 5, 12) = b
  <2>1. ASSUME NEW k \in 1..8 PROVE head[(5 - 1) + k] = b[k]
    <3>1. 4 + k \in 1..12 /\ (5 - 1) + k = 4 + k
      OBVIOUS
    <3> QED  BY <1>4, <3>1
  <2>2. \A k \in 1..Len(b) : head[(5 - 1) + k] = b[k]
    BY <1>3, <2>1
  <2>3. 12 <= Len(head) /\ 5 + Len(b) = 12 + 1 /\ 5 >= 1
    BY <1>3
  <2> QED  BY <1>3, <1>5, <2>2, <2>3, PartIs
<1>8. NodeOf(field) = <<Uint(SubSeq(head, 1, 4)), Uint(SubSeq(head, 5, 12))>>
  BY DEF NodeOf, NewNodeID
<1> QED  BY <1>1, <1>2, <1>3, <1>6, <1>7, <1>8, Zenon

(* The latest of the turns that meet id. *)
LEMMA LatestExists ==
    ASSUME NEW order, NEW L \in Nat, NEW id, \E j \in 1..L : order[j] = id
    PROVE  \E i \in 1..L : order[i] = id /\ \A j \in 1..L : order[j] = id => j <= i
<1> DEFINE S == {n \in Nat : (\E j \in 1..n : order[j] = id)
                             => \E i \in 1..n : order[i] = id /\ \A j \in 1..n : order[j] = id => j <= i}
<1>1. 0 \in S
  OBVIOUS
<1>2. ASSUME NEW n \in Nat, n \in S PROVE n + 1 \in S
  <2>1. CASE order[n + 1] = id
    <3>1. n + 1 \in 1..(n + 1) /\ \A j \in 1..(n + 1) : j <= n + 1
      OBVIOUS
    <3> QED  BY <2>1, <3>1
  <2>2. CASE order[n + 1] # id
    <3> SUFFICES ASSUME \E j \in 1..(n + 1) : order[j] = id
                 PROVE  \E i \in 1..(n + 1) : order[i] = id /\ \A j \in 1..(n + 1) : order[j] = id => j <= i
      OBVIOUS
    <3>1. \E j \in 1..n : order[j] = id
      BY <2>2
    <3>2. PICK i \in 1..n : order[i] = id /\ \A j \in 1..n : order[j] = id => j <= i
      BY <1>2, <3>1
    <3>3. i \in 1..(n + 1) /\ \A j \in 1..(n + 1) : order[j] = id => j <= i
      BY <2>2, <3>2
    <3> QED  BY <3>2, <3>3
  <2> QED  BY <2>1, <2>2
<1> HIDE DEF S
<1>3. L \in S
  BY <1>1, <1>2, Induction
<1> QED  BY <1>3 DEF S

(* An order of nodes that all have a hash. *)
IsOrder(order, L, nodeMap, T) ==
    /\ L \in Nat /\ Fits(4, L) /\ DOMAIN order = 1..L
    /\ \A i \in 1..L : IsNode(order[i]) /\ nodeMap[order[i]] \in T

OrderHeads(order) == [i \in DOMAIN order |-> BigEndian(4, order[i][1]) \o BigEndian(8, order[i][2])]
OrderHashes(order, nodeMap) == [i \in DOMAIN order |-> nodeMap[order[i]]]

LEMMA HeadedNodes ==
    ASSUME NEW T, NEW order, NEW L, NEW nodeMap, IsOrder(order, L, nodeMap, T)
    PROVE  /\ Headed(OrderHeads(order), OrderHashes(order, nodeMap), T, 12)
           /\ Len(OrderHashes(order, nodeMap)) = L
           /\ \A i \in 1..L : OrderHashes(order, nodeMap)[i] = nodeMap[order[i]]
           /\ \A i \in 1..L : IsHead(OrderHeads(order)[i], order[i], T)
<1> DEFINE heads == OrderHeads(order)
           hs == OrderHashes(order, nodeMap)
<1>1. L \in Nat /\ DOMAIN order = 1..L
  BY DEF IsOrder
<1>2. \A i \in 1..L : IsNode(order[i]) /\ nodeMap[order[i]] \in T
  BY DEF IsOrder
<1>3. \A i \in 1..L : heads[i] = BigEndian(4, order[i][1]) \o BigEndian(8, order[i][2])
  BY <1>1 DEF OrderHeads
<1>4. hs = [i \in 1..L |-> nodeMap[order[i]]]
  BY <1>1 DEF OrderHashes
<1> HIDE DEF heads, hs
<1>5. hs \in Seq(T) /\ Len(hs) = L /\ \A i \in 1..L : hs[i] = nodeMap[order[i]]
  BY <1>1, <1>2, <1>4
<1>6. ASSUME NEW i \in 1..L PROVE IsHead(heads[i], order[i], T)
  <2>1. IsHead(BigEndian(4, order[i][1]) \o BigEndian(8, order[i][2]), order[i], T)
    BY <1>2, HeadIs
  <2> QED  BY <1>3, <2>1
<1>7. \A i \in 1..Len(hs) : heads[i] \in Seq(Bytes(T)) /\ Len(heads[i]) = 12
  BY <1>5, <1>6 DEF IsHead
<1>8. Headed(heads, hs, T, 12)
  BY <1>5, <1>7 DEF Headed
<1> QED  BY <1>5, <1>6, <1>8 DEF heads, hs

OrderedPart(order, L, nodeMap) == [id \in {order[i] : i \in 1..L} |-> nodeMap[id]]

(* The nodes come back from their column, whatever the order. *)
THEOREM NodesComeBack ==
    ASSUME NEW T, NEW order, NEW L, NEW nodeMap, IsOrder(order, L, nodeMap, T)
    PROVE  decodeNodeMap(encodeNodeMap(order, nodeMap)) = OrderedPart(order, L, nodeMap)
<1> DEFINE heads == OrderHeads(order)
           hs == OrderHashes(order, nodeMap)
           data == Column(heads, hs)
           fields == Fields(data, 16)
           Latest(id) == CHOOSE i \in DOMAIN fields :
                           NodeOf(fields[i]) = id /\ \A j \in DOMAIN fields : NodeOf(fields[j]) = id => j <= i
           ids == {NodeOf(fields[i]) : i \in DOMAIN fields}
<1>1. encodeNodeMap(order, nodeMap) = data
  BY DEF encodeNodeMap, OrderHeads, OrderHashes
<1>2. decodeNodeMap(data) = [id \in ids |-> fields[Latest(id)].hash]
  BY DEF decodeNodeMap
<1>3. L \in Nat /\ Fits(4, L) /\ \A i \in 1..L : IsNode(order[i])
  BY DEF IsOrder
<1>4. /\ Headed(heads, hs, T, 12) /\ Len(hs) = L
      /\ \A i \in 1..L : hs[i] = nodeMap[order[i]]
      /\ \A i \in 1..L : IsHead(heads[i], order[i], T)
  BY HeadedNodes
<1> HIDE DEF heads, hs
<1>5. ReadTo(data, 12 + 4, heads, hs, Len(hs))
  <2>1. Fits(4, Len(hs)) /\ 12 \in Nat
    BY <1>3, <1>4
  <2>2. Headed(heads, hs, T, 12)
    BY <1>4
  <2> QED  BY <2>1, <2>2, ColumnRead
<1>6. fields = [i \in 1..L |-> Field(heads, hs, i)]
  <2>1. 12 + 4 = 16
    OBVIOUS
  <2> HIDE DEF data
  <2>2. ReadTo(data, 16, heads, hs, L)
    BY <1>4, <1>5, <2>1
  <2> QED  BY <2>2, Zenon DEF ReadTo, FieldsTo
<1> HIDE DEF fields
<1>7. DOMAIN fields = 1..L
  BY <1>6
<1>8. ASSUME NEW i \in 1..L PROVE fields[i].hash = nodeMap[order[i]] /\ NodeOf(fields[i]) = order[i]
  <2> DEFINE w == Whole(heads, hs, i)
  <2>1. fields[i] = [head |-> w, hash |-> hs[i]]
    BY <1>6 DEF Field
  <2>2. w \in Seq(Bytes(T)) /\ Len(w) = 16 /\ \A k \in 1..12 : w[k] = heads[i][k]
    <3>1. 12 \in Nat /\ i \in 1..Len(hs) /\ 12 + 4 = 16
      BY <1>3, <1>4
    <3>2. Headed(heads, hs, T, 12)
      BY <1>4
    <3>3. IsWhole(w, heads, hs, T, i, 12)
      BY <3>1, <3>2, WholeIs
    <3> HIDE DEF w
    <3> QED  BY <3>1, <3>3 DEF IsWhole
  <2> HIDE DEF w
  <2>3. NodeOf(fields[i]) = order[i]
    <3>1. IsNode(order[i]) /\ IsHead(heads[i], order[i], T)
      BY <1>3, <1>4
    <3>2. w \in Seq(Bytes(T)) /\ Len(w) = 16 /\ \A k \in 1..12 : w[k] = heads[i][k]
      BY <2>2
    <3>3. fields[i].head = w
      BY <2>1
    <3> DEFINE x == fields[i]
               id == order[i]
               s == heads[i]
    <3>4. IsNode(id) /\ IsHead(s, id, T) /\ x.head = w /\ \A k \in 1..12 : w[k] = s[k]
      BY <3>1, <3>2, <3>3
    <3> HIDE DEF x, id, s
    <3>5. NodeOf(x) = id
      BY <3>2, <3>4, NodeComesBack
    <3> QED  BY <3>5 DEF x, id
  <2> QED  BY <1>4, <2>1, <2>3
<1>9. ids = {order[i] : i \in 1..L}
  BY <1>7, <1>8
<1>10. ASSUME NEW id \in ids PROVE fields[Latest(id)].hash = nodeMap[id]
  <2>1. \E i \in 1..L : order[i] = id
    BY <1>9
  <2>2. PICK i \in 1..L : order[i] = id /\ \A j \in 1..L : order[j] = id => j <= i
    BY <1>3, <2>1, LatestExists
  <2>3. i \in DOMAIN fields /\ NodeOf(fields[i]) = id
        /\ \A j \in DOMAIN fields : NodeOf(fields[j]) = id => j <= i
    BY <1>7, <1>8, <2>2
  <2>4. Latest(id) \in DOMAIN fields /\ NodeOf(fields[Latest(id)]) = id
    BY <2>3
  <2> DEFINE l == Latest(id)
  <2>5. l \in 1..L /\ NodeOf(fields[l]) = id
    BY <1>7, <2>4
  <2> HIDE DEF l
  <2>6. fields[l].hash = nodeMap[id]
    BY <1>8, <2>5
  <2> QED  BY <2>6 DEF l
<1>11. [id \in ids |-> fields[Latest(id)].hash] = [id \in ids |-> nodeMap[id]]
  BY <1>10
<1>12. decodeNodeMap(data) = [id \in ids |-> nodeMap[id]]
  BY <1>2, <1>11, Zenon
<1> HIDE DEF ids, data
<1> QED  BY <1>1, <1>9, <1>12 DEF OrderedPart
-----------------------------------------------------------------------------
(* The slices of the range. *)

IsSeq(s) == s \in Seq({s[i] : i \in 1..Len(s)})

LEMMA SeqLen == ASSUME NEW s, IsSeq(s) PROVE Len(s) \in Nat /\ DOMAIN s = 1..Len(s)
BY DEF IsSeq

LEMMA FunctionSeq ==
    ASSUME NEW s, NEW n \in Nat, s = [i \in 1..n |-> s[i]]
    PROVE  IsSeq(s) /\ Len(s) = n
<1> DEFINE T == {s[i] : i \in 1..n}
<1>1. \A i \in 1..n : s[i] \in T
  OBVIOUS
<1> HIDE DEF T
<1>2. s \in Seq(T) /\ Len(s) = n
  BY <1>1
<1> QED  BY <1>2 DEF T, IsSeq

LEMMA SeqIs == ASSUME NEW T, NEW s \in Seq(T) PROVE IsSeq(s)
<1>1. s = [i \in 1..Len(s) |-> s[i]] /\ Len(s) \in Nat
  OBVIOUS
<1> QED  BY <1>1, FunctionSeq

LEMMA SameSeq ==
    ASSUME NEW s, NEW t, IsSeq(s), IsSeq(t), Len(s) = Len(t), \A i \in 1..Len(s) : s[i] = t[i]
    PROVE  s = t
<1>1. s = [i \in 1..Len(s) |-> s[i]] /\ t = [i \in 1..Len(t) |-> t[i]]
  BY DEF IsSeq
<1> QED  BY <1>1

IsPrefixOf(p, s, n) == IsSeq(p) /\ Len(p) = n /\ \A i \in 1..n : p[i] = s[i]

LEMMA FirstElements ==
    ASSUME NEW s, IsSeq(s), NEW n \in 0..Len(s)
    PROVE  IsPrefixOf(SubSeq(s, 1, n), s, n)
<1> DEFINE T == {s[i] : i \in 1..Len(s)}
           p == SubSeq(s, 1, n)
<1>1. s \in Seq(T)
  BY DEF IsSeq
<1> HIDE DEF T
<1>2. p \in Seq(T) /\ Len(p) = n /\ \A i \in 1..n : p[i] = s[i]
  BY <1>1
<1> HIDE DEF p
<1>3. IsSeq(p)
  BY <1>2, SeqIs
<1> QED  BY <1>2, <1>3 DEF IsPrefixOf, p

IsAppend(a, s, x) == IsSeq(a) /\ Len(a) = Len(s) + 1 /\ a[Len(s) + 1] = x /\ \A i \in 1..Len(s) : a[i] = s[i]

LEMMA OneMore ==
    ASSUME NEW s, IsSeq(s), NEW x
    PROVE  IsAppend(Append(s, x), s, x)
<1> DEFINE T == {s[i] : i \in 1..Len(s)} \cup {x}
           a == Append(s, x)
<1>1. s \in Seq(T) /\ x \in T
  BY DEF IsSeq
<1> HIDE DEF T
<1>2. a \in Seq(T) /\ Len(a) = Len(s) + 1 /\ a[Len(s) + 1] = x /\ \A i \in 1..Len(s) : a[i] = s[i]
  BY <1>1
<1> HIDE DEF a
<1>3. IsSeq(a)
  BY <1>2, SeqIs
<1> QED  BY <1>2, <1>3 DEF IsAppend, a

(* What Append makes of hashes that are as many as the range has nodes,    *)
(* right or wrong: as many as the longer range has, of which only the last *)
(* is new.                                                                 *)
GrownFrom(new, hs, n) ==
    /\ IsSeq(new) /\ Len(new) = Len(RangeNodes(0, n + 1))
    /\ 1 <= Len(new) /\ Len(new) <= Len(hs) + 1
    /\ \A i \in 1..(Len(new) - 1) : new[i] = hs[i]

LEMMA RangeGrows ==
    ASSUME NEW n \in Nat, NEW hs, IsSeq(hs), Len(hs) = Len(RangeNodes(0, n)), NEW h
    PROVE  GrownFrom(RangeAppend(n, hs, h).hashes, hs, n)
<1> DEFINE s == RangeNodes(0, n)
           t == Completed(n)
           new == RangeAppend(n, hs, h).hashes
           L == Len(hs)
           p == SubSeq(hs, 1, L - t)
<1>1. IsRange(s, n)
  BY RangeNodesIsRange
<1>2. t \in 0..Len(s)
  BY <1>1, RangeLow
<1>3. Len(RangeNodes(0, n + 1)) = Len(s) - t + 1
  <2>1. Len(Appended(s, n)) = Len(s) - t + 1
    BY <1>1, AppendedSeq DEF AppendedTo
  <2> QED  BY <2>1, RangeNodesAppend
<1>4. PICK up : Joins(up, n, hs, h)
  BY RangeAppendDef
<1>5. new = Append(p, up[t])
  BY <1>4, Zenon DEF Joins
<1>6. L \in Nat /\ L - t \in 0..L /\ Len(s) = L
  BY <1>2, SeqLen
<1> HIDE DEF t
<1>7. IsPrefixOf(p, hs, L - t)
  BY <1>6, FirstElements
<1> HIDE DEF p
<1>8. IsAppend(new, p, up[t])
  BY <1>5, <1>7, OneMore DEF IsPrefixOf
<1> HIDE DEF new, s
<1>9. IsSeq(new) /\ Len(new) = (L - t) + 1 /\ \A i \in 1..(L - t) : new[i] = hs[i]
  BY <1>7, <1>8 DEF IsPrefixOf, IsAppend
<1>10. Len(new) = Len(RangeNodes(0, n + 1))
  BY <1>3, <1>6, <1>9
<1> HIDE DEF L
<1>11. 1 <= Len(new) /\ Len(new) <= L + 1 /\ Len(new) - 1 = L - t
  BY <1>6, <1>9
<1> QED  BY <1>9, <1>10, <1>11 DEF GrownFrom, new, L
-----------------------------------------------------------------------------
(* The inductive invariant.                                                *)

RangeOK ==
    /\ end \in 0..MaxSize
    /\ IsSeq(arrays) /\ \A a \in 1..Len(arrays) : IsSeq(arrays[a])
    /\ current \in 1..Len(arrays)
    /\ length = Len(RangeNodes(0, end)) /\ length <= Len(arrays[current])

(* A slice has as many elements as the range of its size has nodes, and    *)
(* its array has them.                                                     *)
SliceOK(h) ==
    /\ slice[h].size \in 1..MaxSize /\ slice[h].array \in 1..Len(arrays)
    /\ slice[h].length = Len(RangeNodes(0, slice[h].size))
    /\ slice[h].length <= Len(arrays[slice[h].array])
    /\ IsSeq(encoded[h]) /\ Len(encoded[h]) <= slice[h].length

Pcs == {"append", "compact", "encode"}

SaversOK ==
    /\ pc \in [Savers -> Pcs] /\ DOMAIN slice = Savers /\ DOMAIN encoded = Savers
    /\ slice = [h \in Savers |-> slice[h]] /\ encoded = [h \in Savers |-> encoded[h]]
    /\ \A h \in Savers : /\ pc[h] = "compact" => end >= 1
                         /\ pc[h] = "encode" => SliceOK(h)
                         /\ pc[h] # "encode" => slice[h] = Nil

RowFits(r, w) ==
    /\ w.size \in 1..MaxSize
    /\ IsSeq(w.hashes) /\ Len(w.hashes) = Len(RangeNodes(0, w.size))
    /\ r.treeSize = w.size /\ r.compactHashes = encodeHashes(w.hashes)
    /\ r.internalNodes = encodeNodeMap(<<>>, <<>>)

RowOK == row # Nil => RowFits(row, written)

Inv == RangeOK /\ SaversOK /\ RowOK

LEMMA SizeFits == ASSUME NEW n \in 0..MaxSize PROVE Fits(8, n)
<1>1. Fits(8, MaxSize)
  BY MaxSizeAssumption, SizeAssumption DEF Fits
<1>2. n \in Nat /\ n <= MaxSize
  BY MaxSizeAssumption
<1> QED  BY <1>1, <1>2, FitsBelow

LEMMA ShortRange == ASSUME NEW n \in 0..MaxSize PROVE Fits(4, Len(RangeNodes(0, n))) /\ Len(RangeNodes(0, n)) \in Nat
<1>1. Fits(4, Len(RangeNodes(0, n)))
  BY SizeFits, RangeShort
<1> QED  BY <1>1 DEF Fits

LEMMA SomeNode == ASSUME NEW n \in 1..MaxSize PROVE Len(RangeNodes(0, n)) >= 1
<1>1. n \in Nat /\ n # 0
  BY MaxSizeAssumption
<1>2. IsRange(RangeNodes(0, n), n)
  BY <1>1, RangeNodesIsRange
<1> DEFINE s == RangeNodes(0, n)
<1>3. IsRange(s, n)
  BY <1>2
<1> HIDE DEF s
<1>4. s \in Seq(Nat \X Nat) /\ s # <<>>
  BY <1>1, <1>3 DEF IsRange
<1>5. Len(s) >= 1
  BY <1>4
<1> QED  BY <1>5 DEF s

(* What a row gives back. *)
LEMMA RowComesBack ==
    ASSUME NEW r, NEW w, RowFits(r, w)
    PROVE  decodeHashes(r.compactHashes) = w.hashes
<1> DEFINE T == {w.hashes[i] : i \in 1..Len(w.hashes)}
<1>1. w.size \in 0..MaxSize
  BY MaxSizeAssumption DEF RowFits
<1>2. w.hashes \in Seq(T) /\ r.compactHashes = encodeHashes(w.hashes)
  BY DEF RowFits, IsSeq
<1>3. Fits(4, Len(w.hashes))
  BY <1>1, ShortRange DEF RowFits
<1> HIDE DEF T
<1>4. decodeHashes(encodeHashes(w.hashes)) = w.hashes
  BY <1>2, <1>3, HashesComeBack
<1> QED  BY <1>2, <1>4, Zenon

LoadedOK ==
    /\ Loaded.size \in 0..MaxSize
    /\ IsSeq(Loaded.hashes) /\ Len(Loaded.hashes) = Len(RangeNodes(0, Loaded.size))
    /\ row # Nil => /\ Loaded.size = written.size /\ Loaded.hashes = written.hashes
                    /\ Loaded.nodes = <<>>

(* A column of no nodes gives back the empty map. *)
LEMMA NoNodesComeBack == decodeNodeMap(encodeNodeMap(<<>>, <<>>)) = <<>>
<1>1. Fits(4, 0)
  <2>1. 0 \in 0..MaxSize
    BY MaxSizeAssumption
  <2>2. Fits(4, Len(RangeNodes(0, 0)))
    BY <2>1, ShortRange
  <2> QED  BY <2>2, RangeNodesEmpty
<1>2. IsOrder(<<>>, 0, <<>>, {})
  BY <1>1 DEF IsOrder
<1>3. decodeNodeMap(encodeNodeMap(<<>>, <<>>)) = OrderedPart(<<>>, 0, <<>>)
  BY <1>2, NodesComeBack
<1>4. OrderedPart(<<>>, 0, <<>>) = <<>>
  BY DEF OrderedPart
<1> QED  BY <1>3, <1>4

LEMMA LoadedIs == ASSUME RowOK PROVE LoadedOK
<1>1. CASE row = Nil
  <2>1. Loaded.size = 0 /\ Loaded.hashes = <<>>
    BY <1>1 DEF Loaded
  <2>2. IsSeq(<<>>) /\ Len(<<>>) = 0
    BY DEF IsSeq
  <2>3. RangeNodes(0, 0) = <<>>
    BY RangeNodesEmpty
  <2>4. 0 \in 0..MaxSize
    BY MaxSizeAssumption
  <2> QED  BY <1>1, <2>1, <2>2, <2>3, <2>4 DEF LoadedOK
<1>2. CASE row # Nil
  <2>1. RowFits(row, written)
    BY <1>2 DEF RowOK
  <2>2. Loaded.size = row.treeSize /\ Loaded.hashes = decodeHashes(row.compactHashes)
    BY <1>2 DEF Loaded
  <2>3. Loaded.hashes = written.hashes
    BY <2>1, <2>2, RowComesBack
  <2>4. Loaded.size = written.size /\ written.size \in 0..MaxSize
    BY <2>1, <2>2, MaxSizeAssumption DEF RowFits
  <2>5. IsSeq(written.hashes) /\ Len(written.hashes) = Len(RangeNodes(0, written.size))
    BY <2>1 DEF RowFits
  <2>6. Loaded.nodes = <<>>
    <3>1. Loaded.nodes = decodeNodeMap(row.internalNodes)
      BY <1>2 DEF Loaded
    <3> QED  BY <2>1, <3>1, NoNodesComeBack, Zenon DEF RowFits
  <2> HIDE DEF Loaded
  <2> QED  BY <1>2, <2>3, <2>4, <2>5, <2>6, Zenon DEF LoadedOK
<1> QED  BY <1>1, <1>2

LEMMA InitInv == ASSUME Init PROVE Inv
<1>1. RangeOK
  <2>1. end = 0 /\ arrays = << <<>> >> /\ current = 1 /\ length = 0
    BY DEF Init
  <2>2. IsSeq(<<>>) /\ Len(<<>>) = 0
    BY DEF IsSeq
  <2>3. RangeNodes(0, 0) = <<>>
    BY RangeNodesEmpty
  <2>4. 0 \in 0..MaxSize
    BY MaxSizeAssumption
  <2>5. Len(arrays) = 1 /\ arrays[1] = <<>> /\ arrays = [i \in 1..1 |-> arrays[i]]
    BY <2>1
  <2>6. IsSeq(arrays)
    BY <2>5, FunctionSeq
  <2>7. ASSUME NEW a \in 1..Len(arrays) PROVE IsSeq(arrays[a])
    BY <2>2, <2>5
  <2> QED  BY <2>1, <2>2, <2>3, <2>4, <2>5, <2>6, <2>7 DEF RangeOK
<1>2. SaversOK
  BY DEF Init, SaversOK, Pcs
<1>3. RowOK
  BY DEF Init, RowOK
<1> QED  BY <1>1, <1>2, <1>3 DEF Inv

(* What StoreHashes makes of the arrays: the slice of the new hashes is in *)
(* the current one, and no array loses elements.                           *)
StoredIn(new) ==
    /\ IsSeq(arrays') /\ \A a \in 1..Len(arrays') : IsSeq(arrays'[a])
    /\ current' \in 1..Len(arrays') /\ Len(new) <= Len(arrays'[current'])
    /\ \A i \in 1..Len(new) : arrays'[current'][i] = new[i]
    /\ Len(arrays) <= Len(arrays')
    /\ \A a \in 1..Len(arrays) : Len(arrays'[a]) = Len(arrays[a])

HashesAre == IsSeq(hashes) /\ Len(hashes) = length /\ \A i \in 1..length : hashes[i] = arrays[current][i]

LEMMA HashesIs == ASSUME RangeOK PROVE HashesAre
<1>1. IsSeq(arrays[current]) /\ length <= Len(arrays[current]) /\ length \in Nat
  <2>1. length \in Nat
    BY ShortRange DEF RangeOK
  <2> QED  BY <2>1 DEF RangeOK
<1>2. length \in 0..Len(arrays[current])
  BY <1>1, SeqLen
<1> QED  BY <1>1, <1>2, FirstElements DEF hashes, IsPrefixOf, HashesAre

LEMMA StoreIs ==
    ASSUME RangeOK, NEW new, GrownFrom(new, hashes, end), StoreHashes(new)
    PROVE  StoredIn(new)
<1> DEFINE n == Len(new)
           array == arrays[current]
           c == Len(array)
           A == Len(arrays)
<1>1. /\ IsSeq(arrays) /\ A \in Nat /\ current \in 1..A /\ IsSeq(array) /\ c \in Nat
      /\ \A a \in 1..A : IsSeq(arrays[a]) /\ Len(arrays[a]) \in Nat
      /\ length \in Nat /\ length <= c
  <2>1. length \in Nat
    BY ShortRange DEF RangeOK
  <2> QED  BY <2>1, SeqLen DEF RangeOK
<1>2. /\ IsSeq(new) /\ n \in Nat /\ 1 <= n /\ n <= length + 1
      /\ \A i \in 1..(n - 1) : new[i] = array[i]
  <2>1. Len(hashes) = length /\ \A i \in 1..length : hashes[i] = array[i]
    BY HashesIs DEF HashesAre
  <2>2. IsSeq(new) /\ 1 <= n /\ n <= length + 1 /\ \A i \in 1..(n - 1) : new[i] = hashes[i]
    BY <2>1 DEF GrownFrom
  <2>3. n \in Nat
    BY <2>2, SeqLen
  <2> HIDE DEF n, array
  <2>4. ASSUME NEW i \in 1..(n - 1) PROVE new[i] = array[i]
    <3>1. i \in 1..length
      BY <1>1, <2>2, <2>3
    <3> QED  BY <2>1, <2>2, <3>1
  <2> QED  BY <2>2, <2>3, <2>4
<1>3. CASE n <= c
  <2> DEFINE stored == [array EXCEPT ![n] = new[n]]
             B == [arrays EXCEPT ![current] = stored]
  <2>1. arrays' = B /\ current' = current
    BY <1>3 DEF StoreHashes
  <2>2. DOMAIN array = 1..c /\ n \in 1..c
    BY <1>1, <1>2, <1>3, SeqLen
  <2>3. stored = [i \in 1..c |-> stored[i]] /\ stored[n] = new[n] /\ \A i \in 1..c : i # n => stored[i] = array[i]
    BY <2>2
  <2> HIDE DEF stored
  <2>4. IsSeq(stored) /\ Len(stored) = c
    BY <1>1, <2>3, FunctionSeq
  <2>5. DOMAIN arrays = 1..A
    BY <1>1, SeqLen
  <2>6. B = [a \in 1..A |-> B[a]] /\ B[current] = stored /\ \A a \in 1..A : a # current => B[a] = arrays[a]
    BY <1>1, <2>5
  <2> HIDE DEF B
  <2>7. IsSeq(B) /\ Len(B) = A
    BY <1>1, <2>6, FunctionSeq
  <2>8. \A a \in 1..A : IsSeq(B[a]) /\ Len(B[a]) = Len(arrays[a])
    BY <1>1, <2>4, <2>6
  <2>9. ASSUME NEW i \in 1..n PROVE stored[i] = new[i]
    <3>1. CASE i = n
      BY <2>3, <3>1
    <3>2. CASE i # n
      <4>1. i \in 1..(n - 1) /\ i \in 1..c
        BY <1>1, <1>2, <1>3, <3>2
      <4> QED  BY <1>2, <2>3, <3>2, <4>1
    <3> QED  BY <3>1, <3>2
  <2>10. B[current] = stored /\ n <= Len(stored) /\ A <= A
    BY <1>1, <1>3, <2>4, <2>6
  <2> QED  BY <1>1, <2>1, <2>7, <2>8, <2>9, <2>10 DEF StoredIn
<1>4. CASE ~ (n <= c)
  <2> DEFINE m == IF n = 1 THEN 1 ELSE 2 * (n - 1)
             new2 == [i \in 1..m |-> IF i <= n THEN new[i] ELSE Nil]
             B == Append(arrays, new2)
  <2>1. arrays' = B /\ current' = A + 1
    BY <1>4 DEF StoreHashes
  <2>2. m \in Nat /\ n <= m
    <3>1. n = 1 \/ (2 * (n - 1) \in Nat /\ n <= 2 * (n - 1) /\ n # 1)
      <4>1. ASSUME NEW k \in Nat, 1 <= k, k # 1 PROVE 2 * (k - 1) \in Nat /\ k <= 2 * (k - 1)
        BY <4>1
      <4>2. n \in Nat /\ 1 <= n
        BY <1>2
      <4> HIDE DEF n
      <4> QED  BY <4>1, <4>2
    <3> HIDE DEF n
    <3>2. CASE n = 1
      BY <3>2
    <3>3. CASE n # 1
      BY <3>1, <3>3
    <3> QED  BY <3>2, <3>3
  <2> HIDE DEF m
  <2>3. new2 = [i \in 1..m |-> new2[i]] /\ \A i \in 1..n : new2[i] = new[i]
    BY <1>2, <2>2
  <2> HIDE DEF new2
  <2>4. IsSeq(new2) /\ Len(new2) = m
    BY <2>2, <2>3, FunctionSeq
  <2>5. IsAppend(B, arrays, new2)
    BY <1>1, OneMore
  <2> HIDE DEF B
  <2>6. IsSeq(B) /\ Len(B) = A + 1 /\ B[A + 1] = new2 /\ \A a \in 1..A : B[a] = arrays[a]
    BY <2>5 DEF IsAppend
  <2>7. ASSUME NEW a \in 1..(A + 1) PROVE IsSeq(B[a])
    <3>1. a = A + 1 \/ a \in 1..A
      BY <1>1
    <3> QED  BY <1>1, <2>4, <2>6, <3>1
  <2>8. A + 1 \in 1..(A + 1) /\ A <= A + 1
    BY <1>1
  <2> QED  BY <1>1, <2>1, <2>2, <2>3, <2>4, <2>6, <2>7, <2>8 DEF StoredIn
<1> QED  BY <1>3, <1>4

(* The hashes after an append. *)
NewHashes == RangeAppend(end, hashes, HashLeaf(end + 1)).hashes

LEMMA AppendIs ==
    ASSUME Inv, NEW h \in Savers, TreeAppend(h)
    PROVE  StoredIn(NewHashes) /\ GrownFrom(NewHashes, hashes, end) /\ length' = Len(NewHashes)
<1>1. RangeOK /\ end \in Nat
  BY MaxSizeAssumption DEF Inv, RangeOK
<1>2. IsSeq(hashes) /\ Len(hashes) = Len(RangeNodes(0, end))
  BY <1>1, HashesIs DEF HashesAre, RangeOK
<1>3. GrownFrom(NewHashes, hashes, end)
  BY <1>1, <1>2, RangeGrows DEF NewHashes
<1>4. StoreHashes(NewHashes) /\ length' = Len(NewHashes)
  BY Zenon DEF TreeAppend, NewHashes
<1> QED  BY <1>1, <1>3, <1>4, StoreIs

LEMMA TreeAppendInv == ASSUME Inv, NEW h \in Savers, TreeAppend(h) PROVE Inv'
<1>1. RangeOK /\ SaversOK /\ RowOK
  BY DEF Inv
<1>2. StoredIn(NewHashes) /\ GrownFrom(NewHashes, hashes, end) /\ length' = Len(NewHashes)
  BY AppendIs
<1>3. /\ end < MaxSize /\ pc[h] = "append" /\ pc' = [pc EXCEPT ![h] = "compact"] /\ end' = end + 1
      /\ slice' = slice /\ encoded' = encoded /\ row' = row /\ written' = written
  BY DEF TreeAppend, Goto, rowVars
<1>4. end \in Nat /\ end' \in 0..MaxSize /\ end' >= 1
  BY <1>1, <1>3, MaxSizeAssumption DEF RangeOK
<1>5. RangeOK'
  <2>1. length' = Len(RangeNodes(0, end'))
    BY <1>2, <1>3 DEF GrownFrom
  <2>2. length' <= Len(arrays'[current'])
    BY <1>2 DEF StoredIn
  <2> QED  BY <1>2, <1>4, <2>1, <2>2 DEF StoredIn, RangeOK
<1>6. SaversOK'
  <2>1. pc' \in [Savers -> Pcs] /\ pc'[h] = "compact" /\ \A g \in Savers : g # h => pc'[g] = pc[g]
    BY <1>1, <1>3 DEF SaversOK, Pcs
  <2>2. ASSUME NEW g \in Savers, pc'[g] = "encode" PROVE SliceOK(g)'
    <3>1. pc[g] = "encode"
      BY <2>1, <2>2
    <3>2. SliceOK(g)
      BY <1>1, <3>1 DEF SaversOK
    <3> DEFINE a == slice[g].array
    <3>3. Len(arrays) \in Nat /\ Len(arrays') \in Nat /\ Len(arrays) <= Len(arrays')
      BY <1>1, <1>2, SeqLen DEF RangeOK, StoredIn
    <3>4. a \in 1..Len(arrays')
      <4>1. a \in 1..Len(arrays)
        BY <3>2 DEF SliceOK
      <4> HIDE DEF a
      <4> QED  BY <3>3, <4>1
    <3>5. Len(arrays'[a]) = Len(arrays[a])
      BY <1>2, <3>2 DEF StoredIn, SliceOK
    <3> QED  BY <1>3, <3>2, <3>4, <3>5 DEF SliceOK
  <2>3. ASSUME NEW g \in Savers, pc'[g] # "encode" PROVE slice'[g] = Nil
    <3>1. pc[g] # "encode"
      BY <1>3, <2>1, <2>3
    <3> QED  BY <1>1, <1>3, <3>1 DEF SaversOK
  <2>4. /\ DOMAIN slice' = Savers /\ DOMAIN encoded' = Savers
        /\ slice' = [g \in Savers |-> slice'[g]] /\ encoded' = [g \in Savers |-> encoded'[g]]
    BY <1>1, <1>3 DEF SaversOK
  <2> QED  BY <1>4, <2>1, <2>2, <2>3, <2>4 DEF SaversOK
<1>7. RowOK'
  BY <1>1, <1>3 DEF RowOK
<1> QED  BY <1>5, <1>6, <1>7 DEF Inv

LEMMA SameRange == ASSUME RangeOK, UNCHANGED rangeVars PROVE RangeOK'
BY DEF RangeOK, rangeVars

LEMMA SameSlice ==
    ASSUME NEW g, SliceOK(g), arrays' = arrays, slice'[g] = slice[g], encoded'[g] = encoded[g]
    PROVE  SliceOK(g)'
BY DEF SliceOK

LEMMA CompactStateInv == ASSUME Inv, NEW h \in Savers, CompactState(h) PROVE Inv'
<1>1. RangeOK /\ SaversOK /\ RowOK
  BY DEF Inv
<1> DEFINE s == [size |-> end, array |-> current, length |-> length]
<1>2. /\ pc[h] = "compact" /\ pc' = [pc EXCEPT ![h] = "encode"]
      /\ slice' = [slice EXCEPT ![h] = s] /\ encoded' = [encoded EXCEPT ![h] = <<>>]
      /\ end' = end /\ arrays' = arrays /\ current' = current /\ length' = length /\ row' = row /\ written' = written
  BY DEF CompactState, Goto, rangeVars, rowVars
<1>3. RangeOK' /\ RowOK'
  BY <1>1, <1>2, SameRange DEF RowOK, rangeVars
<1>4. s.size = end /\ s.array = current /\ s.length = length
  OBVIOUS
<1> HIDE DEF s
<1>5. /\ pc' \in [Savers -> Pcs] /\ pc'[h] = "encode" /\ slice'[h] = s /\ encoded'[h] = <<>>
      /\ \A g \in Savers : g # h => pc'[g] = pc[g] /\ slice'[g] = slice[g] /\ encoded'[g] = encoded[g]
      /\ DOMAIN slice' = Savers /\ DOMAIN encoded' = Savers
      /\ slice' = [g \in Savers |-> slice'[g]] /\ encoded' = [g \in Savers |-> encoded'[g]]
  BY <1>1, <1>2 DEF SaversOK, Pcs
<1>6. SliceOK(h)'
  <2>1. end \in 1..MaxSize
    <3>1. end >= 1 /\ end \in 0..MaxSize
      BY <1>1, <1>2 DEF SaversOK, RangeOK
    <3> QED  BY <3>1, MaxSizeAssumption
  <2>2. IsSeq(<<>>) /\ Len(<<>>) = 0
    BY DEF IsSeq
  <2>3. /\ current \in 1..Len(arrays) /\ length = Len(RangeNodes(0, end)) /\ length <= Len(arrays[current])
        /\ 0 <= length
    <3>1. length \in Nat
      BY <1>1, ShortRange DEF RangeOK
    <3> QED  BY <1>1, <3>1 DEF RangeOK
  <2> QED  BY <1>2, <1>4, <1>5, <2>1, <2>2, <2>3 DEF SliceOK
<1>7. SaversOK'
  <2>1. ASSUME NEW g \in Savers, pc'[g] = "encode" PROVE SliceOK(g)'
    <3>1. CASE g = h
      BY <1>6, <3>1
    <3>2. CASE g # h
      <4>1. SliceOK(g)
        BY <1>1, <1>5, <2>1, <3>2 DEF SaversOK
      <4> QED  BY <1>2, <1>5, <3>2, <4>1, SameSlice
    <3> QED  BY <3>1, <3>2
  <2>2. ASSUME NEW g \in Savers, pc'[g] # "encode" PROVE slice'[g] = Nil
    <3>1. g # h
      BY <1>5, <2>2
    <3> QED  BY <1>1, <1>5, <2>2, <3>1 DEF SaversOK
  <2>3. ASSUME NEW g \in Savers, pc'[g] = "compact" PROVE end' >= 1
    <3>1. g # h
      BY <1>5, <2>3
    <3>2. pc[g] = "compact"
      BY <1>5, <2>3, <3>1
    <3> QED  BY <1>1, <1>2, <3>2 DEF SaversOK
  <2> QED  BY <1>5, <2>1, <2>2, <2>3 DEF SaversOK
<1> QED  BY <1>3, <1>7 DEF Inv

LEMMA EncodeInv == ASSUME Inv, NEW h \in Savers, Encode(h) PROVE Inv'
<1>1. RangeOK /\ SaversOK /\ RowOK
  BY DEF Inv
<1> DEFINE i == Len(encoded[h]) + 1
           x == arrays[slice[h].array][i]
           e == Append(encoded[h], x)
<1>2. /\ pc[h] = "encode" /\ i <= slice[h].length /\ encoded' = [encoded EXCEPT ![h] = e]
      /\ UNCHANGED <<rangeVars, pc, slice, nodes, rowVars>>
  BY DEF Encode
<1>3. RangeOK' /\ RowOK' /\ arrays' = arrays /\ pc' = pc /\ slice' = slice /\ end' = end
  BY <1>1, <1>2, SameRange DEF RowOK, rangeVars, rowVars
<1>4. SliceOK(h)
  BY <1>1, <1>2 DEF SaversOK
<1>5. IsAppend(e, encoded[h], x)
  BY <1>4, OneMore DEF SliceOK
<1>6. i = Len(encoded[h]) + 1
  OBVIOUS
<1> HIDE DEF e, i
<1>7. /\ encoded'[h] = e /\ \A g \in Savers : g # h => encoded'[g] = encoded[g]
      /\ DOMAIN encoded' = Savers /\ encoded' = [g \in Savers |-> encoded'[g]]
  BY <1>1, <1>2 DEF SaversOK
<1>8. SliceOK(h)'
  BY <1>2, <1>3, <1>4, <1>5, <1>6, <1>7 DEF SliceOK, IsAppend
<1>9. SaversOK'
  <2>1. ASSUME NEW g \in Savers, pc'[g] = "encode" PROVE SliceOK(g)'
    <3>1. CASE g = h
      BY <1>8, <3>1
    <3>2. CASE g # h
      <4>1. SliceOK(g)
        BY <1>1, <1>3, <2>1 DEF SaversOK
      <4> QED  BY <1>3, <1>7, <3>2, <4>1, SameSlice
    <3> QED  BY <3>1, <3>2
  <2> QED  BY <1>1, <1>3, <1>7, <2>1 DEF SaversOK
<1> QED  BY <1>3, <1>9 DEF Inv

LEMMA SaveTreeStateInv == ASSUME Inv, NEW h \in Savers, SaveTreeState(h) PROVE Inv'
<1>1. RangeOK /\ SaversOK /\ RowOK
  BY DEF Inv
<1>2. /\ pc[h] = "encode" /\ pc' = [pc EXCEPT ![h] = "append"] /\ Len(encoded[h]) = slice[h].length
      /\ slice' = [slice EXCEPT ![h] = Nil] /\ encoded' = [encoded EXCEPT ![h] = <<>>]
      /\ UNCHANGED <<rangeVars, nodes>>
  BY DEF SaveTreeState, Saved, Goto
<1>3. RangeOK' /\ arrays' = arrays /\ end' = end
  BY <1>1, <1>2, SameRange DEF rangeVars
<1>4. SliceOK(h)
  BY <1>1, <1>2 DEF SaversOK
<1>5. /\ pc' \in [Savers -> Pcs] /\ pc'[h] = "append" /\ slice'[h] = Nil
      /\ \A g \in Savers : g # h => pc'[g] = pc[g] /\ slice'[g] = slice[g] /\ encoded'[g] = encoded[g]
      /\ DOMAIN slice' = Savers /\ DOMAIN encoded' = Savers
      /\ slice' = [g \in Savers |-> slice'[g]] /\ encoded' = [g \in Savers |-> encoded'[g]]
  BY <1>1, <1>2 DEF SaversOK, Pcs
<1>6. SaversOK'
  <2>1. ASSUME NEW g \in Savers, pc'[g] = "encode" PROVE SliceOK(g)'
    <3>1. g # h
      BY <1>5, <2>1
    <3>2. SliceOK(g)
      BY <1>1, <1>5, <2>1, <3>1 DEF SaversOK
    <3> QED  BY <1>3, <1>5, <3>1, <3>2, SameSlice
  <2>2. ASSUME NEW g \in Savers, pc'[g] # "encode" PROVE slice'[g] = Nil
    <3>1. CASE g = h
      BY <1>5, <3>1
    <3>2. CASE g # h
      BY <1>1, <1>5, <2>2, <3>2 DEF SaversOK
    <3> QED  BY <3>1, <3>2
  <2>3. ASSUME NEW g \in Savers, pc'[g] = "compact" PROVE end' >= 1
    <3>1. pc[g] = "compact"
      BY <1>5, <2>3
    <3> QED  BY <1>1, <1>3, <3>1 DEF SaversOK
  <2> QED  BY <1>5, <2>1, <2>2, <2>3 DEF SaversOK
<1>7. CASE row' = Row(slice[h].size, encoded[h]) /\ written' = [size |-> slice[h].size, hashes |-> encoded[h]]
  <2> DEFINE r == Row(slice[h].size, encoded[h])
             w == [size |-> slice[h].size, hashes |-> encoded[h]]
  <2>1. /\ r.treeSize = slice[h].size /\ r.compactHashes = encodeHashes(encoded[h])
        /\ r.internalNodes = encodeNodeMap(<<>>, <<>>)
    BY DEF Row
  <2>2. w.size = slice[h].size /\ w.hashes = encoded[h] /\ row' = r /\ written' = w
    BY <1>7
  <2> HIDE DEF r, w
  <2>3. RowFits(r, w)
    BY <1>2, <1>4, <2>1, <2>2 DEF RowFits, SliceOK
  <2>4. RowOK'
    BY <2>2, <2>3 DEF RowOK, RowFits
  <2> QED  BY <1>3, <1>6, <2>4 DEF Inv
<1>8. CASE UNCHANGED rowVars
  <2>1. RowOK'
    BY <1>1, <1>8 DEF RowOK, rowVars
  <2> QED  BY <1>3, <1>6, <2>1 DEF Inv
<1> QED  BY <1>7, <1>8 DEF SaveTreeState

RestoredRange == arrays' = <<Loaded.hashes>> /\ current' = 1 /\ length' = Len(Loaded.hashes) /\ end' = Loaded.size

LEMMA RestoreInv == ASSUME Inv, Restore PROVE Inv'
<1>1. SaversOK /\ RowOK
  BY DEF Inv
<1>2. /\ RestoredRange /\ row' = row /\ written' = written
      /\ pc' = [h \in Savers |-> "append"] /\ slice' = [h \in Savers |-> Nil] /\ encoded' = [h \in Savers |-> <<>>]
  BY Zenon DEF Restore, NewProcess, rowVars, RestoredRange
<1>3. LoadedOK
  BY <1>1, LoadedIs
<1>4. RangeOK'
  <2> DEFINE x == Loaded.hashes
             n == Loaded.size
  <2>1. arrays' = <<x>> /\ current' = 1 /\ length' = Len(x) /\ end' = n
    BY <1>2, Zenon DEF RestoredRange
  <2>2. n \in 0..MaxSize /\ IsSeq(x) /\ Len(x) = Len(RangeNodes(0, n))
    BY <1>3, Zenon DEF LoadedOK
  <2> HIDE DEF x, n
  <2>3. Len(arrays') = 1 /\ arrays'[1] = x /\ arrays' = [i \in 1..1 |-> arrays'[i]]
    BY <2>1
  <2>4. IsSeq(arrays')
    BY <2>3, FunctionSeq
  <2>5. Len(x) \in Nat
    BY <2>2, SeqLen
  <2>6. ASSUME NEW a \in 1..Len(arrays') PROVE IsSeq(arrays'[a])
    BY <2>2, <2>3
  <2>7. current' \in 1..Len(arrays') /\ length' = Len(RangeNodes(0, end')) /\ length' <= Len(arrays'[current'])
    BY <2>1, <2>2, <2>3, <2>5
  <2> QED  BY <2>1, <2>2, <2>4, <2>6, <2>7 DEF RangeOK
<1>5. SaversOK'
  BY <1>2 DEF SaversOK, Pcs
<1>6. RowOK'
  BY <1>1, <1>2 DEF RowOK
<1> QED  BY <1>4, <1>5, <1>6 DEF Inv

LEMMA StutterInv == ASSUME Inv, UNCHANGED vars PROVE Inv'
<1>1. RangeOK' /\ RowOK'
  BY SameRange DEF Inv, RowOK, vars, rowVars
<1>2. arrays' = arrays /\ pc' = pc /\ slice' = slice /\ encoded' = encoded /\ end' = end
  BY DEF vars, rangeVars, saverVars
<1>3. SaversOK'
  BY <1>2 DEF Inv, SaversOK, SliceOK
<1> QED  BY <1>1, <1>3 DEF Inv

(* Inv is inductive. *)
LEMMA NextInv == ASSUME Inv, [Next]_vars PROVE Inv'
<1>1. ASSUME NEW h \in Savers, TreeAppend(h) PROVE Inv'
  BY <1>1, TreeAppendInv
<1>2. ASSUME NEW h \in Savers, CompactState(h) PROVE Inv'
  BY <1>2, CompactStateInv
<1>3. ASSUME NEW h \in Savers, Encode(h) PROVE Inv'
  BY <1>3, EncodeInv
<1>4. ASSUME NEW h \in Savers, SaveTreeState(h) PROVE Inv'
  BY <1>4, SaveTreeStateInv
<1>5. CASE Restore
  BY <1>5, RestoreInv
<1>6. CASE UNCHANGED vars
  BY <1>6, StutterInv
<1> QED  BY <1>1, <1>2, <1>3, <1>4, <1>5, <1>6 DEF Next
-----------------------------------------------------------------------------
(* What the invariant gives. *)

(* A handler never reads past the elements of its slice, nor a slice past  *)
(* its array, whichever handlers race (tree.go:109-112,                    *)
(* tree_state.go:49-62).                                                   *)
LEMMA InvTypeOK == ASSUME Inv PROVE TypeOK
<1>1. RangeOK /\ SaversOK
  BY DEF Inv
<1>2. end \in 0..MaxSize /\ current \in DOMAIN arrays /\ length \in 0..Len(arrays[current])
  <2>1. /\ end \in 0..MaxSize /\ IsSeq(arrays) /\ current \in 1..Len(arrays) /\ IsSeq(arrays[current])
        /\ length <= Len(arrays[current]) /\ length = Len(RangeNodes(0, end))
    BY <1>1 DEF RangeOK
  <2>2. length \in Nat
    BY <2>1, ShortRange
  <2>3. Len(arrays[current]) \in Nat /\ DOMAIN arrays = 1..Len(arrays)
    BY <2>1, SeqLen
  <2> QED  BY <2>1, <2>2, <2>3
<1>3. DOMAIN arrays = 1..Len(arrays)
  BY <1>1, SeqLen DEF RangeOK
<1>4. ASSUME NEW h \in Savers
      PROVE  /\ pc[h] \in {"append", "compact", "encode"}
             /\ slice[h] # Nil => /\ slice[h].array \in DOMAIN arrays
                                  /\ slice[h].length <= Len(arrays[slice[h].array])
                                  /\ Len(encoded[h]) <= slice[h].length
  <2>1. pc[h] \in {"append", "compact", "encode"}
    BY <1>1 DEF SaversOK, Pcs
  <2>2. ASSUME slice[h] # Nil PROVE SliceOK(h)
    BY <1>1, <2>2 DEF SaversOK
  <2> QED  BY <1>3, <2>1, <2>2 DEF SliceOK
<1> QED  BY <1>2, <1>4 DEF TypeOK

LEMMA InvCut == ASSUME Inv PROVE CutColumnRefused
<1> SUFFICES ASSUME row # Nil, NEW n \in 0..(Len(row.compactHashes) - 1)
             PROVE  Len(decodeHashes(SubSeq(row.compactHashes, 1, n))) < Len(RangeNodes(0, row.treeSize))
  BY DEF CutColumnRefused
<1> DEFINE hs == written.hashes
           T == {hs[i] : i \in 1..Len(hs)}
<1>1. RowFits(row, written)
  BY DEF Inv, RowOK
<1>2. /\ written.size \in 1..MaxSize /\ IsSeq(hs) /\ Len(hs) = Len(RangeNodes(0, written.size))
      /\ row.treeSize = written.size /\ row.compactHashes = encodeHashes(hs)
  BY <1>1 DEF RowFits
<1>3. hs \in Seq(T)
  BY <1>2 DEF IsSeq
<1>4. Fits(4, Len(hs)) /\ Len(hs) >= 1
  <2>1. written.size \in 0..MaxSize
    BY <1>2, MaxSizeAssumption
  <2> QED  BY <1>2, <2>1, ShortRange, SomeNode
<1>5. n \in 0..(Len(encodeHashes(hs)) - 1)
  BY <1>2
<1> HIDE DEF hs, T
<1>6. Len(decodeHashes(SubSeq(encodeHashes(hs), 1, n))) < Len(hs)
  BY <1>3, <1>4, <1>5, CutHashes
<1> QED  BY <1>2, <1>6

RangeStays == hashes = RangeHashes(end) /\ Loaded.hashes = RangeHashes(Loaded.size) => hashes' = RangeHashes(end')

LEMMA RestoredHashes == ASSUME Inv, Restore PROVE hashes' = Loaded.hashes
<1> DEFINE x == Loaded.hashes
<1>1. arrays' = <<x>> /\ current' = 1 /\ length' = Len(x)
  BY Zenon DEF Restore, NewProcess
<1>2. IsSeq(x)
  BY LoadedIs DEF Inv, LoadedOK
<1>3. hashes' = SubSeq(arrays'[current'], 1, length')
  BY DEF hashes
<1> HIDE DEF x
<1>4. hashes' = SubSeq(x, 1, Len(x))
  BY <1>1, <1>3
<1>5. Len(x) \in 0..Len(x)
  BY <1>2, SeqLen
<1>6. IsPrefixOf(SubSeq(x, 1, Len(x)), x, Len(x))
  BY <1>2, <1>5, FirstElements
<1>7. SubSeq(x, 1, Len(x)) = x
  BY <1>2, <1>6, SameSeq DEF IsPrefixOf
<1> QED  BY <1>4, <1>7 DEF x

LEMMA AppendedSlice == ASSUME Inv, Inv', NEW h \in Savers, TreeAppend(h) PROVE hashes' = NewHashes
<1> DEFINE new == NewHashes
           cut == hashes'
<1>1. IsSeq(new) /\ length' = Len(new) /\ \A i \in 1..Len(new) : arrays'[current'][i] = new[i]
  BY AppendIs DEF StoredIn, GrownFrom
<1>2. HashesAre'
  <2>1. RangeOK => HashesAre
    BY HashesIs
  <2>2. RangeOK'
    BY DEF Inv
  <2> QED  BY <2>1, <2>2, HashesIs, PTL
<1>3. IsSeq(cut) /\ Len(cut) = length' /\ \A i \in 1..length' : cut[i] = arrays'[current'][i]
  BY <1>2 DEF HashesAre
<1> HIDE DEF new, cut
<1>4. cut = new
  BY <1>1, <1>3, SameSeq
<1> QED  BY <1>4 DEF new, cut

LEMMA NextStays == ASSUME Inv, Inv', Next PROVE RangeStays
<1> SUFFICES ASSUME hashes = RangeHashes(end), Loaded.hashes = RangeHashes(Loaded.size)
             PROVE  hashes' = RangeHashes(end')
  BY DEF RangeStays
<1>1. ASSUME NEW h \in Savers, TreeAppend(h) PROVE hashes' = RangeHashes(end')
  <2>1. end \in Nat /\ end' = end + 1
    BY <1>1, MaxSizeAssumption DEF Inv, RangeOK, TreeAppend
  <2>2. NewHashes = RangeHashes(end + 1)
    BY <2>1, RangeAppendCorrect DEF NewHashes
  <2> QED  BY <1>1, <2>1, <2>2, AppendedSlice
<1>2. ASSUME UNCHANGED rangeVars PROVE hashes' = RangeHashes(end')
  BY <1>2 DEF hashes, rangeVars
<1>3. ASSUME NEW h \in Savers, CompactState(h) \/ Encode(h) \/ SaveTreeState(h) PROVE UNCHANGED rangeVars
  BY <1>3 DEF CompactState, Encode, SaveTreeState, Saved
<1>4. CASE Restore
  <2>1. hashes' = Loaded.hashes
    BY <1>4, RestoredHashes
  <2>2. end' = Loaded.size
    BY <1>4, Zenon DEF Restore
  <2> QED  BY <2>1, <2>2
<1> QED  BY <1>1, <1>2, <1>3, <1>4 DEF Next
-----------------------------------------------------------------------------
(* Whatever handlers append, read, save and fail, and whenever a new       *)
(* process starts from the row, Inv holds.                                 *)
THEOREM Invariance == Spec => []Inv
<1>1. Init => Inv
  BY InitInv
<1>2. Inv /\ [Next]_vars => Inv'
  BY NextInv
<1> QED  BY <1>1, <1>2, PTL DEF Spec

(* A handler that encodes outside the mutex never reads past its slice,    *)
(* nor a slice past its array (tree.go:109-112, tree_state.go:49-62).      *)
THEOREM TypeCorrect == Spec => []TypeOK
<1>1. Inv => TypeOK
  BY InvTypeOK
<1> QED  BY <1>1, Invariance, PTL

(* RestoreFromState never refuses the row that racing handlers left: its   *)
(* size and its hashes were taken together (tree.go:81, 100-105).          *)
THEOREM RowStaysRestorable == Spec => []RowRestorable
<1>1. Inv => RowRestorable
  BY LoadedIs DEF Inv, LoadedOK, RowRestorable
<1> QED  BY <1>1, Invariance, PTL

(* LoadTreeState gives back the size and the hashes of the last save that  *)
(* took effect, for any number of hashes, and no node                      *)
(* (tree_state.go:16-17, 49-85).                                           *)
THEOREM StateAlwaysComesBack == Spec => []StateComesBack
<1>1. Inv => StateComesBack
  BY LoadedIs DEF Inv, LoadedOK, StateComesBack
<1> QED  BY <1>1, Invariance, PTL

(* A column that is cut at any byte has too few hashes for its size, so    *)
(* NewRange refuses what decodeHashes silently accepts                     *)
(* (tree_state.go:71-78, tree.go:100-103).                                 *)
THEOREM CutColumnAlwaysRefused == Spec => []CutColumnRefused
<1>1. Inv => CutColumnRefused
  BY InvCut
<1> QED  BY <1>1, Invariance, PTL

(* A right range stays right: appended to in place or in a new array, with *)
(* other handlers' slices in the same array, or restored from a right row  *)
(* (tree.go:33-49, 100-105).                                               *)
THEOREM RangeAlwaysStaysCorrect == Spec => RangeStaysCorrect
<1>1. ASSUME Inv, Inv', [Next]_vars PROVE [RangeStays]_vars
  BY <1>1, NextStays
<1>2. Inv /\ Inv' /\ [Next]_vars => [RangeStays]_vars
  BY <1>1
<1>3. Spec => [][RangeStays]_vars
  BY <1>2, Invariance, PTL DEF Spec
<1> QED  BY <1>3 DEF RangeStaysCorrect, RangeStays
=============================================================================
