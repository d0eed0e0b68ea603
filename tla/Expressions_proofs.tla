------------------------- MODULE Expressions_proofs -------------------------
(***************************************************************************)
(* DWARF expressions and LEB128 numbers, for any widths of groups, ints    *)
(* and words, any expression, any size of a stack within its array and    *)
(* anything in it.                                                         *)
(*                                                                         *)
(*   1. Numbers: powers of two, what `or' does to words whose bits do not  *)
(*      meet, and from that what the loops of Encodings.h leave, read      *)
(*      beside the number itself a group at a time.                        *)
(*   2. The machine: the invariant says that its stack holds the words of  *)
(*      the standard's, which every operation that does what it should     *)
(*      keeps.                                                             *)
(***************************************************************************)
EXTENDS Expressions, WellFoundedInduction, SequenceTheorems, TLAPS

-----------------------------------------------------------------------------
(* Numbers                                                                 *)

\* Below every set of numbers that is not empty lies one of its members.
LEMMA HasLeast ==
  ASSUME NEW S, S \subseteq Nat, S # {}
  PROVE  \E s \in S : \A r \in S : s <= r
<1> DEFINE R == OpToRel(<, Nat)
<1>1. IsWellFoundedOn(R, Nat)
  BY NatLessThanWellFounded
<1>2. \A x, y \in Nat : x < y => <<x, y>> \in R
  BY DEF OpToRel
<1> HIDE DEF R
<1>3. PICK s \in S : \A r \in S : <<r, s>> \notin R
  BY <1>1, WFMin
<1>4. \A r \in S : ~(r < s)
  BY <1>2, <1>3
<1> QED  BY <1>4

\* Induction, over the set of the numbers for which something holds.
LEMMA Induction ==
  ASSUME NEW N \in Nat, NEW S, 0 \in S, \A k \in 1 .. N : k - 1 \in S => k \in S
  PROVE  0 .. N \subseteq S
<1> DEFINE T == {k \in 0 .. N : k \notin S}
<1>1. T = {}
  <2> SUFFICES ASSUME T # {} PROVE FALSE
    OBVIOUS
  <2>1. T \subseteq Nat
    OBVIOUS
  <2>2. PICK m \in T : \A r \in T : m <= r
    BY <2>1, HasLeast
  <2>3. m \in 1 .. N
    OBVIOUS
  <2>4. m - 1 \notin T /\ m - 1 \in 0 .. N
    BY <2>2, <2>3
  <2> QED  BY <2>3, <2>4
<1> QED  BY <1>1

\* A function of 0 .. N that begins with a and goes on by the functions g.
Recurrence(N, V, a, g) == N \in Nat /\ a \in V /\ g \in [1 .. N -> [V -> V]]
Solved(N, V, a, g) ==
  \E f \in [0 .. N -> V] : f[0] = a /\ \A k \in 1 .. N : f[k] = g[k][f[k - 1]]

\* Such a function exists: the functions it has up to each number agree.
LEMMA Recursion ==
  ASSUME NEW N, NEW V, NEW a, NEW g, Recurrence(N, V, a, g)
  PROVE  Solved(N, V, a, g)
<1> USE DEF Recurrence
<1> DEFINE Fits(f, m) == /\ f \in [0 .. m -> V]
                         /\ f[0] = a
                         /\ \A k \in 1 .. m : f[k] = g[k][f[k - 1]]
           S == {m \in 0 .. N : \E f : Fits(f, m)}
<1>1. 0 \in S
  <2>1. Fits([k \in 0 .. 0 |-> a], 0)
    OBVIOUS
  <2> HIDE DEF Fits
  <2> QED  BY <2>1
<1>2. ASSUME NEW m \in 1 .. N, m - 1 \in S PROVE m \in S
  <2>1. PICK f : Fits(f, m - 1)
    BY <1>2
  <2> DEFINE h == [k \in 0 .. m |-> IF k < m THEN f[k] ELSE g[m][f[m - 1]]]
  <2>2. f[m - 1] \in V
    BY <2>1
  <2>3. g[m][f[m - 1]] \in V
    BY <2>2
  <2>4. h \in [0 .. m -> V]
    BY <2>1, <2>3
  <2>5. h[0] = a
    BY <2>1
  <2>6. ASSUME NEW k \in 1 .. m PROVE h[k] = g[k][h[k - 1]]
    <3>1. h[k - 1] = f[k - 1]
      OBVIOUS
    <3>2. CASE k < m
      BY <2>1, <3>1, <3>2
    <3>3. CASE k = m
      <4>1. h[m] = g[m][f[m - 1]]
        OBVIOUS
      <4>2. h[m - 1] = f[m - 1]
        BY <3>1, <3>3
      <4> QED  BY ONLY <3>3, <4>1, <4>2
    <3> QED  BY <3>2, <3>3
  <2>7. Fits(h, m)
    BY <2>4, <2>5, <2>6
  <2> HIDE DEF h, Fits
  <2> QED  BY <2>7
<1> HIDE DEF S
<1>3. 0 .. N \subseteq S
  BY <1>1, <1>2, Induction
<1> QED  BY <1>3 DEF S, Solved

\* The only way to divide.
LEMMA Quotient ==
  ASSUME NEW M \in Nat \ {0}, NEW q \in Int, NEW r \in 0 .. M - 1, NEW x, x = M * q + r
  PROVE  x \div M = q /\ x % M = r
OBVIOUS

\* A number is its quotient and its remainder.
LEMMA Divided ==
  ASSUME NEW M \in Nat \ {0}, NEW x \in Int
  PROVE  x = M * (x \div M) + (x % M) /\ x \div M \in Int /\ x % M \in 0 .. M - 1
<1>1. x \div M \in Int
  OBVIOUS
<1>2. x % M \in 0 .. M - 1
  OBVIOUS
<1>3. x = M * (x \div M) + (x % M)
  OBVIOUS
<1> QED  BY <1>1, <1>2, <1>3

\* Whole multiples leave the remainder as it is.
LEMMA Shifts ==
  ASSUME NEW M \in Nat \ {0}, NEW x \in Int, NEW n \in Int
  PROVE  (x + M * n) % M = x % M
<1>1. x = M * (x \div M) + (x % M) /\ x \div M \in Int /\ x % M \in 0 .. M - 1
  BY Divided
<1>2. PICK q, r, w : q = x \div M /\ r = x % M /\ w = x + M * n
  OBVIOUS
<1>3. q \in Int /\ r \in 0 .. M - 1 /\ q + n \in Int
  BY <1>1, <1>2
<1>4. w = M * (q + n) + r
  <2>1. M * (q + n) = M * q + M * n
    BY <1>3
  <2> QED  BY <1>1, <1>2, <1>3, <2>1
<1>5. PICK t : t = q + n
  OBVIOUS
<1>6. w % M = r
  BY ONLY <1>3, <1>4, <1>5, Quotient, M \in Nat \ {0}
<1> QED  BY <1>2, <1>6

-----------------------------------------------------------------------------
(* Powers of two                                                           *)

\* The powers of two satisfy their equation.
LEMMA Power2Follows ==
  /\ Power2[0] = 1
  /\ \A k \in 1 .. WordBits : Power2[k] = 2 * Power2[k - 1]
  /\ \A k \in 0 .. WordBits : Power2[k] \in Nat \ {0}
<1>1. WordBits \in Nat
  BY EncodingsAssumption
<1> DEFINE Body(f) == [k \in 0 .. WordBits |-> IF k = 0 THEN 1 ELSE 2 * f[k - 1]]
<1>2. \E f : f = Body(f)
  <2>1. PICK V, a, N, g : /\ V = Nat /\ a = 1 /\ N = WordBits
                          /\ g = [k \in 1 .. WordBits |-> [v \in Nat |-> 2 * v]]
    OBVIOUS
  <2>2. Solved(N, V, a, g)
    <3>1. Recurrence(N, V, a, g)
      BY <1>1, <2>1 DEF Recurrence
    <3> QED  BY <3>1, Recursion
  <2>3. PICK f \in [0 .. N -> V] : f[0] = a /\ \A k \in 1 .. N : f[k] = g[k][f[k - 1]]
    BY <2>2 DEF Solved
  <2>4. ASSUME NEW k \in 1 .. WordBits PROVE f[k] = 2 * f[k - 1]
    <3>1. f[k - 1] \in V
      <4>1. k - 1 \in 0 .. N
        BY <1>1, <2>1
      <4> QED  BY ONLY <4>1, f \in [0 .. N -> V]
    <3>2. g[k][f[k - 1]] = 2 * f[k - 1]
      BY <2>1, <3>1
    <3> QED  BY <2>1, <2>3, <3>2
  <2>5. f = [k \in 0 .. WordBits |-> f[k]] /\ f[0] = 1
    BY <2>1, <2>3
  <2>6. f = Body(f)
    BY <1>1, <2>4, <2>5
  <2> QED  BY <2>6
<1>3. Power2 = Body(Power2)
  <2>1. Power2 = CHOOSE h : h = Body(h)
    BY DEF Power2
  <2> HIDE DEF Body
  <2> QED  BY <1>2, <2>1
<1>4. Power2[0] = 1 /\ \A k \in 1 .. WordBits : Power2[k] = 2 * Power2[k - 1]
  BY <1>1, <1>3
<1> DEFINE S == {k \in 0 .. WordBits : Power2[k] \in Nat \ {0}}
<1>5. 0 \in S
  BY <1>1, <1>4
<1>6. \A k \in 1 .. WordBits : k - 1 \in S => k \in S
  BY <1>1, <1>4
<1> HIDE DEF S
<1>7. 0 .. WordBits \subseteq S
  BY <1>1, <1>5, <1>6, Induction
<1> QED  BY <1>4, <1>7 DEF S

\* Exponents add up.
LEMMA Power2Sum ==
  ASSUME NEW i \in Nat, NEW j \in Nat, i + j <= WordBits
  PROVE  Power2[i + j] = Power2[i] * Power2[j]
<1>1. WordBits \in Nat
  BY EncodingsAssumption
<1> DEFINE S == {k \in 0 .. WordBits - i : Power2[i + k] = Power2[i] * Power2[k]}
<1>2. 0 \in S
  BY <1>1, Power2Follows
<1>3. ASSUME NEW k \in 1 .. WordBits - i, k - 1 \in S PROVE k \in S
  <2>1. Power2[i + (k - 1)] = Power2[i] * Power2[k - 1]
    BY <1>3
  <2>2. i + (k - 1) = (i + k) - 1 /\ i + k \in 1 .. WordBits /\ k \in 1 .. WordBits
    BY <1>1
  <2>3. Power2[i + k] = 2 * Power2[i + (k - 1)]
    BY <2>2, Power2Follows
  <2>4. Power2[k] = 2 * Power2[k - 1]
    BY <2>2, Power2Follows
  <2>5. Power2[i] \in Nat /\ Power2[k - 1] \in Nat
    BY <1>1, <2>2, Power2Follows
  <2>6. PICK a, b : a = Power2[i] /\ b = Power2[k - 1]
    OBVIOUS
  <2>7. 2 * (a * b) = a * (2 * b)
    BY <2>5, <2>6
  <2> QED  BY <2>1, <2>3, <2>4, <2>6, <2>7
<1> HIDE DEF S
<1>4. WordBits - i \in Nat
  BY <1>1
<1>5. 0 .. WordBits - i \subseteq S
  BY <1>2, <1>3, <1>4, Induction
<1>6. j \in 0 .. WordBits - i
  BY <1>1
<1> QED  BY <1>5, <1>6 DEF S

\* They grow.
LEMMA Power2Grows ==
  ASSUME NEW i \in Nat, NEW j \in Nat, i <= j, j <= WordBits
  PROVE  Power2[i] <= Power2[j] /\ (i < j => 2 * Power2[i] <= Power2[j])
<1>1. WordBits \in Nat /\ j - i \in Nat /\ i + (j - i) = j /\ i \in 0 .. WordBits
  BY EncodingsAssumption
<1>2. Power2[j] = Power2[i] * Power2[j - i]
  BY <1>1, Power2Sum
<1>3. Power2[i] \in Nat \ {0} /\ Power2[j - i] \in Nat \ {0}
  BY <1>1, Power2Follows
<1>4. PICK a, b : a = Power2[i] /\ b = Power2[j - i]
  OBVIOUS
<1>5. a <= a * b /\ (b >= 2 => 2 * a <= a * b)
  BY <1>3, <1>4
<1>6. i < j => b >= 2
  <2> SUFFICES ASSUME i < j PROVE b >= 2
    OBVIOUS
  <2>1. j - i \in 1 .. WordBits /\ (j - i) - 1 \in 0 .. WordBits
    BY <1>1
  <2>2. Power2[j - i] = 2 * Power2[(j - i) - 1] /\ Power2[(j - i) - 1] \in Nat \ {0}
    BY <2>1, Power2Follows
  <2> QED  BY <1>4, <2>2
<1> QED  BY <1>2, <1>4, <1>5, <1>6

-----------------------------------------------------------------------------
(* Words and their bits                                                    *)

\* Half of the words are negative.
LEMMA WordSizeIs ==
  /\ WordSize \in Nat \ {0} /\ WordSize >= 2 /\ WordBits \in Nat /\ WordSize = Power2[WordBits]
  /\ WordSize = 2 * Power2[WordBits - 1] /\ Power2[WordBits - 1] \in Nat \ {0}
<1>1. WordBits \in Nat /\ WordBits \in 1 .. WordBits /\ WordBits - 1 \in 0 .. WordBits
  BY EncodingsAssumption
<1>2. Power2[WordBits] = 2 * Power2[WordBits - 1] /\ Power2[WordBits - 1] \in Nat \ {0}
  BY <1>1, Power2Follows
<1> QED  BY <1>1, <1>2 DEF WordSize

\* The sums of the powers at the places of a set below each place.
Sums(B, sum) ==
  /\ sum[0] = 0
  /\ \A k \in 1 .. WordBits :
       sum[k] = sum[k - 1] + IF k - 1 \in B THEN Power2[k - 1] ELSE 0
  /\ \A k \in 0 .. WordBits : sum[k] \in Nat /\ sum[k] < Power2[k]

\* WordOf satisfies its equation.
LEMMA WordOfSums ==
  ASSUME NEW B
  PROVE  \E sum : Sums(B, sum) /\ WordOf(B) = sum[WordBits]
<1>1. WordBits \in Nat
  BY EncodingsAssumption
<1> DEFINE Body(f) == [k \in 0 .. WordBits |->
                         IF k = 0 THEN 0
                         ELSE f[k - 1] + IF k - 1 \in B THEN Power2[k - 1] ELSE 0]
<1>2. \E f : f = Body(f)
  <2>1. PICK V, a, N, g :
          /\ V = Nat /\ a = 0 /\ N = WordBits
          /\ g = [k \in 1 .. WordBits |->
                    [v \in Nat |-> v + IF k - 1 \in B THEN Power2[k - 1] ELSE 0]]
    OBVIOUS
  <2>2. Solved(N, V, a, g)
    <3>1. \A k \in 1 .. WordBits : Power2[k - 1] \in Nat
      BY <1>1, Power2Follows
    <3>2. /\ \A k \in 1 .. WordBits, v \in Nat :
                 g[k][v] = v + (IF k - 1 \in B THEN Power2[k - 1] ELSE 0)
          /\ \A k \in 1 .. WordBits : DOMAIN g[k] = Nat
      BY <2>1
    <3>3. \A k \in 1 .. WordBits, v \in Nat : g[k][v] \in Nat
      BY <3>1, <3>2
    <3>4. g \in [1 .. WordBits -> [Nat -> Nat]]
      BY <2>1, <3>2, <3>3
    <3>5. Recurrence(N, V, a, g)
      BY <1>1, <2>1, <3>4 DEF Recurrence
    <3> QED  BY <3>5, Recursion
  <2>3. PICK f \in [0 .. N -> V] : f[0] = a /\ \A k \in 1 .. N : f[k] = g[k][f[k - 1]]
    BY <2>2 DEF Solved
  <2>4. ASSUME NEW k \in 1 .. WordBits
        PROVE  f[k] = f[k - 1] + IF k - 1 \in B THEN Power2[k - 1] ELSE 0
    <3>1. f[k - 1] \in V
      <4>1. k - 1 \in 0 .. N
        BY <1>1, <2>1
      <4> QED  BY ONLY <4>1, f \in [0 .. N -> V]
    <3>2. g[k][f[k - 1]] = f[k - 1] + IF k - 1 \in B THEN Power2[k - 1] ELSE 0
      BY <2>1, <3>1
    <3> QED  BY <2>1, <2>3, <3>2
  <2>5. f = [k \in 0 .. WordBits |-> f[k]] /\ f[0] = 0
    BY <2>1, <2>3
  <2>6. f = Body(f)
    <3>1. ASSUME NEW k \in 0 .. WordBits
          PROVE  f[k] = IF k = 0 THEN 0
                        ELSE f[k - 1] + IF k - 1 \in B THEN Power2[k - 1] ELSE 0
      <4>1. CASE k = 0
        BY <2>5, <4>1
      <4>2. CASE k # 0
        <5>1. k \in 1 .. WordBits
          BY <1>1, <4>2
        <5> QED  BY <2>4, <4>2, <5>1
      <4> QED  BY <4>1, <4>2
    <3> QED  BY <2>5, <3>1
  <2> QED  BY <2>6
<1>3. PICK sum : sum = Body(sum) /\ WordOf(B) = sum[WordBits]
  <2>1. WordOf(B) = (CHOOSE h : h = Body(h))[WordBits]
    BY DEF WordOf
  <2> HIDE DEF Body
  <2> QED  BY <1>2, <2>1
<1>4. /\ sum[0] = 0
      /\ \A k \in 1 .. WordBits :
           sum[k] = sum[k - 1] + IF k - 1 \in B THEN Power2[k - 1] ELSE 0
  BY <1>1, <1>3
<1> DEFINE S == {k \in 0 .. WordBits : sum[k] \in Nat /\ sum[k] < Power2[k]}
<1>5. 0 \in S
  BY <1>1, <1>4, Power2Follows
<1>6. \A k \in 1 .. WordBits : k - 1 \in S => k \in S
  <2> SUFFICES ASSUME NEW k \in 1 .. WordBits, k - 1 \in S PROVE k \in S
    OBVIOUS
  <2>1. Power2[k] = 2 * Power2[k - 1] /\ Power2[k - 1] \in Nat
    BY <1>1, Power2Follows
  <2> QED  BY <1>4, <2>1
<1> HIDE DEF S
<1>7. 0 .. WordBits \subseteq S
  BY <1>1, <1>5, <1>6, Induction
<1> QED  BY <1>3, <1>4, <1>7 DEF S, Sums

\* The sum of some bits is a word.
LEMMA WordOfIsWord ==
  ASSUME NEW B
  PROVE  WordOf(B) \in Words
<1>1. PICK sum : Sums(B, sum) /\ WordOf(B) = sum[WordBits]
  BY WordOfSums
<1>2. WordBits \in 0 .. WordBits
  BY EncodingsAssumption
<1> QED  BY <1>1, <1>2, WordSizeIs DEF Sums, Words

\* Words without a bit in common are or-ed by adding them.
LEMMA WordOfUnion ==
  ASSUME NEW A, NEW B, A \cap B = {}
  PROVE  WordOf(A \cup B) = WordOf(A) + WordOf(B)
<1>1. WordBits \in Nat
  BY EncodingsAssumption
<1>2. PICK a : Sums(A, a) /\ WordOf(A) = a[WordBits]
  BY WordOfSums
<1>3. PICK b : Sums(B, b) /\ WordOf(B) = b[WordBits]
  BY WordOfSums
<1>4. PICK c : Sums(A \cup B, c) /\ WordOf(A \cup B) = c[WordBits]
  BY WordOfSums
<1> DEFINE S == {k \in 0 .. WordBits : c[k] = a[k] + b[k]}
<1>5. 0 \in S
  BY <1>1, <1>2, <1>3, <1>4 DEF Sums
<1>6. \A k \in 1 .. WordBits : k - 1 \in S => k \in S
  <2> SUFFICES ASSUME NEW k \in 1 .. WordBits, k - 1 \in S PROVE k \in S
    OBVIOUS
  <2>1. k - 1 \in 0 .. WordBits /\ Power2[k - 1] \in Nat
    BY <1>1, Power2Follows
  <2>2. a[k - 1] \in Nat /\ b[k - 1] \in Nat
    BY <1>2, <1>3, <2>1 DEF Sums
  <2>3. a[k] = a[k - 1] + IF k - 1 \in A THEN Power2[k - 1] ELSE 0
    BY <1>2 DEF Sums
  <2>4. b[k] = b[k - 1] + IF k - 1 \in B THEN Power2[k - 1] ELSE 0
    BY <1>3 DEF Sums
  <2>5. c[k] = c[k - 1] + IF k - 1 \in A \cup B THEN Power2[k - 1] ELSE 0
    BY <1>4 DEF Sums
  <2> QED  BY <2>1, <2>2, <2>3, <2>4, <2>5
<1> HIDE DEF S
<1>7. 0 .. WordBits \subseteq S
  BY <1>1, <1>5, <1>6, Induction
<1> QED  BY <1>1, <1>2, <1>3, <1>4, <1>7 DEF S

\* A word is the sum of its bits.
LEMMA WordOfBits ==
  ASSUME NEW x \in Words
  PROVE  WordOf(Bits(x)) = x
<1>1. WordBits \in Nat /\ x \in Nat /\ x < WordSize
  BY EncodingsAssumption, WordSizeIs DEF Words
<1>2. PICK sum : Sums(Bits(x), sum) /\ WordOf(Bits(x)) = sum[WordBits]
  BY WordOfSums
<1> DEFINE S == {k \in 0 .. WordBits : sum[k] = x % Power2[k]}
<1>3. 0 \in S
  <2>1. sum[0] = 0 /\ Power2[0] = 1
    BY <1>2, Power2Follows DEF Sums
  <2>2. x % 1 = 0
    BY <1>1
  <2> QED  BY <1>1, <2>1, <2>2
<1>4. \A k \in 1 .. WordBits : k - 1 \in S => k \in S
  <2> SUFFICES ASSUME NEW k \in 1 .. WordBits, k - 1 \in S PROVE k \in S
    OBVIOUS
  <2>1. PICK P : P = Power2[k - 1] /\ P \in Nat \ {0} /\ Power2[k] = 2 * P
    BY <1>1, Power2Follows
  <2>2. PICK q, r : q = x \div P /\ r = x % P
    OBVIOUS
  <2>3. x = P * q + r /\ q \in Int /\ r \in 0 .. P - 1
    <3>1. x \in Int /\ P \in Nat \ {0}
      BY <1>1, <2>1
    <3> QED  BY ONLY <2>2, <3>1, Divided
  <2>4. PICK h, b : h = q \div 2 /\ b = q % 2
    OBVIOUS
  <2>5. q = 2 * h + b /\ h \in Int /\ b \in {0, 1}
    BY <2>3, <2>4
  <2>6. x = (2 * P) * h + (P * b + r) /\ P * b + r \in 0 .. 2 * P - 1
    <3>1. CASE b = 0
      <4>1. P * q = (2 * P) * h
        BY <2>1, <2>5, <3>1
      <4> QED  BY <2>1, <2>3, <2>5, <3>1, <4>1
    <3>2. CASE b = 1
      <4>1. P * q = (2 * P) * h + P
        BY <2>1, <2>5, <3>2
      <4> QED  BY <2>1, <2>3, <2>5, <3>2, <4>1
    <3> QED  BY <2>5, <3>1, <3>2
  <2>7. x % (2 * P) = P * b + r
    <3>1. PICK M, t : M = 2 * P /\ t = P * b + r
      OBVIOUS
    <3>2. M \in Nat \ {0} /\ h \in Int /\ t \in 0 .. M - 1 /\ x = M * h + t
      BY <2>1, <2>5, <2>6, <3>1
    <3>3. x % M = t
      BY ONLY <3>2, Quotient
    <3> QED  BY <3>1, <3>3
  <2>8. k - 1 \in Bits(x) <=> b = 1
    BY <1>1, <2>1, <2>2, <2>4 DEF Bits
  <2>9. sum[k - 1] = r
    BY <2>1, <2>2
  <2>10. sum[k] = sum[k - 1] + IF k - 1 \in Bits(x) THEN P ELSE 0
    BY <1>2, <2>1 DEF Sums
  <2>11. sum[k] = P * b + r
    BY <2>1, <2>3, <2>5, <2>8, <2>9, <2>10
  <2> QED  BY <2>1, <2>7, <2>11
<1> HIDE DEF S
<1>5. 0 .. WordBits \subseteq S
  BY <1>1, <1>3, <1>4, Induction
<1>6. sum[WordBits] = x % WordSize
  <2>1. WordBits \in S
    BY <1>1, <1>5
  <2> QED  BY <2>1 DEF S, WordSize
<1>7. x % WordSize = x
  BY <1>1, WordSizeIs
<1> QED  BY <1>2, <1>6, <1>7

\* Without bits from a place on, a word is less than that power.
LEMMA WordOfLow ==
  ASSUME NEW k \in 0 .. WordBits, NEW B \in SUBSET (0 .. k - 1)
  PROVE  WordOf(B) < Power2[k]
<1>1. WordBits \in Nat /\ WordBits - k \in Nat
  BY EncodingsAssumption
<1>2. PICK sum : Sums(B, sum) /\ WordOf(B) = sum[WordBits]
  BY WordOfSums
<1> DEFINE S == {j \in 0 .. WordBits - k : sum[k + j] = sum[k]}
<1>3. 0 \in S
  BY <1>1
<1>4. \A j \in 1 .. WordBits - k : j - 1 \in S => j \in S
  <2> SUFFICES ASSUME NEW j \in 1 .. WordBits - k, j - 1 \in S PROVE j \in S
    OBVIOUS
  <2>1. k + j \in 1 .. WordBits /\ (k + j) - 1 = k + (j - 1) /\ (k + j) - 1 \notin B
    BY <1>1
  <2>2. sum[k + j] = sum[(k + j) - 1] + 0
    BY <1>2, <2>1 DEF Sums
  <2>3. sum[k] \in Nat
    BY <1>2 DEF Sums
  <2> QED  BY <2>1, <2>2, <2>3
<1> HIDE DEF S
<1>5. 0 .. WordBits - k \subseteq S
  BY <1>1, <1>3, <1>4, Induction
<1>6. WordBits - k \in 0 .. WordBits - k /\ k + (WordBits - k) = WordBits
  BY <1>1
<1>7. sum[WordBits] = sum[k]
  BY <1>5, <1>6 DEF S
<1> QED  BY <1>2, <1>7 DEF Sums

\* With every bit from a place on, it is a negative number above that power.
LEMMA WordOfHigh ==
  ASSUME NEW k \in 0 .. WordBits, NEW B, k .. WordBits - 1 \subseteq B
  PROVE  WordOf(B) >= WordSize - Power2[k]
<1>1. WordBits \in Nat /\ WordBits - k \in Nat
  BY EncodingsAssumption
<1>2. PICK sum : Sums(B, sum) /\ WordOf(B) = sum[WordBits]
  BY WordOfSums
<1> DEFINE S == {j \in 0 .. WordBits - k : sum[k + j] >= Power2[k + j] - Power2[k]}
<1>3. \A i \in 0 .. WordBits : Power2[i] \in Nat /\ sum[i] \in Nat
  BY <1>2, Power2Follows DEF Sums
<1>4. 0 \in S
  BY <1>1, <1>3
<1>5. \A j \in 1 .. WordBits - k : j - 1 \in S => j \in S
  <2> SUFFICES ASSUME NEW j \in 1 .. WordBits - k, j - 1 \in S PROVE j \in S
    OBVIOUS
  <2>1. k + j \in 1 .. WordBits /\ (k + j) - 1 = k + (j - 1) /\ (k + j) - 1 \in B
    BY <1>1
  <2>2. sum[k + j] = sum[(k + j) - 1] + Power2[(k + j) - 1]
    BY <1>2, <2>1 DEF Sums
  <2>3. Power2[k + j] = 2 * Power2[(k + j) - 1]
    BY <2>1, Power2Follows
  <2>4. (k + j) - 1 \in 0 .. WordBits /\ k + j \in 0 .. WordBits /\ k \in 0 .. WordBits
    BY <1>1, <2>1
  <2>5. sum[(k + j) - 1] >= Power2[(k + j) - 1] - Power2[k]
    <3>1. sum[k + (j - 1)] >= Power2[k + (j - 1)] - Power2[k]
      OBVIOUS
    <3>2. (k + j) - 1 = k + (j - 1)
      BY <2>1
    <3> QED  BY ONLY <3>1, <3>2
  <2>6. sum[k + j] >= Power2[k + j] - Power2[k]
    BY <1>3, <2>2, <2>3, <2>4, <2>5
  <2> QED  BY <2>6
<1> HIDE DEF S
<1>6. 0 .. WordBits - k \subseteq S
  BY <1>1, <1>4, <1>5, Induction
<1>7. WordBits - k \in 0 .. WordBits - k /\ k + (WordBits - k) = WordBits
  BY <1>1
<1> QED  BY <1>2, <1>6, <1>7 DEF S, WordSize

\* The other way round.
LEMMA BitsLow ==
  ASSUME NEW k \in 0 .. WordBits, NEW x \in Nat, x < Power2[k]
  PROVE  Bits(x) \subseteq 0 .. k - 1
<1> SUFFICES ASSUME NEW i \in Bits(x), i >= k PROVE FALSE
  BY EncodingsAssumption DEF Bits
<1>1. i \in 0 .. WordBits - 1 /\ (x \div Power2[i]) % 2 = 1
  BY DEF Bits
<1>2. Power2[i] \in Nat \ {0} /\ Power2[k] <= Power2[i] /\ Power2[k] \in Nat
  BY <1>1, EncodingsAssumption, Power2Follows, Power2Grows
<1>3. PICK P : P = Power2[i]
  OBVIOUS
<1>4. P \in Nat \ {0} /\ x \in 0 .. P - 1 /\ 0 \in Int /\ x = P * 0 + x
  BY <1>2, <1>3
<1>5. x \div P = 0
  BY ONLY <1>4, Quotient
<1> QED  BY <1>1, <1>3, <1>5

\* And so for negative numbers.
LEMMA BitsHigh ==
  ASSUME NEW k \in 0 .. WordBits, NEW x \in Words, x >= WordSize - Power2[k]
  PROVE  k .. WordBits - 1 \subseteq Bits(x)
<1> SUFFICES ASSUME NEW i \in k .. WordBits - 1 PROVE i \in Bits(x)
  OBVIOUS
<1>1. i \in 0 .. WordBits /\ i \in 0 .. WordBits - 1 /\ WordBits - i \in 1 .. WordBits
      /\ i + (WordBits - i) = WordBits /\ WordBits \in Nat
  BY EncodingsAssumption
<1>2. Power2[i] \in Nat \ {0} /\ Power2[k] <= Power2[i] /\ Power2[k] \in Nat
  BY <1>1, Power2Follows, Power2Grows
<1>3. WordSize = Power2[i] * Power2[WordBits - i]
  BY <1>1, Power2Sum DEF WordSize
<1>4. /\ Power2[WordBits - i] = 2 * Power2[WordBits - i - 1]
      /\ Power2[WordBits - i - 1] \in Nat \ {0}
  <2>1. WordBits - i - 1 \in 0 .. WordBits
    BY <1>1
  <2> QED  BY <1>1, <2>1, Power2Follows
<1>5. PICK P, h, y : P = Power2[i] /\ h = Power2[WordBits - i - 1] /\ y = WordSize - x
  OBVIOUS
<1>6. P \in Nat \ {0} /\ h \in Nat \ {0} /\ y \in 1 .. P /\ x = P * (2 * h) - y /\ x \in Nat
  BY <1>2, <1>3, <1>4, <1>5, WordSizeIs DEF Words
<1>7. x = P * (2 * h - 1) + (P - y)
  <2>1. P * (2 * h - 1) = P * (2 * h) - P
    BY <1>6
  <2> QED  BY <1>6, <2>1
<1>8. PICK q, r : q = 2 * h - 1 /\ r = P - y
  OBVIOUS
<1>9. P \in Nat \ {0} /\ q \in Int /\ r \in 0 .. P - 1 /\ x = P * q + r
  BY <1>6, <1>7, <1>8
<1>10. x \div P = q
  BY ONLY <1>9, Quotient
<1>11. q % 2 = 1
  BY <1>6, <1>8
<1> QED  BY <1>1, <1>5, <1>10, <1>11 DEF Bits

\* A multiple of a power has none of the bits below it.
LEMMA BitsMultiple ==
  ASSUME NEW k \in 0 .. WordBits, NEW m \in Nat
  PROVE  Bits(Power2[k] * m) \subseteq k .. WordBits - 1
<1> SUFFICES ASSUME NEW i \in Bits(Power2[k] * m), i < k PROVE FALSE
  BY EncodingsAssumption DEF Bits
<1>1. i \in 0 .. WordBits /\ ((Power2[k] * m) \div Power2[i]) % 2 = 1 /\ WordBits \in Nat
      /\ k - i \in 1 .. WordBits /\ i + (k - i) = k
  BY EncodingsAssumption DEF Bits
<1>2. Power2[k] = Power2[i] * Power2[k - i]
  BY <1>1, Power2Sum
<1>3. /\ Power2[k - i] = 2 * Power2[k - i - 1] /\ Power2[k - i - 1] \in Nat
      /\ Power2[i] \in Nat \ {0}
  <2>1. k - i - 1 \in 0 .. WordBits
    BY <1>1
  <2> QED  BY <1>1, <2>1, Power2Follows
<1>4. PICK P, h, x : P = Power2[i] /\ h = Power2[k - i - 1] /\ x = Power2[k] * m
  OBVIOUS
<1>5. P \in Nat \ {0} /\ h \in Nat
  BY <1>3, <1>4
<1>6. PICK n : n = h * m /\ n \in Nat
  BY <1>5
<1>7. x = P * (2 * n)
  <2>1. x = (P * (2 * h)) * m
    BY <1>2, <1>3, <1>4
  <2>2. (P * (2 * h)) * m = P * (2 * (h * m))
    BY <1>5
  <2> QED  BY <1>6, <2>1, <2>2
<1>8. PICK q : q = 2 * n
  OBVIOUS
<1>9. P \in Nat \ {0} /\ q \in Int /\ 0 \in 0 .. P - 1 /\ x = P * q + 0
  <2>1. P * q \in Int
    BY <1>5, <1>6, <1>8
  <2> QED  BY <1>5, <1>6, <1>7, <1>8, <2>1
<1>10. x \div P = q
  BY ONLY <1>9, Quotient
<1>11. q % 2 = 0
  BY <1>6, <1>8
<1> QED  BY <1>1, <1>4, <1>10, <1>11

-----------------------------------------------------------------------------
(* The readers of LEB128 numbers                                           *)

\* What is or-ed is a word.
LEMMA OrIsWord ==
  ASSUME NEW x, NEW y
  PROVE  Or(x, y) \in Words
BY WordOfIsWord DEF Or

\* Or-ing words whose bits do not meet adds them.
LEMMA OrAdds ==
  ASSUME NEW k \in 0 .. WordBits, NEW x \in Words, x < Power2[k], NEW m \in Nat,
         NEW y \in Words, y = Power2[k] * m
  PROVE  Or(x, y) = x + y
<1>1. Bits(x) \subseteq 0 .. k - 1
  BY BitsLow, WordSizeIs DEF Words
<1>2. Bits(y) \subseteq k .. WordBits - 1
  BY BitsMultiple
<1>3. Bits(x) \cap Bits(y) = {}
  BY <1>1, <1>2, EncodingsAssumption
<1> QED  BY <1>3, WordOfUnion, WordOfBits DEF Or

\* The words that an int becomes when its sign is extended.
IntWords == {x \in Words : x < Power2[IntBits - 1] \/ x >= WordSize - Power2[IntBits - 1]}

\* What the proofs need of the widths.
LEMMA Widths ==
  /\ GroupBits \in Nat \ {0} /\ IntBits \in Nat /\ WordBits \in Nat
  /\ GroupBits < IntBits /\ IntBits < WordBits
  /\ IntBits - 1 \in 0 .. WordBits /\ IntBits \in 0 .. WordBits /\ IntBits \in 1 .. WordBits
  /\ Power2[IntBits - 1] \in Nat \ {0} /\ Power2[IntBits] = 2 * Power2[IntBits - 1]
  /\ 2 * Power2[IntBits] <= WordSize
  /\ WordSize \in Nat \ {0}
<1>1. /\ GroupBits \in Nat \ {0} /\ IntBits \in Nat /\ WordBits \in Nat
      /\ GroupBits < IntBits /\ IntBits < WordBits
      /\ IntBits - 1 \in 0 .. WordBits /\ IntBits \in 0 .. WordBits /\ IntBits \in 1 .. WordBits
  BY EncodingsAssumption
<1> QED  BY <1>1, Power2Follows, Power2Grows, WordSizeIs

\* Two ints or-ed are an int: where one has ones for its sign, so has the result.
LEMMA OrOfInts ==
  ASSUME NEW x \in IntWords, NEW y \in IntWords
  PROVE  Or(x, y) \in IntWords
<1>1. x \in Words /\ y \in Words /\ Or(x, y) \in Words
  BY OrIsWord DEF IntWords
<1> DEFINE k == IntBits - 1
<1>2. k \in 0 .. WordBits
  BY Widths
<1>3. CASE x < Power2[k] /\ y < Power2[k]
  <2>1. Bits(x) \subseteq 0 .. k - 1 /\ Bits(y) \subseteq 0 .. k - 1
    BY <1>1, <1>2, <1>3, BitsLow, WordSizeIs DEF Words
  <2>2. Or(x, y) < Power2[k]
    BY <1>2, <2>1, WordOfLow DEF Or
  <2> QED  BY <1>1, <2>2 DEF IntWords
<1>4. CASE x >= WordSize - Power2[k]
  <2>1. k .. WordBits - 1 \subseteq Bits(x)
    BY <1>1, <1>2, <1>4, BitsHigh
  <2>2. Or(x, y) >= WordSize - Power2[k]
    BY <1>2, <2>1, WordOfHigh DEF Or
  <2> QED  BY <1>1, <2>2 DEF IntWords
<1>5. CASE y >= WordSize - Power2[k]
  <2>1. k .. WordBits - 1 \subseteq Bits(y)
    BY <1>1, <1>2, <1>5, BitsHigh
  <2>2. Or(x, y) >= WordSize - Power2[k]
    BY <1>2, <2>1, WordOfHigh DEF Or
  <2> QED  BY <1>1, <2>2 DEF IntWords
<1> QED  BY <1>3, <1>4, <1>5 DEF IntWords

\* Ones above a power change nothing in a number that has them.
LEMMA OrOfSign ==
  ASSUME NEW k \in 0 .. WordBits, NEW x \in Words, x >= WordSize - Power2[k]
  PROVE  Or(x, WordSize - Power2[k]) = x
<1>1. k .. WordBits - 1 \subseteq Bits(x)
  BY BitsHigh
<1>2. WordBits - k \in 0 .. WordBits /\ k + (WordBits - k) = WordBits
  BY Widths
<1>3. WordSize = Power2[k] * Power2[WordBits - k] /\ Power2[k] \in Nat
      /\ Power2[WordBits - k] \in Nat \ {0}
  BY <1>2, Power2Sum, Power2Follows DEF WordSize
<1>4. PICK m : m = Power2[WordBits - k] - 1 /\ m \in Nat
  BY <1>3
<1>5. WordSize - Power2[k] = Power2[k] * m
  BY <1>3, <1>4
<1>6. Bits(WordSize - Power2[k]) \subseteq k .. WordBits - 1
  BY <1>4, <1>5, BitsMultiple
<1>7. Bits(x) \cup Bits(WordSize - Power2[k]) = Bits(x)
  BY <1>1, <1>6
<1> QED  BY <1>7, WordOfBits DEF Or

\* And in a number below the power they are added.
LEMMA OrAddsSign ==
  ASSUME NEW k \in 0 .. WordBits, NEW x \in Words, x < Power2[k]
  PROVE  Or(x, WordSize - Power2[k]) = x + (WordSize - Power2[k])
<1>1. WordBits - k \in 0 .. WordBits /\ k + (WordBits - k) = WordBits
  BY Widths
<1>2. WordSize = Power2[k] * Power2[WordBits - k] /\ Power2[k] \in Nat \ {0}
      /\ Power2[WordBits - k] \in Nat \ {0}
  BY <1>1, Power2Sum, Power2Follows DEF WordSize
<1>3. PICK m : m = Power2[WordBits - k] - 1 /\ m \in Nat
  BY <1>2
<1>4. WordSize - Power2[k] = Power2[k] * m
  BY <1>2, <1>3
<1>5. WordSize - Power2[k] \in Words
  <2>1. Power2[k] <= WordSize
    BY <1>1, Power2Grows DEF WordSize
  <2> QED  BY <1>2, <2>1, Widths DEF Words
<1>6. PICK y : y = WordSize - Power2[k]
  OBVIOUS
<1> QED  BY <1>3, <1>4, <1>5, <1>6, OrAdds

\* What is shifted is a multiple of the power it is shifted by, cut to an int
\* whose sign is extended.
LEMMA ShiftedIsInt ==
  ASSUME NEW g \in Nat, NEW s \in Nat
  PROVE  Shifted(g, s) \in IntWords
<1>1. s % IntBits \in 0 .. WordBits
  BY Widths
<1>2. Power2[s % IntBits] \in Nat
  BY <1>1, Power2Follows
<1>3. PICK t : t = (g * Power2[s % IntBits]) % Power2[IntBits] /\ t \in 0 .. Power2[IntBits] - 1
  <2>1. PICK a, M : a = g * Power2[s % IntBits] /\ a \in Nat /\ M = Power2[IntBits]
    BY <1>2
  <2>2. M \in Nat \ {0}
    BY <2>1, Widths
  <2>3. a % M \in 0 .. M - 1
    BY <2>1, <2>2
  <2> QED  BY <2>1, <2>3
<1>4. Shifted(g, s) = Signed(t, IntBits) % WordSize
  BY <1>3 DEF Shifted
<1>5. PICK H, M : H = Power2[IntBits - 1] /\ M = WordSize
  OBVIOUS
<1>6. H \in Nat \ {0} /\ M \in Nat \ {0} /\ 4 * H <= M /\ t \in 0 .. 2 * H - 1
  BY <1>3, <1>5, Widths
<1>7. CASE t < H
  <2>1. t % M = t
    BY <1>6, <1>7
  <2> QED  BY <1>3, <1>4, <1>5, <1>6, <1>7, <2>1 DEF Signed, IntWords, Words
<1>8. CASE t >= H
  <2>1. (t - 2 * H) % M = t - 2 * H + M
    <3>1. t - 2 * H = M * (-1) + (t - 2 * H + M) /\ t - 2 * H + M \in 0 .. M - 1
      BY <1>6, <1>8
    <3>2. PICK x, r : x = t - 2 * H /\ r = t - 2 * H + M
      OBVIOUS
    <3>3. M \in Nat \ {0} /\ -1 \in Int /\ r \in 0 .. M - 1 /\ x = M * (-1) + r
      BY <1>6, <3>1, <3>2
    <3>4. x % M = r
      BY ONLY <3>3, Quotient
    <3> QED  BY <3>2, <3>4
  <2>2. Signed(t, IntBits) = t - 2 * H
    BY <1>5, <1>6, <1>8, Widths DEF Signed
  <2>3. Shifted(g, s) = t - 2 * H + M
    BY <1>4, <1>5, <2>1, <2>2
  <2> QED  BY <1>5, <1>6, <1>8, <2>3 DEF IntWords, Words
<1> QED  BY <1>6, <1>7, <1>8

\* The turns of ULEB128AndAdvance, and those of the standard's reading.
Reads(number, read) ==
  /\ read[0] = 0
  /\ \A k \in 1 .. Len(number) :
       read[k] = Or(read[k - 1], Shifted(number[k], GroupBits * (k - 1)))
  /\ \A k \in 0 .. Len(number) : read[k] \in IntWords

Counts(number, last) ==
  /\ last[0] = 0
  /\ \A k \in 1 .. Len(number) :
       last[k] = number[Len(number) + 1 - k] + Power2[GroupBits] * last[k - 1]
  /\ \A k \in 0 .. Len(number) : last[k] \in Nat

\* The groups of a number.
LEMMA GroupTypes ==
  ASSUME NEW number \in Seq(Groups)
  PROVE  /\ Len(number) \in Nat
         /\ Power2[GroupBits] \in Nat \ {0}
         /\ \A k \in 1 .. Len(number) : number[k] \in Nat /\ number[k] <= Power2[GroupBits] - 1
<1>1. Power2[GroupBits] \in Nat \ {0}
  BY Widths, Power2Follows
<1>2. Len(number) \in Nat /\ \A k \in 1 .. Len(number) : number[k] \in Groups
  OBVIOUS
<1> QED  BY <1>1, <1>2 DEF Groups

\* The loop of ULEB128AndAdvance satisfies its equation.
LEMMA ReadsNumber ==
  ASSUME NEW number \in Seq(Groups)
  PROVE  \E read : Reads(number, read) /\ ULEB128AndAdvance(number) = read[Len(number)]
<1>1. /\ Len(number) \in Nat
      /\ \A k \in 1 .. Len(number) : number[k] \in Nat
  BY GroupTypes
<1> DEFINE Body(f) == [k \in 0 .. Len(number) |->
                         IF k = 0 THEN 0
                         ELSE Or(f[k - 1], Shifted(number[k], GroupBits * (k - 1)))]
<1>2. \E f : f = Body(f)
  <2>1. PICK N, g :
          /\ N = Len(number)
          /\ g = [k \in 1 .. N |->
                    [v \in Words |-> Or(v, Shifted(number[k], GroupBits * (k - 1)))]]
    OBVIOUS
  <2>2. Solved(N, Words, 0, g)
    <3>1. \A k \in 1 .. N, v \in Words : g[k][v] \in Words
      BY <2>1, OrIsWord
    <3>2. \A k \in 1 .. N : g[k] = [v \in Words |-> g[k][v]]
      BY <2>1
    <3>3. g \in [1 .. N -> [Words -> Words]]
      BY <2>1, <3>1, <3>2
    <3>4. 0 \in Words
      BY WordSizeIs DEF Words
    <3>5. Recurrence(N, Words, 0, g)
      BY <1>1, <2>1, <3>3, <3>4 DEF Recurrence
    <3> QED  BY <3>5, Recursion
  <2>3. PICK f \in [0 .. N -> Words] : f[0] = 0 /\ \A k \in 1 .. N : f[k] = g[k][f[k - 1]]
    BY <2>2 DEF Solved
  <2>4. ASSUME NEW k \in 1 .. N
        PROVE  f[k] = Or(f[k - 1], Shifted(number[k], GroupBits * (k - 1)))
    <3>1. f[k - 1] \in Words
      <4>1. k - 1 \in 0 .. N
        BY <1>1, <2>1
      <4> QED  BY ONLY <4>1, f \in [0 .. N -> Words]
    <3>2. g[k][f[k - 1]] = Or(f[k - 1], Shifted(number[k], GroupBits * (k - 1)))
      BY <2>1, <3>1
    <3> QED  BY <2>3, <3>2
  <2>5. f = [k \in 0 .. N |-> f[k]]
    OBVIOUS
  <2>6. f = Body(f)
    <3>1. ASSUME NEW k \in 0 .. Len(number)
          PROVE  f[k] = IF k = 0 THEN 0
                        ELSE Or(f[k - 1], Shifted(number[k], GroupBits * (k - 1)))
      <4>1. CASE k = 0
        BY <2>3, <4>1
      <4>2. CASE k # 0
        <5>1. k \in 1 .. N
          BY <1>1, <2>1, <4>2
        <5> QED  BY <2>4, <4>2, <5>1
      <4> QED  BY <4>1, <4>2
    <3> QED  BY <2>1, <2>5, <3>1
  <2> QED  BY <2>6
<1>3. PICK read : read = Body(read) /\ ULEB128AndAdvance(number) = read[Len(number)]
  <2>1. ULEB128AndAdvance(number) = (CHOOSE h : h = Body(h))[Len(number)]
    BY DEF ULEB128AndAdvance
  <2> HIDE DEF Body
  <2> QED  BY <1>2, <2>1
<1>4. /\ read[0] = 0
      /\ \A k \in 1 .. Len(number) :
           read[k] = Or(read[k - 1], Shifted(number[k], GroupBits * (k - 1)))
  <2>1. \A k \in 0 .. Len(number) :
          read[k] = IF k = 0 THEN 0
                   ELSE Or(read[k - 1], Shifted(number[k], GroupBits * (k - 1)))
    BY <1>3
  <2>2. 0 \in 0 .. Len(number) /\ \A k \in 1 .. Len(number) : k \in 0 .. Len(number) /\ k # 0
    BY <1>1
  <2> QED  BY <2>1, <2>2
<1> DEFINE S == {k \in 0 .. Len(number) : read[k] \in IntWords}
<1>5. 0 \in S
  BY <1>1, <1>4, Widths DEF IntWords, Words
<1>6. \A k \in 1 .. Len(number) : k - 1 \in S => k \in S
  <2> SUFFICES ASSUME NEW k \in 1 .. Len(number), k - 1 \in S PROVE k \in S
    OBVIOUS
  <2>1. number[k] \in Nat /\ GroupBits * (k - 1) \in Nat
    BY <1>1, Widths
  <2>2. Or(read[k - 1], Shifted(number[k], GroupBits * (k - 1))) \in IntWords
    BY <2>1, ShiftedIsInt, OrOfInts
  <2> QED  BY <1>4, <2>2
<1> HIDE DEF S
<1>7. 0 .. Len(number) \subseteq S
  BY <1>1, <1>5, <1>6, Induction
<1> QED  BY <1>3, <1>4, <1>7 DEF S, Reads

\* And so does the number itself.
LEMMA CountsNumber ==
  ASSUME NEW number \in Seq(Groups)
  PROVE  \E last : Counts(number, last) /\ Unsigned(number) = last[Len(number)]
<1>1. /\ Len(number) \in Nat
      /\ Power2[GroupBits] \in Nat
      /\ \A k \in 1 .. Len(number) : number[Len(number) + 1 - k] \in Nat
  <2>1. \A k \in 1 .. Len(number) : Len(number) + 1 - k \in 1 .. Len(number)
    BY GroupTypes
  <2> QED  BY <2>1, GroupTypes
<1> DEFINE Turn(k, v) == number[Len(number) + 1 - k] + Power2[GroupBits] * v
           Body(f) == [k \in 0 .. Len(number) |-> IF k = 0 THEN 0 ELSE Turn(k, f[k - 1])]
<1>2. \A k \in 1 .. Len(number), v \in Nat : Turn(k, v) \in Nat
  <2> SUFFICES ASSUME NEW k \in 1 .. Len(number), NEW v \in Nat PROVE Turn(k, v) \in Nat
    OBVIOUS
  <2>1. number[Len(number) + 1 - k] \in Nat
    BY <1>1
  <2>2. Power2[GroupBits] * v \in Nat
    BY <1>1
  <2> QED  BY <2>1, <2>2
<1> HIDE DEF Turn
<1>3. \E f : f = Body(f)
  <2>1. PICK N, V, g :
          N = Len(number) /\ V = Nat /\ g = [k \in 1 .. N |-> [v \in V |-> Turn(k, v)]]
    OBVIOUS
  <2>2. Solved(N, V, 0, g)
    <3>1. N \in Nat /\ 0 \in V
      BY <1>1, <2>1
    <3>2. \A k \in 1 .. N, v \in V : Turn(k, v) \in V
      BY <1>2, <2>1
    <3>3. g = [k \in 1 .. N |-> [v \in V |-> Turn(k, v)]]
      BY <2>1
    <3>4. g \in [1 .. N -> [V -> V]]
      BY ONLY <3>2, <3>3
    <3>5. Recurrence(N, V, 0, g)
      BY <3>1, <3>4 DEF Recurrence
    <3> QED  BY <3>5, Recursion
  <2>3. PICK f \in [0 .. N -> V] : f[0] = 0 /\ \A k \in 1 .. N : f[k] = g[k][f[k - 1]]
    BY <2>2 DEF Solved
  <2>4. ASSUME NEW k \in 1 .. N
        PROVE  f[k] = Turn(k, f[k - 1])
    <3>1. f[k - 1] \in V
      <4>1. k - 1 \in 0 .. N
        BY <1>1, <2>1
      <4> QED  BY ONLY <4>1, f \in [0 .. N -> V]
    <3>2. g[k][f[k - 1]] = Turn(k, f[k - 1])
      BY <2>1, <3>1
    <3> QED  BY <2>3, <3>2
  <2>5. f = [k \in 0 .. N |-> f[k]]
    OBVIOUS
  <2>6. f = Body(f)
    <3>1. ASSUME NEW k \in 0 .. Len(number)
          PROVE  f[k] = IF k = 0 THEN 0 ELSE Turn(k, f[k - 1])
      <4>1. CASE k = 0
        BY <2>3, <4>1
      <4>2. CASE k # 0
        <5>1. k \in 1 .. N
          BY <1>1, <2>1, <4>2
        <5> QED  BY <2>4, <4>2, <5>1
      <4> QED  BY <4>1, <4>2
    <3> QED  BY <2>1, <2>5, <3>1
  <2> QED  BY <2>6
<1>4. PICK last : last = Body(last) /\ Unsigned(number) = last[Len(number)]
  <2>1. Unsigned(number) = (CHOOSE h : h = Body(h))[Len(number)]
    BY DEF Unsigned, Turn
  <2> HIDE DEF Body
  <2> QED  BY <1>3, <2>1
<1>5. last[0] = 0 /\ \A k \in 1 .. Len(number) : last[k] = Turn(k, last[k - 1])
  BY <1>1, <1>4
<1> DEFINE S == {k \in 0 .. Len(number) : last[k] \in Nat}
<1>6. 0 \in S
  BY <1>1, <1>5
<1>7. \A k \in 1 .. Len(number) : k - 1 \in S => k \in S
  <2> SUFFICES ASSUME NEW k \in 1 .. Len(number), k - 1 \in S PROVE k \in S
    OBVIOUS
  <2>1. last[k - 1] \in Nat
    OBVIOUS
  <2>2. Turn(k, last[k - 1]) \in Nat
    BY <1>2, <2>1
  <2> QED  BY <1>5, <2>2
<1> HIDE DEF S
<1>8. 0 .. Len(number) \subseteq S
  BY <1>1, <1>6, <1>7, Induction
<1> QED  BY <1>4, <1>5, <1>8 DEF S, Counts, Turn

\* How big a number of so many groups is, by its sign.
LEMMA UnsignedBounds ==
  ASSUME NEW number \in Seq(Groups), number # <<>>, ~SLEB128Asserts(number)
  PROVE  /\ Unsigned(number) \in Nat
         /\ GroupBits * Len(number) \in 1 .. WordBits
         /\ IsNegative(number) => /\ Unsigned(number) >= Power2[GroupBits * Len(number) - 1]
                                  /\ Unsigned(number) < Power2[GroupBits * Len(number)]
         /\ ~IsNegative(number) => Unsigned(number) < Power2[GroupBits * Len(number) - 1]
<1> DEFINE L == Len(number)
           top == number[L]
<1>1. L \in Nat \ {0}
  BY GroupTypes
<1>2. PICK last : Counts(number, last) /\ Unsigned(number) = last[L]
  BY CountsNumber
<1>3. GroupBits * L < WordBits /\ GroupBits * L \in Nat
  BY <1>1, Widths DEF SLEB128Asserts
<1>4. ASSUME NEW k \in 1 .. L
      PROVE  /\ GroupBits * k \in 1 .. WordBits /\ GroupBits * k - 1 \in 0 .. WordBits
             /\ GroupBits * k = GroupBits * (k - 1) + GroupBits
             /\ GroupBits * (k - 1) \in 0 .. WordBits
  <2>1. GroupBits * k <= GroupBits * L
    BY <1>1, Widths
  <2>2. GroupBits * k >= GroupBits
    BY Widths
  <2>3. GroupBits * k = GroupBits * (k - 1) + GroupBits
    BY Widths
  <2>4. GroupBits * k \in Nat /\ GroupBits * (k - 1) \in Nat
    BY Widths
  <2> QED  BY <1>3, <2>1, <2>2, <2>3, <2>4, Widths
<1> DEFINE S == {k \in 0 .. L : /\ last[k] < Power2[GroupBits * k]
                                /\ k > 0 /\ top >= Power2[GroupBits - 1] =>
                                     last[k] >= Power2[GroupBits * k - 1]
                                /\ k > 0 /\ top < Power2[GroupBits - 1] =>
                                     last[k] < Power2[GroupBits * k - 1]}
<1>5. 0 \in S
  <2>1. GroupBits * 0 = 0
    BY Widths
  <2>2. last[0] = 0 /\ Power2[0] = 1
    BY <1>2, Power2Follows DEF Counts
  <2> QED  BY <1>1, <2>1, <2>2
<1>6. \A k \in 1 .. L : k - 1 \in S => k \in S
  <2> SUFFICES ASSUME NEW k \in 1 .. L, k - 1 \in S PROVE k \in S
    OBVIOUS
  <2>1. PICK P, g, z : P = Power2[GroupBits] /\ g = number[L + 1 - k] /\ z = last[k - 1]
    OBVIOUS
  <2>2. P \in Nat \ {0} /\ g \in Nat /\ g <= P - 1 /\ z \in Nat
    <3>1. L + 1 - k \in 1 .. L
      BY <1>1
    <3> QED  BY <1>1, <1>2, <2>1, <3>1, GroupTypes DEF Counts
  <2>3. last[k] = g + P * z
    BY <1>2, <2>1 DEF Counts
  <2>4. z < Power2[GroupBits * (k - 1)]
    BY <2>1
  <2>5. Power2[GroupBits * k] = P * Power2[GroupBits * (k - 1)]
    <3>1. PICK j : j = GroupBits * (k - 1)
      OBVIOUS
    <3>2. j \in Nat /\ GroupBits \in Nat /\ GroupBits * k = GroupBits + j
          /\ GroupBits + j <= WordBits
      BY <1>4, <3>1, Widths
    <3>3. Power2[GroupBits + j] = Power2[GroupBits] * Power2[j]
      BY <3>2, Power2Sum
    <3> QED  BY <2>1, <3>1, <3>2, <3>3
  <2>6. PICK Q : Q = Power2[GroupBits * (k - 1)] /\ Q \in Nat \ {0}
    BY <1>4, Power2Follows
  <2>7. g + P * z < P * Q
    <3>1. z + 1 <= Q
      BY <2>2, <2>4, <2>6
    <3>2. P * (z + 1) <= P * Q
      BY <2>2, <2>6, <3>1
    <3>3. P * (z + 1) = P * z + P
      BY <2>2
    <3>4. P * z \in Nat /\ P * Q \in Nat
      BY <2>2, <2>6
    <3> QED  BY <2>2, <3>2, <3>3, <3>4
  <2>8. CASE k = 1
    <3>1. GroupBits * k = GroupBits /\ GroupBits * (k - 1) = 0 /\ L + 1 - k = L
      BY <1>1, <2>8, Widths
    <3>2. z = 0
      BY <1>2, <2>1, <2>8 DEF Counts
    <3>3. last[k] = g /\ g = top
      <4>1. P * z = 0
        BY <2>2, <3>2
      <4> QED  BY <2>1, <2>2, <2>3, <3>1, <4>1
    <3> QED  BY <2>3, <2>5, <2>6, <2>7, <2>8, <3>1, <3>3
  <2>9. CASE k > 1
    <3>1. k - 1 \in 1 .. L
      BY <2>9
    <3>2. /\ GroupBits * (k - 1) - 1 \in Nat /\ GroupBits * k \in Nat
          /\ GroupBits * k - 1 = GroupBits + (GroupBits * (k - 1) - 1)
      BY <1>4, <3>1, Widths
    <3>3. PICK H : H = Power2[GroupBits * (k - 1) - 1] /\ H \in Nat \ {0}
      BY <1>4, <3>1, Power2Follows
    <3>4. Power2[GroupBits * k - 1] = P * H
      BY <1>4, <2>1, <3>2, <3>3, Widths, Power2Sum
    <3>5. ASSUME z >= H PROVE g + P * z >= P * H
      <4>1. P * z >= P * H /\ P * z \in Nat /\ P * H \in Nat
        BY <2>2, <3>3, <3>5
      <4> QED  BY <2>2, <4>1
    <3>6. ASSUME z < H PROVE g + P * z < P * H
      <4>1. P * (z + 1) <= P * H
        BY <2>2, <3>3, <3>6
      <4>2. P * (z + 1) = P * z + P
        BY <2>2
      <4>3. P * z \in Nat /\ P * H \in Nat
        BY <2>2, <3>3
      <4> QED  BY <2>2, <4>1, <4>2, <4>3
    <3>7. /\ top >= Power2[GroupBits - 1] => z >= H
          /\ top < Power2[GroupBits - 1] => z < H
      BY <2>1, <2>9, <3>3
    <3> QED  BY <2>3, <2>5, <2>6, <2>7, <3>4, <3>5, <3>6, <3>7
  <2> QED  BY <2>8, <2>9
<1> HIDE DEF S
<1>7. 0 .. L \subseteq S
  BY <1>1, <1>5, <1>6, Induction
<1>8. L \in S /\ L > 0 /\ last[L] \in Nat /\ GroupBits * L \in 1 .. WordBits
  BY <1>1, <1>2, <1>4, <1>7 DEF Counts
<1>9. top \in Nat /\ Power2[GroupBits - 1] \in Nat
  BY <1>1, GroupTypes, Widths, Power2Follows
<1> QED  BY <1>2, <1>8, <1>9 DEF S, IsNegative

\* A group that does not reach the sign of the int is put where it belongs.
LEMMA Placed ==
  ASSUME NEW s \in 0 .. IntBits - 1, NEW g \in Nat, Power2[s] * g < Power2[IntBits - 1],
         NEW x \in Words, x < Power2[s]
  PROVE  Or(x, Shifted(g, s)) = x + Power2[s] * g
<1>1. PICK P, H, M : P = Power2[s] /\ H = Power2[IntBits - 1] /\ M = WordSize
  OBVIOUS
<1>2. P \in Nat \ {0} /\ H \in Nat \ {0} /\ M \in Nat \ {0} /\ 4 * H <= M
      /\ Power2[IntBits] = 2 * H /\ s \in 0 .. WordBits
  BY <1>1, Widths, Power2Follows
<1>3. PICK t : t = P * g /\ t = g * P /\ t \in 0 .. H - 1
  <2>1. P * g = g * P /\ P * g \in Nat
    BY <1>2
  <2> QED  BY <1>1, <1>2, <2>1
<1>4. s % IntBits = s
  BY Widths
<1>5. t % (2 * H) = t /\ t % M = t
  BY <1>2, <1>3
<1>6. Shifted(g, s) = t
  <2>1. Shifted(g, s) = Signed(t % (2 * H), IntBits) % M
    BY <1>1, <1>2, <1>3, <1>4 DEF Shifted
  <2>2. Signed(t, IntBits) = t
    BY <1>1, <1>2, <1>3 DEF Signed
  <2> QED  BY <1>5, <2>1, <2>2
<1>7. t \in Words
  BY <1>1, <1>2, <1>3 DEF Words
<1> QED  BY <1>1, <1>2, <1>3, <1>6, <1>7, OrAdds

\* A turn that stays below the sign: the groups read so far and the rest make up
\* the number.
LEMMA ReadOn ==
  ASSUME NEW s \in 0 .. IntBits - 1, NEW g \in Nat, g <= Power2[GroupBits] - 1,
         NEW x \in Words, x < Power2[s], NEW z \in Nat,
         Power2[s] * g < Power2[IntBits - 1], s + GroupBits <= WordBits
  PROVE  /\ Or(x, Shifted(g, s)) < Power2[s + GroupBits]
         /\ x + Power2[s] * (g + Power2[GroupBits] * z)
              = Or(x, Shifted(g, s)) + Power2[s + GroupBits] * z
<1>1. Or(x, Shifted(g, s)) = x + Power2[s] * g
  BY Placed
<1>2. PICK P, G : P = Power2[s] /\ G = Power2[GroupBits]
  OBVIOUS
<1>3. P \in Nat \ {0} /\ G \in Nat \ {0} /\ x \in Nat
  BY <1>2, Widths, Power2Follows DEF Words
<1>4. Power2[s + GroupBits] = P * G
  BY <1>2, Widths, Power2Sum
<1>5. x + P * g < P * G
  <2>1. P * (g + 1) <= P * G
    BY <1>2, <1>3
  <2>2. P * (g + 1) = P * g + P
    BY <1>3
  <2>3. P * g \in Nat /\ P * G \in Nat
    BY <1>3
  <2> QED  BY <1>2, <1>3, <2>1, <2>2, <2>3
<1>6. P * (g + G * z) = P * g + (P * G) * z
  BY <1>3
<1>7. P * g \in Nat /\ (P * G) * z \in Nat
  <2>1. PICK R : R = P * G /\ R \in Nat
    BY <1>3
  <2> QED  BY <1>3, <2>1
<1> QED  BY <1>1, <1>2, <1>3, <1>4, <1>5, <1>6, <1>7

\* Read and counted: the word so far and the rest of the number.
ReadTo(number, read, last, k) ==
  /\ GroupBits * k < IntBits
  /\ read[k] < Power2[GroupBits * k]
  /\ read[k] + Power2[GroupBits * k] * last[Len(number) - k] = Unsigned(number)

\* Before the first group nothing is read.
LEMMA ReadsFirst ==
  ASSUME NEW number \in Seq(Groups), NEW read, Reads(number, read),
         NEW last, Counts(number, last), Unsigned(number) = last[Len(number)]
  PROVE  ReadTo(number, read, last, 0)
<1>1. GroupBits * 0 = 0 /\ Len(number) - 0 = Len(number) /\ Len(number) \in Nat
  BY GroupTypes, Widths
<1>2. read[0] = 0 /\ Power2[0] = 1 /\ last[Len(number)] \in Nat
  BY <1>1, Power2Follows DEF Reads, Counts
<1> QED  BY <1>1, <1>2, Widths DEF ReadTo

\* What a turn is about.
LEMMA TurnOf ==
  ASSUME NEW number \in Seq(Groups), NEW read, Reads(number, read),
         NEW last, Counts(number, last), NEW k \in 1 .. Len(number),
         GroupBits * (k - 1) < IntBits
  PROVE  LET s == GroupBits * (k - 1)
             z == last[Len(number) - k]
         IN  /\ s \in 0 .. IntBits - 1 /\ Power2[s] \in Nat \ {0}
             /\ GroupBits * k = s + GroupBits
             /\ number[k] \in Nat /\ number[k] <= Power2[GroupBits] - 1
             /\ Power2[GroupBits] \in Nat \ {0}
             /\ read[k - 1] \in Words /\ read[k] = Or(read[k - 1], Shifted(number[k], s))
             /\ z \in Nat
             /\ last[Len(number) - (k - 1)] = number[k] + Power2[GroupBits] * z
<1>1. Len(number) \in Nat /\ number[k] \in Nat /\ number[k] <= Power2[GroupBits] - 1
  BY GroupTypes
<1>2. GroupBits * (k - 1) \in Nat /\ GroupBits * k = GroupBits * (k - 1) + GroupBits
  BY Widths
<1>3. GroupBits * (k - 1) \in 0 .. IntBits - 1 /\ Power2[GroupBits * (k - 1)] \in Nat \ {0}
      /\ Power2[GroupBits] \in Nat \ {0}
  <2>1. PICK s : s = GroupBits * (k - 1)
    OBVIOUS
  <2>2. s \in Nat /\ s < IntBits
    BY <1>2, <2>1
  <2>3. s \in 0 .. IntBits - 1 /\ s \in 0 .. WordBits /\ GroupBits \in 0 .. WordBits
    BY <2>2, Widths
  <2> QED  BY <2>1, <2>3, Power2Follows
<1>4. read[k - 1] \in Words /\ read[k] = Or(read[k - 1], Shifted(number[k], GroupBits * (k - 1)))
  BY <1>1 DEF Reads, IntWords
<1>5. last[Len(number) - k] \in Nat
  BY <1>1 DEF Counts
<1>6. last[Len(number) - (k - 1)] = number[k] + Power2[GroupBits] * last[Len(number) - k]
  <2>1. PICK j : j = Len(number) - (k - 1)
    OBVIOUS
  <2>2. j \in 1 .. Len(number) /\ Len(number) + 1 - j = k /\ j - 1 = Len(number) - k
    BY <1>1, <2>1
  <2>3. last[j] = number[Len(number) + 1 - j] + Power2[GroupBits] * last[j - 1]
    BY <2>2 DEF Counts
  <2> QED  BY <2>1, <2>2, <2>3
<1> QED  BY <1>1, <1>2, <1>3, <1>4, <1>5, <1>6

\* A word is what it is or-ed with zeros.
LEMMA OrZero ==
  ASSUME NEW x \in Words, NEW s \in Nat
  PROVE  Or(x, Shifted(0, s)) = x
<1>1. Shifted(0, s) = 0
  <2>1. s % IntBits \in 0 .. WordBits
    BY Widths
  <2>2. 0 * Power2[s % IntBits] = 0
    BY <2>1, Power2Follows
  <2>3. 0 % Power2[IntBits] = 0 /\ 0 % WordSize = 0
    BY Widths
  <2> QED  BY <2>2, <2>3, Widths DEF Shifted, Signed
<1>2. WordBits \in 0 .. WordBits /\ x < Power2[WordBits] /\ x \in Nat /\ Power2[WordBits] \in Nat
      /\ 0 \in Words
  BY WordSizeIs DEF Words
<1>3. 0 = Power2[WordBits] * 0
  BY <1>2
<1>4. Or(x, 0) = x + 0
  BY <1>2, <1>3, OrAdds
<1> QED  BY <1>1, <1>2, <1>4

\* A number that an int holds is read as it is.
LEMMA ReadsFitting ==
  ASSUME NEW number \in Seq(Groups), FitsInt(Unsigned(number))
  PROVE  ULEB128AndAdvance(number) = Unsigned(number)
<1> DEFINE L == Len(number)
           U == Unsigned(number)
<1>1. L \in Nat
  BY GroupTypes
<1>2. PICK read : Reads(number, read) /\ ULEB128AndAdvance(number) = read[L]
  BY ReadsNumber
<1>3. PICK last : Counts(number, last) /\ U = last[L]
  BY CountsNumber
<1>4. U \in Nat /\ U < Power2[IntBits - 1]
  BY <1>1, <1>3 DEF Counts, FitsInt
<1> DEFINE S == {k \in 0 .. L : \/ read[k] = U /\ last[L - k] = 0
                                \/ ReadTo(number, read, last, k)}
<1>5. 0 \in S
  BY <1>1, <1>2, <1>3, ReadsFirst
<1>6. \A k \in 1 .. L : k - 1 \in S => k \in S
  <2> SUFFICES ASSUME NEW k \in 1 .. L, k - 1 \in S PROVE k \in S
    OBVIOUS
  <2>1. CASE read[k - 1] = U /\ last[L - (k - 1)] = 0
    <3>1. PICK j : j = L - (k - 1)
      OBVIOUS
    <3>2. j \in 1 .. L /\ L + 1 - j = k /\ j - 1 = L - k
      BY <1>1, <3>1
    <3>3. last[j] = number[L + 1 - j] + Power2[GroupBits] * last[j - 1]
      BY <1>3, <3>2 DEF Counts
    <3>4. number[k] \in Nat /\ last[L - k] \in Nat /\ Power2[GroupBits] \in Nat \ {0}
      <4>1. L - k \in 0 .. L
        BY <1>1
      <4> QED  BY <1>1, <1>3, <4>1, GroupTypes DEF Counts
    <3>5. number[k] = 0 /\ last[L - k] = 0
      <4>1. PICK P, z : P = Power2[GroupBits] /\ z = last[L - k]
        OBVIOUS
      <4>2. number[k] + P * z = 0
        BY <2>1, <3>1, <3>2, <3>3, <4>1
      <4>3. P \in Nat \ {0} /\ z \in Nat
        BY <3>4, <4>1
      <4>4. P * z >= z /\ P * z \in Nat
        BY <4>3
      <4> QED  BY <3>4, <4>1, <4>2, <4>3, <4>4
    <3>6. read[k] = Or(read[k - 1], Shifted(number[k], GroupBits * (k - 1))) /\ read[k - 1] \in Words
      BY <1>1, <1>2 DEF Reads, IntWords
    <3>7. GroupBits * (k - 1) \in Nat
      BY Widths
    <3>8. read[k] = U
      BY <2>1, <3>5, <3>6, <3>7, OrZero
    <3> QED  BY <3>5, <3>8
  <2>2. CASE ReadTo(number, read, last, k - 1)
    <3> DEFINE s == GroupBits * (k - 1)
               z == last[L - k]
               g == number[k]
    <3>1. s < IntBits /\ read[k - 1] < Power2[s] /\ read[k - 1] + Power2[s] * last[L - (k - 1)] = U
      BY <2>2 DEF ReadTo
    <3>2. /\ s \in 0 .. IntBits - 1 /\ Power2[s] \in Nat \ {0}
          /\ GroupBits * k = s + GroupBits
          /\ g \in Nat /\ g <= Power2[GroupBits] - 1
          /\ Power2[GroupBits] \in Nat \ {0}
          /\ read[k - 1] \in Words /\ read[k] = Or(read[k - 1], Shifted(g, s))
          /\ z \in Nat
          /\ last[L - (k - 1)] = g + Power2[GroupBits] * z
      BY <1>2, <1>3, <3>1, TurnOf
    <3> HIDE DEF s, z, g
    <3>3. PICK P, G, x : P = Power2[s] /\ G = Power2[GroupBits] /\ x = read[k - 1]
      OBVIOUS
    <3>4. P \in Nat \ {0} /\ G \in Nat \ {0} /\ x \in Nat /\ U = x + (P * g + P * (G * z))
          /\ P * g \in Nat /\ P * (G * z) \in Nat
      <4>1. P \in Nat \ {0} /\ G \in Nat \ {0} /\ x \in Nat /\ U = x + P * (g + G * z)
        BY <3>1, <3>2, <3>3 DEF Words
      <4>2. P * (g + G * z) = P * g + P * (G * z)
        BY <3>2, <4>1
      <4>3. PICK n : n = G * z /\ n \in Nat
        BY <3>2, <4>1
      <4>4. P * g \in Nat /\ P * n \in Nat
        BY <3>2, <4>1, <4>3
      <4> QED  BY <4>1, <4>2, <4>3, <4>4
    <3>5. Power2[s] * g < Power2[IntBits - 1]
      <4>1. PICK a, b : a = P * g /\ b = P * (G * z)
        OBVIOUS
      <4>2. U = x + (a + b) /\ a \in Nat /\ b \in Nat /\ x \in Nat
        BY <3>4, <4>1
      <4>3. a < Power2[IntBits - 1]
        BY <1>4, <4>2, Widths
      <4> QED  BY <3>3, <4>1, <4>3
    <3>6. CASE z = 0
      <4>1. read[k] = x + P * g
        BY <3>1, <3>2, <3>3, <3>5, Placed
      <4>2. P * (G * z) = 0
        BY <3>4, <3>6
      <4>3. read[k] = U
        BY <3>4, <4>1, <4>2
      <4> QED  BY <3>6, <4>3 DEF z
    <3>7. CASE z # 0
      <4>1. P * G <= U
        <5>1. P * G <= P * (G * z)
          <6>1. PICK m, c : m = z /\ c = G * m
            OBVIOUS
          <6>2. G \in Nat /\ m \in Nat \ {0} /\ c = G * m /\ P \in Nat
            BY <3>2, <3>4, <3>7, <6>1
          <6>3. G <= c /\ c \in Nat
            BY ONLY <6>2
          <6>4. P * G <= P * c
            BY ONLY <6>2, <6>3
          <6> QED  BY <6>1, <6>4
        <5>2. P * G \in Nat
          BY <3>4
        <5> QED  BY <3>4, <5>1, <5>2
      <4>2. s + GroupBits < IntBits
        <5> SUFFICES ASSUME s + GroupBits >= IntBits PROVE FALSE
          BY <3>2, Widths
        <5>1. PICK j : j = IntBits - s
          OBVIOUS
        <5>2. j \in Nat /\ j <= GroupBits /\ s + j = IntBits /\ s \in Nat
          BY <3>2, <5>1, Widths
        <5>3. Power2[IntBits] = P * Power2[j]
          <6>1. s + j <= WordBits
            BY <5>2, Widths
          <6>2. Power2[s + j] = Power2[s] * Power2[j]
            BY <5>2, <6>1, Power2Sum
          <6> QED  BY <3>3, <5>2, <6>2
        <5>4. Power2[j] <= G /\ Power2[j] \in Nat
          <6>1. GroupBits \in 0 .. WordBits /\ WordBits \in Nat
            BY EncodingsAssumption
          <6>2. j \in 0 .. WordBits
            BY ONLY <5>2, <6>1
          <6>3. Power2[j] <= Power2[GroupBits]
            BY <5>2, <6>1, <6>2, Power2Grows
          <6>4. Power2[j] \in Nat
            BY <6>2, Power2Follows
          <6> QED  BY <3>3, <6>3, <6>4
        <5>5. P * Power2[j] <= P * G /\ P * G \in Nat /\ P * Power2[j] \in Nat
          <6>1. PICK q : q = Power2[j]
            OBVIOUS
          <6>2. P \in Nat /\ G \in Nat /\ q \in Nat /\ q <= G
            BY <3>4, <5>4, <6>1
          <6>3. P * q <= P * G /\ P * G \in Nat /\ P * q \in Nat
            BY ONLY <6>2
          <6> QED  BY <6>1, <6>3
        <5> QED  BY <1>4, <4>1, <5>3, <5>5, Widths
      <4>3. s + GroupBits <= WordBits
        BY <3>2, <4>2, Widths
      <4>4. /\ s \in 0 .. IntBits - 1 /\ g \in Nat /\ g <= Power2[GroupBits] - 1
            /\ x \in Words /\ x < Power2[s] /\ z \in Nat
            /\ Power2[s] * g < Power2[IntBits - 1] /\ s + GroupBits <= WordBits
        BY <3>1, <3>2, <3>3, <3>5, <4>3
      <4>5. /\ Or(x, Shifted(g, s)) < Power2[s + GroupBits]
            /\ x + Power2[s] * (g + Power2[GroupBits] * z)
                 = Or(x, Shifted(g, s)) + Power2[s + GroupBits] * z
        BY ONLY <4>4, ReadOn
      <4>6. ReadTo(number, read, last, k)
        BY <3>1, <3>2, <3>3, <4>2, <4>5 DEF ReadTo, z
      <4> QED  BY <4>6
    <3> QED  BY <3>6, <3>7
  <2> QED  BY <2>1, <2>2
<1> HIDE DEF S
<1>7. 0 .. L \subseteq S
  BY <1>1, <1>5, <1>6, Induction
<1>8. read[L] = U
  <2>1. L - L = 0 /\ L \in S
    BY <1>1, <1>7
  <2>2. CASE read[L] = U
    BY <2>2
  <2>3. CASE ReadTo(number, read, last, L)
    <3>1. last[0] = 0 /\ read[L] \in Nat
      BY <1>1, <1>2, <1>3 DEF Reads, Counts, IntWords, Words
    <3>2. GroupBits * L \in 0 .. WordBits
      <4>1. GroupBits * L < IntBits /\ GroupBits * L \in Nat
        BY <1>1, <2>3, Widths DEF ReadTo
      <4> QED  BY <4>1, Widths
    <3>3. Power2[GroupBits * L] * 0 = 0
      BY <3>2, Power2Follows
    <3> QED  BY <2>1, <2>3, <3>1, <3>3 DEF ReadTo
  <2> QED  BY <2>1, <2>2, <2>3 DEF S
<1> QED  BY <1>2, <1>8

\* A small negative number as a word.
LEMMA NegativeWord ==
  ASSUME NEW M \in Nat \ {0}, NEW v \in Int, -M <= v, v < 0
  PROVE  v % M = v + M
<1>1. PICK r : r = v + M
  OBVIOUS
<1>2. M \in Nat \ {0} /\ -1 \in Int /\ r \in 0 .. M - 1 /\ v = M * (-1) + r
  BY <1>1
<1>3. v % M = r
  BY ONLY <1>2, Quotient
<1> QED  BY <1>1, <1>3

\* The groups before the last one, if that begins inside an int.
LEMMA ReadsAllButOne ==
  ASSUME NEW number \in Seq(Groups), number # <<>>,
         GroupBits * (Len(number) - 1) < IntBits,
         NEW read, Reads(number, read),
         NEW last, Counts(number, last), Unsigned(number) = last[Len(number)]
  PROVE  ReadTo(number, read, last, Len(number) - 1)
<1> DEFINE L == Len(number)
<1>1. L \in Nat \ {0} /\ L - 1 \in Nat
  BY GroupTypes
<1> DEFINE S == {k \in 0 .. L - 1 : ReadTo(number, read, last, k)}
<1>2. 0 \in S
  BY <1>1, ReadsFirst
<1>3. \A k \in 1 .. L - 1 : k - 1 \in S => k \in S
  <2> SUFFICES ASSUME NEW k \in 1 .. L - 1, k - 1 \in S PROVE k \in S
    OBVIOUS
  <2> DEFINE s == GroupBits * (k - 1)
             z == last[L - k]
             g == number[k]
  <2>1. s < IntBits /\ read[k - 1] < Power2[s]
        /\ read[k - 1] + Power2[s] * last[L - (k - 1)] = Unsigned(number)
    BY DEF ReadTo
  <2>2. k \in 1 .. L
    BY <1>1
  <2>3. /\ s \in 0 .. IntBits - 1 /\ Power2[s] \in Nat \ {0}
        /\ GroupBits * k = s + GroupBits
        /\ g \in Nat /\ g <= Power2[GroupBits] - 1
        /\ Power2[GroupBits] \in Nat \ {0}
        /\ read[k - 1] \in Words /\ read[k] = Or(read[k - 1], Shifted(g, s))
        /\ z \in Nat
        /\ last[L - (k - 1)] = g + Power2[GroupBits] * z
    BY <2>1, <2>2, TurnOf
  <2>4. s + GroupBits < IntBits
    <3>1. GroupBits * k <= GroupBits * (L - 1)
      <4>1. PICK l : l = L - 1
        OBVIOUS
      <4>2. k \in Nat /\ l \in Nat /\ k <= l /\ GroupBits \in Nat
        BY <1>1, <4>1, Widths
      <4>3. GroupBits * k <= GroupBits * l
        BY ONLY <4>2
      <4> QED  BY <4>1, <4>3
    <3>2. GroupBits * k \in Nat /\ GroupBits * (L - 1) \in Nat
      BY <1>1, Widths
    <3> QED  BY <2>3, <3>1, <3>2, Widths
  <2> HIDE DEF s, z, g
  <2>5. PICK P, G, x : P = Power2[s] /\ G = Power2[GroupBits] /\ x = read[k - 1]
    OBVIOUS
  <2>6. Power2[s] * g < Power2[IntBits - 1]
    <3>1. Power2[s + GroupBits] = P * G
      BY <2>3, <2>4, <2>5, Widths, Power2Sum
    <3>2. Power2[s + GroupBits] <= Power2[IntBits - 1]
      BY <2>3, <2>4, Widths, Power2Grows
    <3>3. PICK d : d = g
      OBVIOUS
    <3>4. P \in Nat \ {0} /\ G \in Nat \ {0} /\ d \in Nat /\ d + 1 <= G
      BY <2>3, <2>5, <3>3
    <3>5. P * d < P * G /\ P * d \in Nat /\ P * G \in Nat
      <4>1. P * (d + 1) <= P * G
        BY ONLY <3>4
      <4>2. P * (d + 1) = P * d + P
        BY ONLY <3>4
      <4>3. P * d \in Nat /\ P * G \in Nat
        BY ONLY <3>4
      <4> QED  BY ONLY <3>4, <4>1, <4>2, <4>3
    <3> QED  BY <2>5, <3>1, <3>2, <3>3, <3>5, Widths
  <2>7. /\ s \in 0 .. IntBits - 1 /\ g \in Nat /\ g <= Power2[GroupBits] - 1
        /\ x \in Words /\ x < Power2[s] /\ z \in Nat
        /\ Power2[s] * g < Power2[IntBits - 1] /\ s + GroupBits <= WordBits
    BY <2>1, <2>3, <2>4, <2>5, <2>6, Widths
  <2>8. /\ Or(x, Shifted(g, s)) < Power2[s + GroupBits]
        /\ x + Power2[s] * (g + Power2[GroupBits] * z)
             = Or(x, Shifted(g, s)) + Power2[s + GroupBits] * z
    BY ONLY <2>7, ReadOn
  <2>9. ReadTo(number, read, last, k)
    BY <2>1, <2>3, <2>4, <2>5, <2>8 DEF ReadTo, z
  <2> QED  BY <2>9
<1> HIDE DEF S
<1>4. 0 .. L - 1 \subseteq S
  BY <1>1, <1>2, <1>3, Induction
<1> QED  BY <1>1, <1>4 DEF S

\* A group that reaches the sign of an int, and makes the number negative.
LEMMA PlacedNegative ==
  ASSUME NEW s \in 0 .. IntBits - 1, NEW e \in 0 .. WordBits, IntBits <= e,
         NEW g \in Nat, NEW x \in Words, x < Power2[s],
         NEW v \in Int, v < 0, -Power2[IntBits - 1] <= v,
         x + Power2[s] * g = v + Power2[e]
  PROVE  Or(x, Shifted(g, s)) = v + WordSize
<1>1. PICK P, H, W, a : P = Power2[s] /\ H = Power2[IntBits - 1] /\ W = WordSize /\ a = P * g
  OBVIOUS
<1>2. /\ P \in Nat \ {0} /\ H \in Nat \ {0} /\ W \in Nat \ {0} /\ 4 * H <= W
      /\ Power2[IntBits] = 2 * H /\ s \in 0 .. WordBits /\ P <= H /\ x \in Nat
  BY <1>1, Widths, Power2Follows, Power2Grows DEF Words
<1>3. PICK h : h = Power2[IntBits - 1 - s] /\ h \in Nat /\ H = P * h
  <2>1. IntBits - 1 - s \in 0 .. WordBits /\ s + (IntBits - 1 - s) = IntBits - 1
    BY Widths
  <2>2. Power2[s + (IntBits - 1 - s)] = Power2[s] * Power2[IntBits - 1 - s]
    BY <2>1, Widths, Power2Sum
  <2> QED  BY <1>1, <2>1, <2>2, Power2Follows
<1>4. PICK w : w = Power2[WordBits - s] /\ w \in Nat /\ W = P * w
  <2>1. WordBits - s \in 0 .. WordBits /\ s + (WordBits - s) = WordBits
    BY Widths
  <2>2. Power2[s + (WordBits - s)] = Power2[s] * Power2[WordBits - s]
    BY <2>1, Widths, Power2Sum
  <2> QED  BY <1>1, <2>1, <2>2, Power2Follows DEF WordSize
<1>5. PICK n : n = Power2[e - IntBits] /\ n \in Nat \ {0} /\ Power2[e] = (2 * H) * n
  <2>1. e - IntBits \in 0 .. WordBits /\ IntBits + (e - IntBits) = e
    BY Widths
  <2>2. Power2[IntBits + (e - IntBits)] = Power2[IntBits] * Power2[e - IntBits]
    BY <2>1, Widths, Power2Sum
  <2> QED  BY <1>1, <1>2, <2>1, <2>2, Power2Follows
<1>6. a \in Nat
  BY <1>1, <1>2
<1>7. PICK t : t = v + 2 * H - x
  OBVIOUS
<1>8. t \in 0 .. 2 * H - 1 /\ t + x >= H
  BY <1>1, <1>2, <1>7
<1>9. a = (2 * H) * (n - 1) + t
  <2>1. (2 * H) * (n - 1) = (2 * H) * n - 2 * H
    BY <1>2, <1>5
  <2>2. (2 * H) * n \in Int
    BY <1>2, <1>5
  <2> QED  BY <1>1, <1>2, <1>5, <1>6, <1>7, <2>1, <2>2
<1>10. a % (2 * H) = t
  <2>1. PICK M, q : M = 2 * H /\ q = n - 1
    OBVIOUS
  <2>2. M \in Nat \ {0} /\ q \in Int /\ t \in 0 .. M - 1 /\ a = M * q + t
    BY <1>2, <1>5, <1>8, <1>9, <2>1
  <2>3. a % M = t
    BY ONLY <2>2, Quotient
  <2> QED  BY <2>1, <2>3
<1>11. PICK m : m = g - (2 * h) * (n - 1) /\ m \in Int /\ t = P * m
  <2>1. PICK m : m = g - (2 * h) * (n - 1)
    OBVIOUS
  <2>2. m \in Int
    BY <1>3, <1>5, <2>1
  <2>3. P * m = P * g - P * ((2 * h) * (n - 1))
    <3>1. PICK b : b = (2 * h) * (n - 1) /\ b \in Int
      BY <1>3, <1>5
    <3>2. P * (g - b) = P * g - P * b
      BY <1>2, <3>1
    <3> QED  BY <2>1, <3>1, <3>2
  <2>4. P * ((2 * h) * (n - 1)) = (2 * (P * h)) * (n - 1)
    BY <1>2, <1>3, <1>5
  <2>5. t = a - (2 * H) * (n - 1)
    <3>1. (2 * H) * (n - 1) \in Int
      BY <1>2, <1>5
    <3> QED  BY <1>6, <1>8, <1>9, <3>1
  <2>6. t = P * m
    BY <1>1, <1>3, <2>3, <2>4, <2>5
  <2> QED  BY <2>1, <2>2, <2>6
<1>12. t >= H
  <2> SUFFICES ASSUME m < h PROVE FALSE
    <3>1. ASSUME m >= h PROVE P * m >= P * h
      BY <1>2, <1>3, <1>11, <3>1
    <3> QED  BY <1>3, <1>11, <3>1
  <2>1. P * (m + 1) <= P * h
    BY <1>2, <1>3, <1>11
  <2>2. P * (m + 1) = P * m + P
    BY <1>2, <1>11
  <2>3. t + P <= H
    BY <1>3, <1>11, <2>1, <2>2
  <2> QED  BY <1>1, <1>2, <1>8, <2>3
<1>13. PICK y : y = t - 2 * H + W
  OBVIOUS
<1>14. Shifted(g, s) = y
  <2>1. s % IntBits = s
    BY Widths
  <2>2. g * P = a
    BY <1>1, <1>2
  <2>3. Shifted(g, s) = Signed(a % (2 * H), IntBits) % W
    BY <1>1, <1>2, <2>1, <2>2 DEF Shifted
  <2>4. Signed(t, IntBits) = t - 2 * H
    BY <1>1, <1>2, <1>8, <1>12, Widths DEF Signed
  <2>5. (t - 2 * H) % W = y
    BY <1>2, <1>8, <1>13, NegativeWord
  <2> QED  BY <1>10, <2>3, <2>4, <2>5
<1>15. y \in Words
  BY <1>1, <1>2, <1>8, <1>12, <1>13 DEF Words
<1>16. PICK c : c = m - 2 * h + w
  OBVIOUS
<1>17. c \in Int /\ y = P * c
  <2>1. P * (m - 2 * h + w) = P * m - 2 * (P * h) + P * w
    BY <1>2, <1>3, <1>4, <1>11
  <2> QED  BY <1>3, <1>4, <1>11, <1>13, <1>16, <2>1
<1>18. c \in Nat
  <2> SUFFICES ASSUME c <= -1 PROVE FALSE
    BY <1>17
  <2>1. P * c <= P * (-1)
    BY <1>2, <1>17
  <2>2. P * (-1) = -P
    BY <1>2
  <2> QED  BY <1>2, <1>15, <1>17, <2>1, <2>2 DEF Words
<1>19. Or(x, y) = x + y
  BY <1>1, <1>2, <1>15, <1>17, <1>18, OrAdds
<1>20. x + y = v + W
  BY <1>2, <1>7, <1>13
<1> QED  BY <1>1, <1>14, <1>19, <1>20

\* A negative number that an int holds and that does not wrap is read as it is.
LEMMA ReadsNegative ==
  ASSUME NEW number \in Seq(Groups), number # <<>>, ~SLEB128Asserts(number),
         IsNegative(number), ~Wraps(number), FitsInt(SignedValue(number))
  PROVE  SLEB128AndAdvance(number) = SignedValue(number) % WordSize
<1> DEFINE L == Len(number)
           U == Unsigned(number)
           s == GroupBits * (L - 1)
           e == GroupBits * L
           g == number[L]
           v == U - Power2[e]
<1>1. L \in Nat \ {0} /\ L \in 1 .. L
  BY GroupTypes
<1>2. s < IntBits
  BY <1>1, Widths DEF Wraps
<1>3. PICK read : Reads(number, read) /\ ULEB128AndAdvance(number) = read[L]
  BY ReadsNumber
<1>4. PICK last : Counts(number, last) /\ U = last[L]
  BY CountsNumber
<1>5. ReadTo(number, read, last, L - 1)
  BY <1>2, <1>3, <1>4, ReadsAllButOne
<1>6. /\ s \in 0 .. IntBits - 1 /\ Power2[s] \in Nat \ {0}
      /\ e = s + GroupBits
      /\ g \in Nat /\ g <= Power2[GroupBits] - 1
      /\ read[L - 1] \in Words /\ read[L] = Or(read[L - 1], Shifted(g, s))
      /\ last[L - (L - 1)] = g + Power2[GroupBits] * last[L - L]
  BY <1>1, <1>2, <1>3, <1>4, TurnOf
<1>7. U \in Nat /\ e \in 1 .. WordBits /\ U < Power2[e]
  BY UnsignedBounds
<1>8. v \in Int /\ v < 0 /\ -Power2[IntBits - 1] <= v
      /\ Power2[e] \in Nat \ {0} /\ SignedValue(number) = v
  <2>1. e \in 0 .. WordBits
    BY <1>7
  <2>2. Power2[e] \in Nat \ {0}
    BY <2>1, Power2Follows
  <2>3. SignedValue(number) = v
    BY DEF SignedValue
  <2> QED  BY <1>7, <2>2, <2>3 DEF FitsInt
<1> HIDE DEF s, e, g, v
<1>9. PICK x : x = read[L - 1]
  OBVIOUS
<1>10. x \in Words /\ x < Power2[s] /\ x + Power2[s] * g = U
  <2>1. read[L - 1] < Power2[s] /\ read[L - 1] + Power2[s] * last[L - (L - 1)] = U
    BY <1>5 DEF ReadTo, s
  <2>2. last[L - L] = 0
    <3>1. L - L = 0
      BY <1>1
    <3> QED  BY <1>4, <3>1 DEF Counts
  <2>3. Power2[GroupBits] * 0 = 0
    BY GroupTypes
  <2>4. last[L - (L - 1)] = g
    BY <1>6, <2>2, <2>3
  <2> QED  BY <1>6, <1>9, <2>1, <2>4
<1>11. v % WordSize = v + WordSize
  BY <1>8, Widths, NegativeWord
<1>12. U = v + Power2[e]
  BY <1>7, <1>8 DEF v
<1>13. SLEB128AndAdvance(number) = Or(read[L], WordSize - Power2[e])
  BY <1>3 DEF SLEB128AndAdvance, e
<1>14. CASE e < IntBits
  <2>1. Power2[e] <= Power2[IntBits - 1]
    BY <1>7, <1>14, Widths, Power2Grows
  <2>2. Power2[s] * g < Power2[IntBits - 1]
    <3>1. PICK a : a = Power2[s] * g
      OBVIOUS
    <3>2. x \in Nat /\ x + a = U /\ a \in Nat
      BY <1>6, <1>10, <3>1 DEF Words
    <3>3. a < Power2[IntBits - 1]
      BY <1>7, <1>8, <2>1, <3>2, Widths
    <3> QED  BY <3>1, <3>3
  <2>3. Or(x, Shifted(g, s)) = x + Power2[s] * g
    BY <1>6, <1>10, <2>2, Placed
  <2>4. read[L] = U /\ U \in Words
    <3>1. read[L] = U
      BY <1>6, <1>9, <1>10, <2>3
    <3> QED  BY <1>1, <1>3, <3>1 DEF Reads, IntWords
  <2>5. Or(U, WordSize - Power2[e]) = U + (WordSize - Power2[e])
    BY <1>7, <2>4, OrAddsSign
  <2> QED  BY <1>7, <1>8, <1>11, <1>12, <1>13, <2>4, <2>5, Widths
<1>15. CASE e >= IntBits
  <2>1. Or(x, Shifted(g, s)) = v + WordSize
    <3>1. /\ s \in 0 .. IntBits - 1 /\ e \in 0 .. WordBits /\ IntBits <= e
          /\ g \in Nat /\ x \in Words /\ x < Power2[s]
          /\ v \in Int /\ v < 0 /\ -Power2[IntBits - 1] <= v
          /\ x + Power2[s] * g = v + Power2[e]
      BY <1>6, <1>7, <1>8, <1>10, <1>12, <1>15
    <3> QED  BY ONLY <3>1, PlacedNegative
  <2>2. read[L] = v + WordSize /\ read[L] \in Words
    BY <1>1, <1>3, <1>6, <1>9, <2>1 DEF Reads, IntWords
  <2>3. Power2[IntBits - 1] <= Power2[e]
    BY <1>7, <1>15, Widths, Power2Grows
  <2>4. v + WordSize >= WordSize - Power2[e]
    BY <1>8, <2>3, Widths
  <2>5. Or(read[L], WordSize - Power2[e]) = read[L]
    BY <1>7, <2>2, <2>4, OrOfSign
  <2> QED  BY <1>8, <1>11, <1>13, <2>2, <2>5
<1> QED  BY <1>7, <1>14, <1>15, Widths

\* Readable numbers are read as they are.
LEMMA ReadsReadable ==
  ASSUME NEW number \in Seq(Groups), number # <<>>, Readable(number)
  PROVE  SLEB128AndAdvance(number) = SignedValue(number) % WordSize
<1>1. CASE IsNegative(number)
  BY <1>1, ReadsNegative DEF Readable
<1>2. CASE ~IsNegative(number)
  <2>1. SignedValue(number) = Unsigned(number)
        /\ SLEB128AndAdvance(number) = ULEB128AndAdvance(number)
    BY <1>2 DEF SignedValue, SLEB128AndAdvance
  <2>2. FitsInt(Unsigned(number))
    BY <2>1 DEF Readable
  <2>3. ULEB128AndAdvance(number) = Unsigned(number)
    BY <2>2, ReadsFitting
  <2>4. Unsigned(number) \in Nat /\ Unsigned(number) < WordSize
    <3>1. Unsigned(number) \in Nat
      BY CountsNumber, GroupTypes DEF Counts
    <3> QED  BY <2>2, <3>1, Widths DEF FitsInt
  <2>5. Unsigned(number) % WordSize = Unsigned(number)
    BY <2>4, Widths
  <2> QED  BY <2>1, <2>3, <2>5
<1> QED  BY <1>1, <1>2

\* The number meant is an integer.
LEMMA SignedIs ==
  ASSUME NEW number \in Seq(Groups), number # <<>>, ~SLEB128Asserts(number)
  PROVE  SignedValue(number) \in Int
<1>1. Unsigned(number) \in Nat
  BY CountsNumber, GroupTypes DEF Counts
<1>2. GroupBits * Len(number) \in 0 .. WordBits
  BY GroupTypes, Widths DEF SLEB128Asserts
<1>3. Power2[GroupBits * Len(number)] \in Nat
  BY <1>2, Power2Follows
<1> QED  BY <1>1, <1>3 DEF SignedValue

\* What is read is an int.
LEMMA ReadIsInt ==
  ASSUME NEW number \in Seq(Groups)
  PROVE  ULEB128AndAdvance(number) \in IntWords
BY ReadsNumber, GroupTypes DEF Reads

\* So a number that is read as it is fits.
LEMMA UnsignedFits ==
  ASSUME NEW number \in Seq(Groups), Unsigned(number) < WordSize \div 2,
         ULEB128AndAdvance(number) = Unsigned(number)
  PROVE  FitsInt(Unsigned(number))
<1>1. Unsigned(number) \in Nat
  BY CountsNumber, GroupTypes DEF Counts
<1>2. WordSize \div 2 = Power2[WordBits - 1]
  <2>1. PICK h : h = Power2[WordBits - 1]
    OBVIOUS
  <2>2. h \in Nat /\ WordSize = 2 * h
    BY <2>1, WordSizeIs
  <2>3. (2 * h) \div 2 = h
    BY <2>2
  <2> QED  BY <2>1, <2>2, <2>3
<1>3. WordSize = 2 * Power2[WordBits - 1] /\ Power2[IntBits - 1] <= Power2[WordBits - 1]
  BY WordSizeIs, Widths, Power2Grows
<1>4. Unsigned(number) < Power2[IntBits - 1]
  BY <1>1, <1>2, <1>3, ReadIsInt, Widths, WordSizeIs DEF IntWords
<1> QED  BY <1>1, <1>4, Widths DEF FitsInt

\* A signed number that is read as it is fits.
LEMMA SignedFits ==
  ASSUME NEW number \in Seq(Groups), number # <<>>, ~SLEB128Asserts(number),
         SLEB128AndAdvance(number) = SignedValue(number) % WordSize
  PROVE  FitsInt(SignedValue(number))
<1> DEFINE e == GroupBits * Len(number)
           U == Unsigned(number)
           H == Power2[IntBits - 1]
<1>1. /\ U \in Nat /\ e \in 1 .. WordBits
      /\ IsNegative(number) => U >= Power2[e - 1] /\ U < Power2[e]
      /\ ~IsNegative(number) => U < Power2[e - 1]
  BY UnsignedBounds
<1> HIDE DEF e
<1>2. /\ Power2[e] = 2 * Power2[e - 1] /\ Power2[e - 1] \in Nat \ {0}
      /\ Power2[e] <= WordSize /\ Power2[e - 1] <= Power2[WordBits - 1]
  <2>1. /\ e - 1 \in 0 .. WordBits /\ e \in 0 .. WordBits
        /\ WordBits \in 0 .. WordBits /\ WordBits - 1 \in 0 .. WordBits
        /\ e <= WordBits /\ e - 1 <= WordBits - 1
    <3>1. WordBits \in Nat /\ e \in 1 .. WordBits
      BY <1>1, EncodingsAssumption
    <3> QED  BY ONLY <3>1
  <2>2. Power2[e] <= Power2[WordBits] /\ Power2[e - 1] <= Power2[WordBits - 1]
    BY <2>1, Power2Grows
  <2>3. Power2[e] = 2 * Power2[e - 1] /\ Power2[e - 1] \in Nat \ {0}
    BY <1>1, <2>1, Power2Follows
  <2> QED  BY <2>2, <2>3, WordSizeIs
<1>3. H \in Nat \ {0} /\ 4 * H <= WordSize /\ WordSize \in Nat
  BY Widths
<1>4. ULEB128AndAdvance(number) \in IntWords
  BY ReadIsInt
<1>5. CASE ~IsNegative(number)
  <2>1. SignedValue(number) = U /\ SLEB128AndAdvance(number) = ULEB128AndAdvance(number)
    BY <1>5 DEF SignedValue, SLEB128AndAdvance
  <2>2. U < WordSize /\ 2 * U < WordSize
    BY <1>1, <1>2, <1>5, WordSizeIs
  <2>3. U % WordSize = U
    <3>1. PICK W : W = WordSize
      OBVIOUS
    <3>2. W \in Nat /\ U \in 0 .. W - 1
      BY <1>1, <1>3, <2>2, <3>1
    <3>3. U % W = U
      BY ONLY <3>2
    <3> QED  BY <3>1, <3>3
  <2>4. U \in IntWords
    BY <1>4, <2>1, <2>3
  <2> QED  BY <1>1, <1>3, <2>1, <2>2, <2>4 DEF FitsInt, IntWords
<1>6. CASE IsNegative(number)
  <2>1. PICK v : v = SignedValue(number)
    OBVIOUS
  <2>2. v = U - Power2[e] /\ v \in Int /\ v < 0 /\ v >= -Power2[e - 1]
    BY <1>1, <1>2, <1>6, <2>1 DEF SignedValue, e
  <2>3. v % WordSize = v + WordSize
    <3>1. -WordSize <= v /\ WordSize \in Nat \ {0}
      BY <1>2, <1>3, <2>2
    <3> QED  BY <2>2, <3>1, NegativeWord
  <2>4. SLEB128AndAdvance(number) = Or(ULEB128AndAdvance(number), WordSize - Power2[e])
    BY <1>6 DEF SLEB128AndAdvance, e
  <2>5. PICK u : u = ULEB128AndAdvance(number)
    OBVIOUS
  <2>6. Or(u, WordSize - Power2[e]) = v + WordSize /\ u \in IntWords /\ u \in Words /\ u \in Nat
    BY <1>4, <2>1, <2>3, <2>4, <2>5, WordSizeIs DEF IntWords, Words
  <2>7. CASE e <= IntBits
    <3>1. Power2[e - 1] <= H
      BY <1>1, <2>7, Widths, Power2Grows
    <3> QED  BY <1>2, <1>3, <2>1, <2>2, <3>1 DEF FitsInt
  <2>8. CASE e > IntBits
    <3>1. 2 * H <= Power2[e - 1] /\ H <= Power2[e]
      <4>1. Power2[IntBits] <= Power2[e - 1]
        BY <1>1, <2>8, Widths, Power2Grows
      <4> QED  BY <1>2, <1>3, <4>1, Widths
    <3>2. CASE u >= WordSize - H
      <4>1. u >= WordSize - Power2[e]
        BY <1>2, <1>3, <2>6, <3>1, <3>2
      <4>2. Or(u, WordSize - Power2[e]) = u
        BY <1>1, <2>6, <4>1, OrOfSign
      <4> QED  BY <1>3, <2>1, <2>2, <2>6, <3>2, <4>2 DEF FitsInt
    <3>3. CASE u < H
      <4>1. u < Power2[e]
        BY <1>2, <1>3, <2>6, <3>1, <3>3
      <4>2. Or(u, WordSize - Power2[e]) = u + (WordSize - Power2[e])
        BY <1>1, <2>6, <4>1, OrAddsSign
      <4>3. u = U
        <5>1. PICK E, W : E = Power2[e] /\ W = WordSize
          OBVIOUS
        <5>2. u \in Nat /\ U \in Nat /\ E \in Nat /\ W \in Nat /\ v = U - E
          <6>1. u \in Nat /\ U \in Nat
            BY <1>1, <2>6
          <6>2. E \in Nat /\ W \in Nat
            BY <1>2, <1>3, <5>1
          <6>3. v = U - E
            BY <2>2, <5>1
          <6> QED  BY <6>1, <6>2, <6>3
        <5>3. u + (W - E) = v + W
          BY <2>6, <4>2, <5>1
        <5> QED  BY ONLY <5>2, <5>3
      <4> QED  BY <1>1, <1>2, <1>3, <1>6, <3>1, <3>3, <4>3
    <3> QED  BY <2>6, <3>2, <3>3 DEF IntWords
  <2> QED  BY <1>1, <2>7, <2>8, Widths
<1> QED  BY <1>5, <1>6

-----------------------------------------------------------------------------
(* The expression                                                          *)

Op == [op : STRING, n : Int, leb : Seq(Seq(Groups)), bytes : Nat]

\* What is assumed of an operation.
IsOp(i) ==
  /\ i \in Op
  /\ i.op \in {"constu", "consts", "fbreg", "breg"} =>
       i.leb[1] \in Seq(Groups) /\ i.leb[1] # <<>>
  /\ \A number \in Range(i.leb) : number \in Seq(Groups) /\ number # <<>>
  /\ i.op = "deref_size" => i.n \in Nat

\* Every operation is one.
LEMMA ExpressionIs ==
  ASSUME NEW e \in Expressions
  PROVE  /\ Len(e) \in Nat \ {0} /\ DOMAIN e = 1 .. Len(e)
         /\ \A k \in 1 .. Len(e) : IsOp(e[k])
<1>1. e \in Seq(Op) /\ e # <<>>
  BY ExpressionsAssumption DEF Op
<1>2. Len(e) \in Nat \ {0} /\ DOMAIN e = 1 .. Len(e) /\ \A k \in 1 .. Len(e) : e[k] \in Op
  BY <1>1
<1>3. ASSUME NEW k \in 1 .. Len(e) PROVE IsOp(e[k])
  <2>1. PICK i : i = e[k]
    OBVIOUS
  <2>2. /\ i \in Op
        /\ i.op \in {"constu", "consts", "fbreg", "breg"} => i.leb # <<>>
        /\ <<>> \notin Range(i.leb)
        /\ i.op = "deref_size" => i.n \in Nat
    BY <1>2, <2>1, ExpressionsAssumption DEF SignedLEB
  <2>3. i.leb \in Seq(Seq(Groups))
    BY <2>2 DEF Op
  <2>4. ASSUME NEW number \in Range(i.leb)
        PROVE  number \in Seq(Groups) /\ number # <<>>
    BY <2>2, <2>3, <2>4 DEF Range
  <2>5. i.leb # <<>> => i.leb[1] \in Range(i.leb)
    <3>1. i.leb # <<>> => 1 \in DOMAIN i.leb
      BY <2>3
    <3> QED  BY <3>1 DEF Range
  <2> QED  BY <2>1, <2>2, <2>4, <2>5 DEF IsOp
<1> QED  BY <1>2, <1>3

\* Only operations have a place, and the first is read first.
LEMMA OffsetIs ==
  ASSUME expression \in Expressions
  PROVE  Offset[0] = 0 /\ \A k \in 0 .. Len(expression) : Offset[k] \in Nat
<1>1. /\ Len(expression) \in Nat \ {0}
      /\ \A k \in 1 .. Len(expression) : expression[k].bytes \in Nat
  BY ExpressionIs DEF IsOp, Op
<1> DEFINE Body(f) == [k \in 0 .. Len(expression) |->
                         IF k = 0 THEN 0 ELSE f[k - 1] + 1 + expression[k].bytes]
<1>2. \E f : f = Body(f)
  <2>0. PICK V : V = Nat
    OBVIOUS
  <2>1. PICK N, g :
          /\ N = Len(expression)
          /\ g = [k \in 1 .. N |-> [v \in V |-> v + 1 + expression[k].bytes]]
    OBVIOUS
  <2>2. Solved(N, V, 0, g)
    <3>1. ASSUME NEW k \in 1 .. N, NEW v \in V PROVE g[k][v] \in V
      <4>1. g[k][v] = v + 1 + expression[k].bytes
        BY <2>1
      <4>2. v \in Nat /\ expression[k].bytes \in Nat
        BY <1>1, <2>0, <2>1
      <4> QED  BY <2>0, <4>1, <4>2
    <3>2. \A k \in 1 .. N : g[k] = [v \in V |-> g[k][v]]
      BY <2>1
    <3>3. g \in [1 .. N -> [V -> V]]
      BY <2>1, <3>1, <3>2
    <3>4. Recurrence(N, V, 0, g)
      BY <1>1, <2>0, <2>1, <3>3 DEF Recurrence
    <3> QED  BY <3>4, Recursion
  <2>3. PICK f \in [0 .. N -> V] : f[0] = 0 /\ \A k \in 1 .. N : f[k] = g[k][f[k - 1]]
    BY <2>2 DEF Solved
  <2>4. ASSUME NEW k \in 1 .. N
        PROVE  f[k] = f[k - 1] + 1 + expression[k].bytes
    <3>1. f[k - 1] \in V
      <4>1. k - 1 \in 0 .. N
        BY <1>1, <2>1
      <4> QED  BY ONLY <4>1, f \in [0 .. N -> V]
    <3>2. g[k][f[k - 1]] = f[k - 1] + 1 + expression[k].bytes
      BY <2>1, <3>1
    <3> QED  BY <2>3, <3>2
  <2>5. f = [k \in 0 .. N |-> f[k]]
    OBVIOUS
  <2>6. f = Body(f)
    <3>1. ASSUME NEW k \in 0 .. Len(expression)
          PROVE  f[k] = IF k = 0 THEN 0 ELSE f[k - 1] + 1 + expression[k].bytes
      <4>1. CASE k = 0
        BY <2>3, <4>1
      <4>2. CASE k # 0
        <5>1. k \in 1 .. N
          BY <1>1, <2>1, <4>2
        <5> QED  BY <2>4, <4>2, <5>1
      <4> QED  BY <4>1, <4>2
    <3> QED  BY <2>1, <2>5, <3>1
  <2> QED  BY <2>6
<1>3. Offset = Body(Offset)
  <2>1. Offset = CHOOSE h : h = Body(h)
    BY DEF Offset
  <2> HIDE DEF Body
  <2> QED  BY <1>2, <2>1
<1>4. \A k \in 0 .. Len(expression) :
        Offset[k] = IF k = 0 THEN 0 ELSE Offset[k - 1] + 1 + expression[k].bytes
  <2>1. PICK f : f = Offset
    OBVIOUS
  <2>2. f = [k \in 0 .. Len(expression) |->
               IF k = 0 THEN 0 ELSE f[k - 1] + 1 + expression[k].bytes]
    BY <1>3, <2>1
  <2>3. \A k \in 0 .. Len(expression) :
          f[k] = IF k = 0 THEN 0 ELSE f[k - 1] + 1 + expression[k].bytes
    BY ONLY <2>2
  <2> QED  BY <2>1, <2>3
<1>5. 0 \in 0 .. Len(expression) /\ \A k \in 1 .. Len(expression) : k \in 0 .. Len(expression) /\ k # 0
  BY <1>1
<1>6. Offset[0] = 0
  BY <1>4, <1>5
<1> DEFINE S == {k \in 0 .. Len(expression) : Offset[k] \in Nat}
<1>7. 0 \in S
  BY <1>5, <1>6
<1>8. \A k \in 1 .. Len(expression) : k - 1 \in S => k \in S
  <2> SUFFICES ASSUME NEW k \in 1 .. Len(expression), k - 1 \in S PROVE k \in S
    OBVIOUS
  <2>1. Offset[k] = Offset[k - 1] + 1 + expression[k].bytes
    BY <1>4, <1>5
  <2> QED  BY <1>1, <1>5, <2>1
<1> HIDE DEF S
<1>9. 0 .. Len(expression) \subseteq S
  BY <1>1, <1>7, <1>8, Induction
<1> QED  BY <1>6, <1>9 DEF S

\* An operation that begins where one may is behind which another begins, or the end.
LEMMA Reading ==
  ASSUME expression \in Expressions, scan \in Starts
  PROVE  IsOp(I) /\ Behind \in Starts \cup {End}
<1>1. Len(expression) \in Nat \ {0} /\ \A k \in 1 .. Len(expression) : IsOp(expression[k])
  BY ExpressionIs
<1>2. \E k \in 1 .. Len(expression) : Offset[k - 1] = scan
  BY DEF Starts
<1>3. Here \in 1 .. Len(expression)
  BY <1>2 DEF Here
<1>4. IsOp(I)
  BY <1>1, <1>3 DEF I
<1>5. CASE Here = Len(expression)
  BY <1>4, <1>5 DEF Behind, End
<1>6. CASE Here # Len(expression)
  <2>1. PICK h : h = Here
    OBVIOUS
  <2>2. h + 1 \in 1 .. Len(expression) /\ (h + 1) - 1 = h
    BY <1>1, <1>3, <1>6, <2>1
  <2>3. Offset[h] \in Starts
    BY <2>2 DEF Starts
  <2> QED  BY <1>4, <2>1, <2>3 DEF Behind
<1> QED  BY <1>4, <1>5, <1>6

\* Starts and End go with the expression.
LEMMA SamePlaces ==
  ASSUME expression' = expression
  PROVE  Starts' = Starts /\ End' = End /\ Offset' = Offset
BY DEF Starts, End, Offset

-----------------------------------------------------------------------------
(* The numbers                                                             *)

\* What is evaluated stays.
LEMMA KeepsExpression ==
  ASSUME [Next]_vars
  PROVE  expression' = expression
BY DEF Next, vars, FrameBase, Operation, Astray, Finish, Is,
       Constant, ConstU, ConstS, FBReg, BReg, BRegX, Reg, RegX, Addr, Deref, DerefSize,
       Drop, Copy, Swap, Rot, Arithmetic1, Arithmetic2, PlusUConst, Compare, Skip, Bra,
       ImplicitValue, StackValue, Unimplemented, Ignored

\* The lemmas together.
LEMMA ReadsNumbers ==
  ASSUME expression \in Expressions
  PROVE  NumbersRead
<1> SUFFICES ASSUME NEW k \in DOMAIN expression, NEW number \in Range(expression[k].leb)
             PROVE  IF expression[k].op \in SignedLEB
                      THEN ~SLEB128Asserts(number) =>
                             LET isRead == SLEB128AndAdvance(number)
                                             = SignedValue(number) % WordSize
                             IN  /\ isRead => FitsInt(SignedValue(number))
                                 /\ Readable(number) => isRead
                    ELSE Unsigned(number) < WordSize \div 2 =>
                           (ULEB128AndAdvance(number) = Unsigned(number)
                              <=> FitsInt(Unsigned(number)))
  BY DEF NumbersRead
<1>1. number \in Seq(Groups) /\ number # <<>>
  BY ExpressionIs DEF IsOp
<1>2. ~SLEB128Asserts(number) /\ SLEB128AndAdvance(number) = SignedValue(number) % WordSize
        => FitsInt(SignedValue(number))
  BY <1>1, SignedFits
<1>3. Readable(number) => SLEB128AndAdvance(number) = SignedValue(number) % WordSize
  BY <1>1, ReadsReadable
<1>4. FitsInt(Unsigned(number)) => ULEB128AndAdvance(number) = Unsigned(number)
  BY <1>1, ReadsFitting
<1>5. Unsigned(number) < WordSize \div 2 /\ ULEB128AndAdvance(number) = Unsigned(number)
        => FitsInt(Unsigned(number))
  BY <1>1, UnsignedFits
<1> QED  BY <1>2, <1>3, <1>4, <1>5

\* Whatever the widths of groups, ints and words are: a LEB128 number is read as it
\* is written just if an int holds it, but for those that wrap (Encodings.h).
THEOREM NumbersAreRead == Spec => []NumbersRead
<1>1. Init => expression \in Expressions
  BY DEF Init
<1>2. expression \in Expressions /\ [Next]_vars => (expression \in Expressions)'
  BY KeepsExpression
<1>3. expression \in Expressions => NumbersRead
  BY ReadsNumbers
<1> QED  BY <1>1, <1>2, <1>3, PTL DEF Spec

-----------------------------------------------------------------------------
(* The invariant of the machine                                            *)

TypeInv ==
  /\ expression \in Expressions
  /\ base \in 0 .. Capacity
  /\ meant \in [right : BOOLEAN, words : Seq(Words), next : Starts \cup {End},
               named : SUBSET Int, read : BOOLEAN]

\* A frame base that is the frame's address is no more than it.
FirstInv == expression[1].op = "call_frame_cfa" => status \in {"entered", "done"}

\* The machine is where the standard is, with the standard's stack on top of what
\* was there, every element of it a generic one unless memory was read.
Follows ==
  /\ DOMAIN stack = 0 .. Capacity - 1
  /\ scan = meant.next
  /\ size = base + Len(meant.words) /\ size <= Capacity
  /\ \A k \in DOMAIN meant.words :
       /\ stack[size - k] \in Element
       /\ stack[size - k].v = meant.words[k]
       /\ ~meant.read => stack[size - k].type = "generic"
  /\ IF meant.named = {} THEN ret = Unset ELSE ret # Unset /\ meant.named = {ret.v}

StackInv ==
  meant.right =>
    /\ status \in {"entered", "running", "crashed", "done"}
    /\ status # "done" => Follows
    /\ status = "crashed" => size = 0
    /\ status = "done" => ResultAsMeant

IInv == TypeInv /\ FirstInv /\ StackInv

\* Nothing is read and nothing is meant.
LEMMA InitHolds ==
  ASSUME Init
  PROVE  IInv
<1>1. TypeInv
  <2>1. 0 \in Starts
    <3>1. 1 \in 1 .. Len(expression) /\ Offset[1 - 1] = 0
      BY ExpressionIs, OffsetIs DEF Init
    <3> QED  BY <3>1 DEF Starts
  <2>2. <<>> \in Seq(Words)
    OBVIOUS
  <2> QED  BY <2>1, <2>2 DEF Init, TypeInv
<1>2. FirstInv
  BY DEF Init, FirstInv
<1>3. Follows
  <2>1. DOMAIN stack = 0 .. Capacity - 1
    BY DEF Init
  <2>2. Len(meant.words) = 0 /\ DOMAIN meant.words = {}
    BY DEF Init
  <2>3. size = base + Len(meant.words) /\ size <= Capacity
    BY <2>2, ExpressionsAssumption DEF Init
  <2> QED  BY <2>1, <2>2, <2>3 DEF Init, Follows
<1>4. StackInv
  BY <1>3 DEF Init, StackInv
<1> QED  BY <1>1, <1>2, <1>4 DEF IInv

\* w is s with v for the first p elements.
Replaced(s, p, v, w) ==
  /\ w \in Seq(Words) /\ Len(w) = Len(v) + Len(s) - p
  /\ \A k \in 1 .. Len(w) : w[k] = IF k <= Len(v) THEN v[k] ELSE s[k - Len(v) + p]

\* And that is what joining leaves.
LEMMA Joined ==
  ASSUME NEW s \in Seq(Words), NEW p \in 0 .. Len(s), NEW v \in Seq(Words),
         NEW w, w = v \o SubSeq(s, p + 1, Len(s))
  PROVE  Replaced(s, p, v, w)
<1>1. PICK r : r = SubSeq(s, p + 1, Len(s))
  OBVIOUS
<1>2. r \in Seq(Words) /\ Len(r) = Len(s) - p
      /\ \A k \in 1 .. Len(r) : r[k] = s[p + k]
  <2>1. Len(s) \in Nat /\ p \in Nat /\ p <= Len(s)
    OBVIOUS
  <2>2. r \in Seq(Words)
    BY <1>1, <2>1
  <2>3. Len(r) = Len(s) - p
    BY <1>1, <2>1
  <2>4. \A k \in 1 .. Len(r) : r[k] = s[p + k]
    BY <1>1, <2>1
  <2> QED  BY <2>2, <2>3, <2>4
<1>3. w = v \o r
  BY <1>1
<1>4. w \in Seq(Words) /\ Len(w) = Len(v) + Len(r)
  BY <1>2, <1>3, ConcatProperties
<1>5. ASSUME NEW k \in 1 .. Len(w)
      PROVE  w[k] = IF k <= Len(v) THEN v[k] ELSE s[k - Len(v) + p]
  <2>1. w[k] = IF k <= Len(v) THEN v[k] ELSE r[k - Len(v)]
    <3>1. k \in 1 .. Len(v) + Len(r)
      BY <1>4
    <3> QED  BY <1>2, <1>3, <3>1, ConcatProperties
  <2>2. k > Len(v) => k - Len(v) \in 1 .. Len(r)
    BY <1>2, <1>4
  <2>3. CASE k <= Len(v)
    BY <2>1, <2>3
  <2>4. CASE k > Len(v)
    <3>1. w[k] = r[k - Len(v)] /\ k - Len(v) \in 1 .. Len(r)
      BY <2>1, <2>2, <2>4
    <3>2. r[k - Len(v)] = s[p + (k - Len(v))]
      BY <1>2, <3>1
    <3>3. p + (k - Len(v)) = k - Len(v) + p
      BY <1>4
    <3> QED  BY <2>4, <3>1, <3>2, <3>3
  <2> QED  BY <1>4, <2>3, <2>4
<1> QED  BY <1>2, <1>4, <1>5 DEF Replaced

-----------------------------------------------------------------------------
(* An operation that does what it should                                   *)

\* Where it begins.
Goes ==
  /\ IInv
  /\ status = "running" /\ scan \in Starts
  /\ meant.right /\ Right(meant.words, I)
  /\ meant' = StdAfter
  /\ UNCHANGED <<expression, base>>

\* How it ends.
Gone == status' = "running" /\ Follows' /\ meant'.words \in Seq(Words)

\* It takes p elements and pushes these, where the standard's words become the v on
\* top of what is left.
Does(p, pushed, v, next) ==
  /\ p \in 0 .. Len(meant.words) /\ pushed \in Seq(Element) /\ v \in Seq(Words)
  /\ Len(pushed) <= p + 1 /\ Len(v) = Len(pushed)
  /\ \A j \in 1 .. Len(v) :
       /\ v[j] = pushed[Len(v) + 1 - j].v
       /\ ~meant'.read => pushed[Len(v) + 1 - j].type = "generic"
  /\ meant'.words = v \o SubSeq(meant.words, p + 1, Len(meant.words))
  /\ meant'.next = next /\ meant'.named = meant.named
  /\ meant.read => meant'.read
  /\ Effect(p, pushed, next)

\* Then the machine has followed.
LEMMA Effected ==
  ASSUME Goes, NEW p, NEW pushed, NEW v, NEW next, Does(p, pushed, v, next)
  PROVE  Gone
<1>1. PICK s, w, n : s = meant.words /\ w = meant'.words /\ n = Len(pushed)
  OBVIOUS
<1>2. /\ s \in Seq(Words) /\ Len(s) \in Nat /\ DOMAIN s = 1 .. Len(s)
      /\ base \in Nat /\ Capacity \in Nat /\ base + Len(s) < Capacity
      /\ Follows
  <2>1. s \in Seq(Words) /\ base \in 0 .. Capacity /\ Capacity \in Nat
    BY <1>1, ExpressionsAssumption DEF Goes, IInv, TypeInv
  <2>2. base + Len(s) < Capacity
    BY <1>1 DEF Goes, Right
  <2>3. Follows
    BY DEF Goes, IInv, StackInv
  <2> QED  BY <2>1, <2>2, <2>3
<1>3. /\ p \in 0 .. Len(s) /\ n \in Nat /\ n <= p + 1
      /\ \A j \in 1 .. n : pushed[j] \in Element
  BY <1>1 DEF Does
<1>4. /\ w \in Seq(Words) /\ Len(w) = n + Len(s) - p
      /\ \A k \in 1 .. Len(w) : w[k] = IF k <= n THEN v[k] ELSE s[k - n + p]
  <2>1. v \in Seq(Words) /\ Len(v) = n /\ w = v \o SubSeq(s, p + 1, Len(s))
    BY <1>1 DEF Does
  <2>2. Replaced(s, p, v, w)
    BY <1>2, <1>3, <2>1, Joined
  <2> QED  BY <2>1, <2>2 DEF Replaced
<1>5. size = base + Len(s) /\ size \in Nat /\ p <= size /\ size - p + n <= Capacity
  <2>1. size = base + Len(s)
    BY <1>1, <1>2 DEF Follows
  <2> QED  BY <1>2, <1>3, <2>1
<1>6. /\ stack' = [slot \in DOMAIN stack |->
                     IF slot \in size - p .. size - p + n - 1
                       THEN pushed[slot - size + p + 1] ELSE stack[slot]]
      /\ size' = size - p + n /\ scan' = next /\ ret' = ret /\ status' = status
  <2>1. Effect(p, pushed, next)
    BY DEF Does
  <2>2. ~(p > size \/ size - p + n > Capacity)
    BY <1>2, <1>3, <1>5
  <2> QED  BY <1>1, <2>1, <2>2 DEF Effect
<1>7. DOMAIN stack = 0 .. Capacity - 1 /\ DOMAIN stack' = 0 .. Capacity - 1
  BY <1>2, <1>6 DEF Follows
<1>8. scan' = meant'.next
  BY <1>6 DEF Does
<1>9. size' = base' + Len(w) /\ size' <= Capacity
  <2>1. base' = base
    BY DEF Goes
  <2> QED  BY <1>2, <1>3, <1>4, <1>5, <1>6, <2>1
<1>10. ASSUME NEW k \in DOMAIN w
       PROVE  /\ stack'[size' - k] \in Element
              /\ stack'[size' - k].v = w[k]
              /\ ~meant'.read => stack'[size' - k].type = "generic"
  <2>1. k \in 1 .. Len(w) /\ Len(w) \in Nat
    BY <1>4
  <2>2. size' - k \in DOMAIN stack
    BY <1>2, <1>3, <1>4, <1>5, <1>6, <1>7, <2>1
  <2>3. CASE k <= n
    <3>1. size' - k \in size - p .. size - p + n - 1
          /\ (size' - k) - size + p + 1 = n + 1 - k
      <4>1. PICK y, z, l : y = size /\ z = size' /\ l = Len(w)
        OBVIOUS
      <4>2. y \in Nat /\ n \in Nat /\ p \in Nat /\ z = y - p + n /\ k \in 1 .. l /\ l \in Nat
            /\ k <= n
        BY <1>2, <1>3, <1>5, <1>6, <2>1, <2>3, <4>1
      <4>3. z - k \in y - p .. y - p + n - 1 /\ (z - k) - y + p + 1 = n + 1 - k
        BY ONLY <4>2
      <4> QED  BY <4>1, <4>3
    <3>2. stack'[size' - k] = pushed[n + 1 - k]
      BY <1>6, <2>2, <3>1
    <3>3. k \in 1 .. n /\ n + 1 - k \in 1 .. n
      BY <1>3, <2>1, <2>3
    <3>4. v[k] = pushed[n + 1 - k].v /\ (~meant'.read => pushed[n + 1 - k].type = "generic")
      BY <1>1, <3>3 DEF Does
    <3>5. w[k] = v[k]
      BY <1>4, <2>1, <2>3
    <3> QED  BY <1>3, <3>2, <3>3, <3>4, <3>5
  <2>4. CASE k > n
    <3>1. PICK m : m = k - n + p
      OBVIOUS
    <3>2. m \in 1 .. Len(s) /\ size' - k = size - m
      <4>1. PICK y, z, l, i : y = size /\ z = size' /\ l = Len(w) /\ i = Len(s)
        OBVIOUS
      <4>2. /\ y \in Nat /\ n \in Nat /\ p \in Nat /\ z = y - p + n /\ k \in 1 .. l
            /\ i \in Nat /\ p <= i /\ l = n + i - p /\ k > n /\ m = k - n + p
        BY <1>2, <1>3, <1>4, <1>5, <1>6, <2>1, <2>4, <3>1, <4>1
      <4>3. m \in 1 .. i /\ z - k = y - m
        BY ONLY <4>2
      <4> QED  BY <4>1, <4>3
    <3>3. size - m \notin size - p .. size - p + n - 1
      BY <1>3, <1>5, <2>1, <2>4, <3>1
    <3>4. stack'[size' - k] = stack[size - m]
      BY <1>6, <2>2, <3>2, <3>3
    <3>5. w[k] = s[m]
      BY <1>3, <1>4, <2>1, <2>4, <3>1
    <3>6. stack[size - m] \in Element /\ stack[size - m].v = s[m]
          /\ (~meant.read => stack[size - m].type = "generic")
      BY <1>1, <1>2, <3>2 DEF Follows
    <3>7. meant.read => meant'.read
      BY DEF Does
    <3> QED  BY <3>4, <3>5, <3>6, <3>7
  <2> QED  BY <1>3, <2>1, <2>3, <2>4
<1>11. IF meant'.named = {} THEN ret' = Unset ELSE ret' # Unset /\ meant'.named = {ret'.v}
  <2>1. meant'.named = meant.named
    BY DEF Does
  <2> QED  BY <1>2, <1>6, <2>1 DEF Follows
<1>12. Follows'
  BY <1>1, <1>7, <1>8, <1>9, <1>10, <1>11 DEF Follows, Unset, Element
<1> QED  BY <1>1, <1>4, <1>6, <1>12 DEF Goes, Gone

\* All of a sequence, and all but the first.
LEMMA Lower ==
  ASSUME NEW s \in Seq(Words)
  PROVE  /\ SubSeq(s, 1, Len(s)) = s
         /\ Len(s) >= 1 => SubSeq(s, 2, Len(s)) = Tail(s)
<1>1. Len(s) \in Nat
  OBVIOUS
<1>2. SubSeq(s, 1, Len(s)) = s
  <2>1. PICK r : r = SubSeq(s, 1, Len(s))
    OBVIOUS
  <2>2. r \in Seq(Words) /\ Len(r) = Len(s) /\ \A k \in 1 .. Len(s) : r[k] = s[k]
    BY <1>1, <2>1
  <2>3. r = s
    BY <2>2, SeqEqual
  <2> QED  BY <2>1, <2>3
<1>3. ASSUME Len(s) >= 1 PROVE SubSeq(s, 2, Len(s)) = Tail(s)
  <2>1. PICK r, t : r = SubSeq(s, 2, Len(s)) /\ t = Tail(s)
    OBVIOUS
  <2>2. r \in Seq(Words) /\ Len(r) = Len(s) - 1
        /\ \A k \in 1 .. Len(r) : r[k] = s[k + 1]
    <3>1. PICK l : l = Len(s) /\ l \in Nat /\ l >= 1
      BY <1>1, <1>3
    <3>2. r = SubSeq(s, 1 + 1, l)
      BY <2>1, <3>1
    <3>3. r \in Seq(Words)
      BY <3>1, <3>2
    <3>4. Len(r) = l - 1
      BY <3>1, <3>2
    <3>5. \A k \in 1 .. Len(r) : r[k] = s[1 + k]
      BY <3>1, <3>2
    <3>6. \A k \in 1 .. Len(r) : r[k] = s[k + 1]
      BY <3>5
    <3> QED  BY <3>1, <3>3, <3>4, <3>6
  <2>3. s # <<>>
    BY <1>3
  <2>4. t \in Seq(Words) /\ Len(t) = Len(s) - 1
        /\ \A k \in 1 .. Len(t) : t[k] = s[k + 1]
    BY <2>1, <2>3, HeadTailProperties
  <2>5. r = t
    BY <2>2, <2>4, SeqEqual
  <2> QED  BY <2>1, <2>5
<1> QED  BY <1>2, <1>3

\* What an operation finds, and what becomes of it in the standard.
LEMMA Going ==
  ASSUME Goes
  PROVE  /\ IsOp(I) /\ meant.words \in Seq(Words) /\ Len(meant.words) \in Nat
         /\ Len(meant.words) >= Operands(I)
         /\ size = base + Len(meant.words) /\ size \in Nat /\ size < Capacity
         /\ base \in Nat /\ scan = meant.next
         /\ meant'.right = TRUE
         /\ meant'.words = StdStep(meant.words, I)
         /\ meant'.next = IF StdJumps(meant.words, I) THEN Behind + I.n ELSE Behind
         /\ meant'.named = IF I.op \in {"reg", "implicit_value"} THEN {I.n} ELSE meant.named
         /\ meant'.read = (meant.read \/ I.op = "deref")
<1>1. IsOp(I)
  BY Reading DEF Goes, IInv, TypeInv
<1>2. meant.words \in Seq(Words) /\ base \in 0 .. Capacity /\ Capacity \in Nat
  BY ExpressionsAssumption DEF Goes, IInv, TypeInv
<1>3. Len(meant.words) >= Operands(I) /\ base + Len(meant.words) < Capacity
  BY DEF Goes, Right
<1>4. Follows
  BY DEF Goes, IInv, StackInv
<1>5. size = base + Len(meant.words) /\ scan = meant.next
  BY <1>4 DEF Follows
<1>6. meant' = [right |-> TRUE,
                words |-> StdStep(meant.words, I),
                next  |-> IF StdJumps(meant.words, I) THEN Behind + I.n ELSE Behind,
                named |-> IF I.op \in {"reg", "implicit_value"} THEN {I.n} ELSE meant.named,
                read  |-> meant.read \/ I.op = "deref"]
  BY DEF Goes, StdAfter
<1> QED  BY <1>1, <1>2, <1>3, <1>5, <1>6

\* The elements on top hold the words on top.
LEMMA Tops ==
  ASSUME Goes, NEW k \in 1 .. Len(meant.words)
  PROVE  /\ Top(k - 1) \in Element /\ Top(k - 1).v = meant.words[k]
         /\ meant.words[k] \in Words
         /\ ~meant.read => Top(k - 1).type = "generic"
<1>1. meant.words \in Seq(Words) /\ size \in Nat /\ Len(meant.words) \in Nat
  BY Going
<1>2. Follows
  BY DEF Goes, IInv, StackInv
<1>3. k \in DOMAIN meant.words
  BY <1>1
<1>4. Top(k - 1) = stack[size - k]
  <2>1. size - 1 - (k - 1) = size - k
    BY <1>1
  <2> QED  BY <2>1 DEF Top
<1> QED  BY <1>1, <1>2, <1>3, <1>4 DEF Follows

\* One element is pushed for p.
LEMMA PushesOne ==
  ASSUME Goes, NEW p \in 0 .. Len(meant.words), NEW element \in Element,
         meant'.words = <<element.v>> \o SubSeq(meant.words, p + 1, Len(meant.words)),
         ~meant'.read => element.type = "generic",
         ~StdJumps(meant.words, I), I.op \notin {"reg", "implicit_value"},
         Effect(p, <<element>>, Behind)
  PROVE  Gone
<1>1. PICK pushed, v : pushed = <<element>> /\ v = <<element.v>>
  OBVIOUS
<1>2. pushed \in Seq(Element) /\ Len(pushed) = 1 /\ pushed[1] = element
  BY <1>1
<1>3. element.v \in Words
  BY DEF Element
<1>4. v \in Seq(Words) /\ Len(v) = 1 /\ v[1] = element.v
  BY <1>1, <1>3
<1>5. Len(pushed) <= p + 1
  BY <1>2
<1>6. \A j \in 1 .. Len(v) : j = 1 /\ Len(v) + 1 - j = 1
  BY <1>4
<1>7. Does(p, pushed, v, Behind)
  BY <1>1, <1>2, <1>4, <1>5, <1>6, Going DEF Does
<1> QED  BY <1>7, Effected

\* None is.
LEMMA PushesNone ==
  ASSUME Goes, NEW p \in 0 .. Len(meant.words), NEW next,
         meant'.words = SubSeq(meant.words, p + 1, Len(meant.words)),
         meant'.next = next, I.op \notin {"reg", "implicit_value"},
         Effect(p, <<>>, next)
  PROVE  Gone
<1>1. PICK pushed, v : pushed = <<>> /\ v = <<>>
  OBVIOUS
<1>2. pushed \in Seq(Element) /\ Len(pushed) = 0 /\ v \in Seq(Words) /\ Len(v) = 0
  BY <1>1
<1>3. \A j \in 1 .. Len(v) : FALSE
  BY <1>2
<1>4. meant'.words = v \o SubSeq(meant.words, p + 1, Len(meant.words))
  <2>1. PICK s, r : s = meant.words /\ r = SubSeq(s, p + 1, Len(s))
    OBVIOUS
  <2>2. s \in Seq(Words) /\ Len(s) \in Nat
    BY <2>1, Going
  <2>3. r \in Seq(Words)
    BY <2>1, <2>2
  <2>4. v \o r = r
    BY <1>1, <2>3
  <2> QED  BY <2>1, <2>4
<1>5. meant'.named = meant.named /\ (meant.read => meant'.read)
  BY Going
<1>6. Len(pushed) <= p + 1
  BY <1>2
<1>7. Does(p, pushed, v, next)
  BY <1>1, <1>2, <1>3, <1>4, <1>5, <1>6 DEF Does
<1> QED  BY <1>7, Effected

-----------------------------------------------------------------------------
(* Operation by operation                                                  *)

\* A number taken modulo the words is a word.
LEMMA GenericIs ==
  ASSUME NEW x \in Int
  PROVE  /\ x % WordSize \in Words
         /\ Generic(x) \in Element /\ Generic(x).v = x % WordSize
         /\ Generic(x).type = "generic"
<1>1. x % WordSize \in Words
  <2>1. WordSize \in Nat \ {0}
    BY Widths
  <2>2. x % WordSize \in 0 .. WordSize - 1
    BY <2>1, Divided
  <2> QED  BY <2>2 DEF Words
<1> QED  BY <1>1 DEF Generic, Element

\* An element pushed on all that is there.
LEMMA Pushed ==
  ASSUME Goes, NEW x \in Int, Pushes(Generic(x)),
         StdStep(meant.words, I) = <<x % WordSize>> \o meant.words,
         I.op \notin {"reg", "implicit_value", "skip", "bra"}
  PROVE  Gone
<1>1. PICK s, element : s = meant.words /\ element = Generic(x)
  OBVIOUS
<1>2. s \in Seq(Words) /\ Len(s) \in Nat
  BY <1>1, Going
<1>3. element \in Element /\ element.v = x % WordSize /\ element.type = "generic"
  BY <1>1, GenericIs
<1>4. SubSeq(s, 0 + 1, Len(s)) = s
  BY <1>2, Lower
<1>5. meant'.words = <<element.v>> \o SubSeq(s, 0 + 1, Len(s))
  BY <1>1, <1>3, <1>4, Going
<1>6. ~StdJumps(meant.words, I)
  BY DEF StdJumps
<1>7. 0 \in 0 .. Len(s)
  BY <1>2
<1>8. Effect(0, <<element>>, Behind)
  BY <1>1 DEF Pushes
<1> QED  BY <1>1, <1>3, <1>5, <1>6, <1>7, <1>8, PushesOne

LEMMA ConstantGoes ==
  ASSUME Goes, Constant
  PROVE  Gone
<1>1. I.op \in Fixed /\ Pushes(Generic(I.n))
  BY DEF Constant, Is
<1>2. StdStep(meant.words, I) = <<I.n % WordSize>> \o meant.words
  BY <1>1 DEF StdStep, Fixed, Binaries, Comparisons
<1>3. I.n \in Int
  BY Going DEF IsOp, Op
<1> QED  BY <1>1, <1>2, <1>3, Pushed DEF Fixed

LEMMA ConstUGoes ==
  ASSUME Goes, ConstU
  PROVE  Gone
<1>1. I.op = "constu" /\ Pushes(Generic(ULEB128AndAdvance(I.leb[1])))
  BY DEF ConstU, Is
<1>2. StdStep(meant.words, I) = <<Unsigned(I.leb[1]) % WordSize>> \o meant.words
  BY <1>1 DEF StdStep, Fixed, Binaries, Comparisons
<1>3. FitsInt(Unsigned(I.leb[1]))
  BY <1>1 DEF Goes, Right, Binaries, Comparisons
<1>4. I.leb[1] \in Seq(Groups) /\ I.leb[1] # <<>>
  BY <1>1, Going DEF IsOp
<1>5. ULEB128AndAdvance(I.leb[1]) = Unsigned(I.leb[1])
  BY <1>3, <1>4, ReadsFitting
<1>6. Unsigned(I.leb[1]) \in Int
  BY <1>4, <1>5, ReadIsInt, WordSizeIs DEF IntWords, Words
<1> QED  BY <1>1, <1>2, <1>5, <1>6, Pushed

\* From a word on.
LEMMA OffsetsGo ==
  ASSUME Goes, I.op \in {"consts", "fbreg", "breg"},
         NEW origin \in Int, Offsets(I.leb[1], origin), Readable(I.leb[1]),
         StdStep(meant.words, I)
           = <<(origin + SignedValue(I.leb[1])) % WordSize>> \o meant.words
  PROVE  Gone
<1>1. I.leb[1] \in Seq(Groups) /\ I.leb[1] # <<>>
  BY Going DEF IsOp
<1>2. PICK z, v, M : z = SLEB128AndAdvance(I.leb[1]) /\ v = SignedValue(I.leb[1])
                     /\ M = WordSize
  OBVIOUS
<1>3. M \in Nat \ {0} /\ v \in Int /\ z = v % M
  <2>1. v \in Int
    BY <1>1, <1>2, SignedIs DEF Readable
  <2> QED  BY <1>1, <1>2, <2>1, Widths, ReadsReadable
<1>4. (origin + z) % M = (origin + v) % M /\ z \in Int
  <2>1. v = M * (v \div M) + z /\ v \div M \in Int /\ z \in Int
    <3>1. v = M * (v \div M) + (v % M) /\ v \div M \in Int /\ v % M \in 0 .. M - 1
      BY <1>3, Divided
    <3> QED  BY <1>3, <3>1
  <2>2. PICK q, x : q = v \div M /\ x = origin + z
    OBVIOUS
  <2>3. q \in Int /\ x \in Int /\ origin + v = x + M * q
    <3>1. M * q \in Int
      BY <1>3, <2>1, <2>2
    <3> QED  BY <2>1, <2>2, <3>1
  <2>4. (x + M * q) % M = x % M
    BY <1>3, <2>3, Shifts
  <2> QED  BY <2>1, <2>2, <2>3, <2>4
<1>5. Pushes(Generic(origin + z))
  BY <1>2 DEF Offsets, Readable
<1>6. StdStep(meant.words, I) = <<(origin + z) % WordSize>> \o meant.words
  BY <1>2, <1>4
<1>7. origin + z \in Int
  BY <1>4
<1> QED  BY <1>5, <1>6, <1>7, Pushed

LEMMA ConstSGoes ==
  ASSUME Goes, ConstS \/ FBReg
  PROVE  Gone
<1>1. I.op \in {"consts", "fbreg"} /\ Offsets(I.leb[1], 0)
  BY DEF ConstS, FBReg, Is, frameBase
<1>2. I.leb[1] \in Seq(Groups) /\ I.leb[1] # <<>>
  BY <1>1, Going DEF IsOp
<1>3. Readable(I.leb[1])
  BY <1>1 DEF Goes, Right, Binaries, Comparisons
<1>4. StdStep(meant.words, I) = <<SignedValue(I.leb[1]) % WordSize>> \o meant.words
  BY <1>1 DEF StdStep, Fixed, Binaries, Comparisons
<1>5. 0 + SignedValue(I.leb[1]) = SignedValue(I.leb[1])
  BY <1>2, <1>3, SignedIs DEF Readable
<1> QED  BY <1>1, <1>3, <1>4, <1>5, OffsetsGo

LEMMA BRegGoes ==
  ASSUME Goes, BReg
  PROVE  Gone
<1>1. I.op = "breg"
  BY DEF BReg, Is
<1>2. Readable(I.leb[1]) /\ I.n \in DOMAIN Registers
  BY <1>1 DEF Goes, Right, Binaries, Comparisons
<1>3. Offsets(I.leb[1], Registers[I.n])
  BY <1>2 DEF BReg
<1>4. StdStep(meant.words, I)
        = <<(Registers[I.n] + SignedValue(I.leb[1])) % WordSize>> \o meant.words
  BY <1>1 DEF StdStep, Fixed, Binaries, Comparisons
<1>5. Registers[I.n] \in Int
  <2>1. Registers[I.n] \in Words
    BY <1>2, ExpressionsAssumption DEF Range
  <2> QED  BY <2>1 DEF Words
<1> QED  BY <1>1, <1>2, <1>3, <1>4, <1>5, OffsetsGo

\* An element is taken, and one pushed.
LEMMA ReplacesTop ==
  ASSUME Goes, Len(meant.words) >= 1, NEW element \in Element,
         StdStep(meant.words, I) = <<element.v>> \o Tail(meant.words),
         ~meant'.read => element.type = "generic",
         I.op \notin {"reg", "implicit_value", "skip", "bra"},
         Effect(1, <<element>>, Behind)
  PROVE  Gone
<1>1. PICK s : s = meant.words
  OBVIOUS
<1>2. s \in Seq(Words) /\ Len(s) \in Nat /\ 1 \in 0 .. Len(s)
  BY <1>1, Going
<1>3. SubSeq(s, 1 + 1, Len(s)) = Tail(s)
  BY <1>1, <1>2, Lower
<1>4. meant'.words = <<element.v>> \o SubSeq(s, 1 + 1, Len(s))
  BY <1>1, <1>3, Going
<1>5. ~StdJumps(meant.words, I)
  BY DEF StdJumps
<1> QED  BY <1>1, <1>2, <1>4, <1>5, PushesOne

\* The location or the value is given.
LEMMA NamedGoes ==
  ASSUME Goes, Reg \/ ImplicitValue
  PROVE  Gone
<1>1. /\ I.op \in {"reg", "implicit_value"}
      /\ ret' = [type |-> IF I.op = "reg" THEN "loc_reg" ELSE "implicit", v |-> I.n]
      /\ scan' = Behind /\ UNCHANGED <<stack, size, status>>
  BY DEF Reg, ImplicitValue, Is
<1>2. StdStep(meant.words, I) = meant.words
  BY <1>1 DEF StdStep, Fixed, Binaries, Comparisons
<1>3. meant'.words = meant.words /\ meant'.next = Behind /\ meant'.named = {I.n}
      /\ (meant.read => meant'.read)
  BY <1>1, <1>2, Going DEF StdJumps
<1>4. ret' # Unset /\ ret'.v = I.n
  BY <1>1 DEF Unset
<1>5. Follows /\ base' = base /\ status = "running" /\ meant.words \in Seq(Words)
  BY Going DEF Goes, IInv, StackInv
<1>6. \A k \in DOMAIN meant'.words :
        /\ stack'[size' - k] \in Element
        /\ stack'[size' - k].v = meant'.words[k]
        /\ ~meant'.read => stack'[size' - k].type = "generic"
  BY <1>1, <1>3, <1>5 DEF Follows
<1>7. Follows'
  BY <1>1, <1>3, <1>4, <1>5, <1>6 DEF Follows, Unset, Element
<1> QED  BY <1>1, <1>3, <1>5, <1>7 DEF Gone

LEMMA DerefGoes ==
  ASSUME Goes, Deref
  PROVE  Gone
<1>1. I.op = "deref"
  BY DEF Deref, Is
<1>2. Len(meant.words) \in Nat /\ Len(meant.words) >= 1 /\ size # 0
  BY <1>1, Going DEF Operands, Binaries, Comparisons
<1>3. Top(0).v = meant.words[1]
  <2>1. 1 \in 1 .. Len(meant.words) /\ 1 - 1 = 0
    BY <1>2
  <2> QED  BY <2>1, Tops
<1>4. meant.words[1] \in DOMAIN Memory
  BY <1>1 DEF Goes, Right, Binaries, Comparisons
<1>5. PICK element : element = [type |-> "integral", v |-> Memory[meant.words[1]]]
  OBVIOUS
<1>6. Memory[meant.words[1]] \in Words
  BY <1>4, ExpressionsAssumption DEF Range
<1>7. element \in Element
  BY <1>5, <1>6 DEF Element
<1>8. Effect(1, <<element>>, Behind)
  BY <1>2, <1>3, <1>4, <1>5 DEF Deref, ReadWord
<1>9. StdStep(meant.words, I) = <<element.v>> \o Tail(meant.words)
  BY <1>1, <1>5 DEF StdStep, Fixed, Binaries, Comparisons
<1>10. meant'.read
  BY <1>1, Going
<1> QED  BY <1>1, <1>2, <1>7, <1>8, <1>9, <1>10, ReplacesTop

\* Reading some of the bytes of a word.
LEMMA BytesRead ==
  ASSUME NEW address \in DOMAIN Memory, NEW n \in Nat, n <= WordBytes,
         n < WordBytes => address < Power2[ByteBits * n]
  PROVE  /\ Memory[address] % Power2[ByteBits * n] \in Words
         /\ ReadBytes(address, n) = Memory[address] % Power2[ByteBits * n]
<1>1. ByteBits \in Nat /\ WordBytes \in Int /\ ByteBits * WordBytes = WordBits
  BY ExpressionsAssumption, EncodingsAssumption DEF WordBytes
<1>2. PICK e, low, word : e = ByteBits * n /\ low = Power2[e] /\ word = Memory[address]
  OBVIOUS
<1>3. e \in 0 .. WordBits
  <2>1. PICK b, w : b = ByteBits /\ w = WordBytes
    OBVIOUS
  <2>2. b \in Nat /\ w \in Int /\ n \in Nat /\ n <= w
    BY <1>1, <2>1
  <2>3. b * n <= b * w /\ b * n \in Nat
    BY ONLY <2>2
  <2> QED  BY <1>1, <1>2, <2>1, <2>3
<1>4. low \in Nat \ {0} /\ low <= WordSize
  <2>1. WordBits \in 0 .. WordBits /\ e <= WordBits
    BY <1>3, EncodingsAssumption
  <2> QED  BY <1>2, <1>3, <2>1, Power2Follows, Power2Grows DEF WordSize
<1>5. address \in Words /\ word \in Words /\ WordSize \in Nat
  BY <1>2, ExpressionsAssumption, Widths DEF Range
<1>6. word % low \in 0 .. low - 1
  BY <1>4, <1>5, Divided DEF Words
<1>7. address \in 0 .. low - 1
  <2>1. CASE n < WordBytes
    BY <1>2, <1>4, <1>5, <2>1 DEF Words
  <2>2. CASE n = WordBytes
    BY <1>1, <1>2, <1>5, <2>2 DEF Words, WordSize
  <2> QED  BY <1>1, <2>1, <2>2
<1>8. address % low = address
  <2>1. low * 0 = 0 /\ 0 \in Int
    BY <1>4
  <2>2. address = low * 0 + address
    BY <1>7, <2>1
  <2> QED  BY <1>4, <1>7, <2>1, <2>2, Quotient
<1>9. ReadBytes(address, n) = (word % low) + address - address
  BY <1>2, <1>8 DEF ReadBytes, ReadWord
<1>10. (word % low) + address - address = word % low
  BY <1>6, <1>7
<1>11. word % low \in Words
  BY <1>4, <1>5, <1>6 DEF Words
<1> QED  BY <1>2, <1>9, <1>10, <1>11

LEMMA DerefSizeGoes ==
  ASSUME Goes, DerefSize
  PROVE  Gone
<1>1. I.op = "deref_size"
  BY DEF DerefSize, Is
<1>2. Len(meant.words) \in Nat /\ Len(meant.words) >= 1 /\ size # 0 /\ I.n \in Nat
  BY <1>1, Going DEF Operands, Binaries, Comparisons, IsOp
<1>3. Top(0).v = meant.words[1]
  <2>1. 1 \in 1 .. Len(meant.words) /\ 1 - 1 = 0
    BY <1>2
  <2> QED  BY <2>1, Tops
<1>4. /\ meant.words[1] \in DOMAIN Memory /\ I.n <= WordBytes
      /\ I.n < WordBytes => meant.words[1] < Power2[ByteBits * I.n]
  BY <1>1 DEF Goes, Right, Binaries, Comparisons
<1>5. PICK x : x = Memory[meant.words[1]] % Power2[ByteBits * I.n]
  OBVIOUS
<1>6. x \in Words /\ ReadBytes(meant.words[1], I.n) = x
  BY <1>2, <1>4, <1>5, BytesRead
<1>7. x \in Int /\ x % WordSize = x
  <2>1. WordSize \in Nat \ {0} /\ x \in 0 .. WordSize - 1
    BY <1>6, Widths DEF Words
  <2>2. PICK M : M = WordSize
    OBVIOUS
  <2>3. M \in Nat \ {0} /\ x \in 0 .. M - 1
    BY <2>1, <2>2
  <2>4. x % M = x
    BY ONLY <2>3
  <2> QED  BY <2>1, <2>2, <2>4
<1>8. Generic(x) \in Element /\ Generic(x).v = x /\ Generic(x).type = "generic"
  BY <1>7, GenericIs
<1>9. Effect(1, <<Generic(x)>>, Behind)
  <2>1. ~(I.n > WordBytes)
    BY <1>2, <1>4, ExpressionsAssumption, EncodingsAssumption DEF WordBytes
  <2> QED  BY <1>2, <1>3, <1>6, <2>1 DEF DerefSize
<1>10. StdStep(meant.words, I) = <<Generic(x).v>> \o Tail(meant.words)
  BY <1>1, <1>5, <1>8 DEF StdStep, Fixed, Binaries, Comparisons
<1> QED  BY <1>1, <1>2, <1>8, <1>9, <1>10, ReplacesTop

LEMMA DropGoes ==
  ASSUME Goes, Drop
  PROVE  Gone
<1>1. I.op = "drop"
  BY DEF Drop, Is
<1>2. Len(meant.words) \in Nat /\ Len(meant.words) >= 1 /\ size # 0
      /\ meant.words \in Seq(Words)
  BY <1>1, Going DEF Operands, Binaries, Comparisons
<1>3. Effect(1, <<>>, Behind)
  BY <1>2 DEF Drop
<1>4. StdStep(meant.words, I) = Tail(meant.words)
  BY <1>1 DEF StdStep, Fixed, Binaries, Comparisons
<1>5. SubSeq(meant.words, 1 + 1, Len(meant.words)) = Tail(meant.words)
  BY <1>2, Lower
<1>6. meant'.words = SubSeq(meant.words, 1 + 1, Len(meant.words)) /\ meant'.next = Behind
  BY <1>1, <1>4, <1>5, Going DEF StdJumps
<1>7. 1 \in 0 .. Len(meant.words)
  BY <1>2
<1> QED  BY <1>1, <1>3, <1>6, <1>7, PushesNone

\* A jump.
LEMMA SkipGoes ==
  ASSUME Goes, Skip
  PROVE  Gone
<1>1. I.op = "skip" /\ Effect(0, <<>>, Behind + I.n)
  BY DEF Skip, Is
<1>2. Len(meant.words) \in Nat /\ meant.words \in Seq(Words) /\ 0 \in 0 .. Len(meant.words)
  BY Going
<1>3. StdStep(meant.words, I) = meant.words
  BY <1>1 DEF StdStep, Fixed, Binaries, Comparisons
<1>4. SubSeq(meant.words, 0 + 1, Len(meant.words)) = meant.words
  BY <1>2, Lower
<1>5. meant'.words = SubSeq(meant.words, 0 + 1, Len(meant.words))
      /\ meant'.next = Behind + I.n
  BY <1>1, <1>3, <1>4, Going DEF StdJumps
<1> QED  BY <1>1, <1>2, <1>5, PushesNone

LEMMA BraGoes ==
  ASSUME Goes, Bra
  PROVE  Gone
<1>1. I.op = "bra"
  BY DEF Bra, Is
<1>2. Len(meant.words) \in Nat /\ Len(meant.words) >= 1 /\ size # 0
      /\ meant.words \in Seq(Words)
  BY <1>1, Going DEF Operands, Binaries, Comparisons
<1>3. Top(0).v = meant.words[1]
  <2>1. 1 \in 1 .. Len(meant.words) /\ 1 - 1 = 0
    BY <1>2
  <2> QED  BY <2>1, Tops
<1>4. PICK next : next = IF meant.words[1] # 0 THEN Behind + I.n ELSE Behind
  OBVIOUS
<1>5. Effect(1, <<>>, next)
  BY <1>2, <1>3, <1>4 DEF Bra
<1>6. StdStep(meant.words, I) = Tail(meant.words)
  BY <1>1 DEF StdStep, Fixed, Binaries, Comparisons
<1>7. SubSeq(meant.words, 1 + 1, Len(meant.words)) = Tail(meant.words)
  BY <1>2, Lower
<1>8. meant'.words = SubSeq(meant.words, 1 + 1, Len(meant.words)) /\ meant'.next = next
  BY <1>1, <1>4, <1>6, <1>7, Going DEF StdJumps
<1>9. 1 \in 0 .. Len(meant.words)
  BY <1>2
<1> QED  BY <1>1, <1>5, <1>8, <1>9, PushesNone

\* Several elements are taken, and the same ones pushed in another order.
LEMMA SwapGoes ==
  ASSUME Goes, Swap
  PROVE  Gone
<1>1. I.op = "swap" /\ Effect(2, <<Top(0), Top(1)>>, Behind)
  BY DEF Swap, Is
<1>2. PICK s : s = meant.words
  OBVIOUS
<1>3. Len(s) \in Nat /\ Len(s) >= 2 /\ s \in Seq(Words)
  BY <1>1, <1>2, Going DEF Operands, Binaries, Comparisons
<1>4. /\ Top(0) \in Element /\ Top(0).v = s[1] /\ s[1] \in Words
      /\ ~meant.read => Top(0).type = "generic"
  <2>1. 1 \in 1 .. Len(s) /\ 1 - 1 = 0
    BY <1>3
  <2> QED  BY <1>2, <2>1, Tops
<1>5. /\ Top(1) \in Element /\ Top(1).v = s[2] /\ s[2] \in Words
      /\ ~meant.read => Top(1).type = "generic"
  <2>1. 2 \in 1 .. Len(s) /\ 2 - 1 = 1
    BY <1>3
  <2> QED  BY <1>2, <2>1, Tops
<1>6. PICK a, b, pushed, v : /\ a = Top(0) /\ b = Top(1)
                             /\ pushed = <<a, b>> /\ v = <<s[2], s[1]>>
  OBVIOUS
<1>7. pushed \in Seq(Element) /\ Len(pushed) = 2 /\ pushed[1] = a /\ pushed[2] = b
  BY <1>4, <1>5, <1>6
<1>8. v \in Seq(Words) /\ Len(v) = 2 /\ v[1] = s[2] /\ v[2] = s[1]
  BY <1>4, <1>5, <1>6
<1>9. ASSUME NEW j \in 1 .. Len(v)
      PROVE  /\ v[j] = pushed[Len(v) + 1 - j].v
             /\ ~meant.read => pushed[Len(v) + 1 - j].type = "generic"
  <2>1. \/ j = 1 /\ Len(v) + 1 - j = 2
        \/ j = 2 /\ Len(v) + 1 - j = 1
    BY <1>8
  <2> QED  BY <1>4, <1>5, <1>6, <1>7, <1>8, <2>1
<1>10. meant'.words = v \o SubSeq(s, 2 + 1, Len(s))
  <2>1. StdStep(s, I) = <<s[2], s[1]>> \o SubSeq(s, 3, Len(s))
    BY <1>1 DEF StdStep, Fixed, Binaries, Comparisons
  <2>2. 2 + 1 = 3
    OBVIOUS
  <2> QED  BY <1>2, <1>6, <2>1, <2>2, Going
<1>11. meant'.next = Behind /\ meant'.named = meant.named /\ meant'.read = meant.read
  <2>1. meant'.read = (meant.read \/ I.op = "deref") /\ meant.read \in BOOLEAN
    BY Going DEF Goes, IInv, TypeInv
  <2> QED  BY <1>1, <2>1, Going DEF StdJumps
<1>12. 2 \in 0 .. Len(s) /\ Len(pushed) <= 2 + 1
  BY <1>3, <1>7
<1>13. Does(2, pushed, v, Behind)
  BY <1>1, <1>2, <1>6, <1>7, <1>8, <1>9, <1>10, <1>11, <1>12 DEF Does
<1> QED  BY <1>13, Effected

LEMMA RotGoes ==
  ASSUME Goes, Rot
  PROVE  Gone
<1>1. I.op = "rot" /\ Effect(3, <<Top(0), Top(2), Top(1)>>, Behind)
  BY DEF Rot, Is
<1>2. PICK s : s = meant.words
  OBVIOUS
<1>3. Len(s) \in Nat /\ Len(s) >= 3 /\ s \in Seq(Words)
  BY <1>1, <1>2, Going DEF Operands, Binaries, Comparisons
<1>4. /\ Top(0) \in Element /\ Top(0).v = s[1] /\ s[1] \in Words
      /\ ~meant.read => Top(0).type = "generic"
  <2>1. 1 \in 1 .. Len(s) /\ 1 - 1 = 0
    BY <1>3
  <2> QED  BY <1>2, <2>1, Tops
<1>5. /\ Top(1) \in Element /\ Top(1).v = s[2] /\ s[2] \in Words
      /\ ~meant.read => Top(1).type = "generic"
  <2>1. 2 \in 1 .. Len(s) /\ 2 - 1 = 1
    BY <1>3
  <2> QED  BY <1>2, <2>1, Tops
<1>6. /\ Top(2) \in Element /\ Top(2).v = s[3] /\ s[3] \in Words
      /\ ~meant.read => Top(2).type = "generic"
  <2>1. 3 \in 1 .. Len(s) /\ 3 - 1 = 2
    BY <1>3
  <2> QED  BY <1>2, <2>1, Tops
<1>7. PICK a, b, c, pushed, v : /\ a = Top(0) /\ b = Top(1) /\ c = Top(2)
                                /\ pushed = <<a, c, b>> /\ v = <<s[2], s[3], s[1]>>
  OBVIOUS
<1>8. /\ pushed \in Seq(Element) /\ Len(pushed) = 3
      /\ pushed[1] = a /\ pushed[2] = c /\ pushed[3] = b
  BY <1>4, <1>5, <1>6, <1>7
<1>9. v \in Seq(Words) /\ Len(v) = 3 /\ v[1] = s[2] /\ v[2] = s[3] /\ v[3] = s[1]
  BY <1>4, <1>5, <1>6, <1>7
<1>10. ASSUME NEW j \in 1 .. Len(v)
       PROVE  /\ v[j] = pushed[Len(v) + 1 - j].v
              /\ ~meant.read => pushed[Len(v) + 1 - j].type = "generic"
  <2>1. \/ j = 1 /\ Len(v) + 1 - j = 3
        \/ j = 2 /\ Len(v) + 1 - j = 2
        \/ j = 3 /\ Len(v) + 1 - j = 1
    BY <1>9
  <2> QED  BY <1>4, <1>5, <1>6, <1>7, <1>8, <1>9, <2>1
<1>11. meant'.words = v \o SubSeq(s, 3 + 1, Len(s))
  <2>1. StdStep(s, I) = <<s[2], s[3], s[1]>> \o SubSeq(s, 4, Len(s))
    BY <1>1 DEF StdStep, Fixed, Binaries, Comparisons
  <2>2. 3 + 1 = 4
    OBVIOUS
  <2> QED  BY <1>2, <1>7, <2>1, <2>2, Going
<1>12. meant'.next = Behind /\ meant'.named = meant.named /\ meant'.read = meant.read
  <2>1. meant'.read = (meant.read \/ I.op = "deref") /\ meant.read \in BOOLEAN
    BY Going DEF Goes, IInv, TypeInv
  <2> QED  BY <1>1, <2>1, Going DEF StdJumps
<1>13. 3 \in 0 .. Len(s) /\ Len(pushed) <= 3 + 1
  BY <1>3, <1>8
<1>14. Does(3, pushed, v, Behind)
  BY <1>1, <1>2, <1>7, <1>8, <1>9, <1>10, <1>11, <1>12, <1>13 DEF Does
<1> QED  BY <1>14, Effected

\* A word, read as signed.
LEMMA SignedWord ==
  ASSUME NEW x \in Words
  PROVE  /\ Signed(x, WordBits) \in Int
         /\ IF Signed(x, WordBits) < 0 THEN Signed(x, WordBits) = x - WordSize
            ELSE Signed(x, WordBits) = x
         /\ Magnitude(Signed(x, WordBits)) \in Words
<1>1. PICK H, W : H = Power2[WordBits - 1] /\ W = WordSize
  OBVIOUS
<1>2. H \in Nat \ {0} /\ W = 2 * H
  BY <1>1, WordSizeIs
<1>3. x \in Nat /\ x <= W - 1
  BY <1>1, <1>2 DEF Words
<1>4. Signed(x, WordBits) = IF x >= H THEN x - W ELSE x
  BY <1>1 DEF Signed, WordSize
<1>5. CASE x >= H
  BY <1>1, <1>2, <1>3, <1>4, <1>5 DEF Magnitude, Words
<1>6. CASE x < H
  BY <1>1, <1>2, <1>3, <1>4, <1>6 DEF Magnitude, Words
<1> QED  BY <1>2, <1>3, <1>5, <1>6

\* What one operand becomes.
LEMMA UnaryIs ==
  ASSUME NEW x \in Words
  PROVE  /\ Unary("abs", x) % WordSize = Magnitude(Signed(x, WordBits))
         /\ Unary("neg", x) % WordSize = (WordSize - x) % WordSize
         /\ Unary("not", x) % WordSize = WordSize - 1 - x
         /\ \A op \in {"abs", "neg", "not"} : Unary(op, x) \in Int
<1>1. PICK W, m : W = WordSize /\ m = Magnitude(Signed(x, WordBits))
  OBVIOUS
<1>2. W \in Nat \ {0} /\ x \in 0 .. W - 1 /\ m \in 0 .. W - 1
  BY <1>1, SignedWord, Widths DEF Words
<1>3. Unary("abs", x) = m /\ Unary("neg", x) = -x /\ Unary("not", x) = -x - 1
  BY <1>1 DEF Unary
<1>4. m % W = m
  BY ONLY <1>2
<1>5. (-x) % W = (W - x) % W
  <2>1. PICK y : y = -x
    OBVIOUS
  <2>2. y \in Int /\ 1 \in Int /\ W - x = y + W * 1
    BY <1>2, <2>1
  <2>3. (y + W * 1) % W = y % W
    BY <1>2, <2>2, Shifts
  <2> QED  BY <2>1, <2>2, <2>3
<1>6. (-x - 1) % W = W - 1 - x
  <2>1. PICK y : y = -x - 1
    OBVIOUS
  <2>2. y \in Int /\ -W <= y /\ y < 0
    BY <1>2, <2>1
  <2>3. y % W = y + W
    BY <1>2, <2>2, NegativeWord
  <2> QED  BY <1>2, <2>1, <2>2, <2>3
<1>7. \A op \in {"abs", "neg", "not"} : Unary(op, x) \in Int
  BY <1>2, <1>3
<1> QED  BY <1>1, <1>3, <1>4, <1>5, <1>6, <1>7

LEMMA Arithmetic1Goes ==
  ASSUME Goes, Arithmetic1
  PROVE  Gone
<1>1. /\ I.op \in {"abs", "neg", "not"}
      /\ Effect(1, <<[Top(0) EXCEPT !.v = Unary(I.op, @) % WordSize]>>, Behind)
  BY DEF Arithmetic1, Is
<1>2. Len(meant.words) \in Nat /\ Len(meant.words) >= 1
  BY <1>1, Going DEF Operands, Binaries, Comparisons
<1>3. PICK x, a : x = meant.words[1] /\ a = Top(0)
  OBVIOUS
<1>4. a \in Element /\ a.v = x /\ x \in Words /\ (~meant.read => a.type = "generic")
  <2>1. 1 \in 1 .. Len(meant.words) /\ 1 - 1 = 0
    BY <1>2
  <2> QED  BY <1>3, <2>1, Tops
<1>5. PICK z, element : z = Unary(I.op, x) % WordSize /\ element = [a EXCEPT !.v = z]
  OBVIOUS
<1>6. z \in Words
  BY <1>1, <1>4, <1>5, UnaryIs, GenericIs
<1>7. element \in Element /\ element.v = z /\ element.type = a.type
  BY <1>4, <1>5, <1>6 DEF Element
<1>8. Effect(1, <<element>>, Behind)
  BY <1>1, <1>3, <1>4, <1>5
<1>9. StdStep(meant.words, I) = <<z>> \o Tail(meant.words)
  <2>1. CASE I.op = "abs"
    BY <1>3, <1>4, <1>5, <2>1, UnaryIs DEF StdStep, Fixed, Binaries, Comparisons
  <2>2. CASE I.op = "neg"
    BY <1>3, <1>4, <1>5, <2>2, UnaryIs DEF StdStep, Fixed, Binaries, Comparisons
  <2>3. CASE I.op = "not"
    BY <1>3, <1>4, <1>5, <2>3, UnaryIs DEF StdStep, Fixed, Binaries, Comparisons
  <2> QED  BY <1>1, <2>1, <2>2, <2>3
<1>10. ~meant'.read => ~meant.read
  BY Going
<1> QED  BY <1>1, <1>2, <1>4, <1>7, <1>8, <1>9, <1>10, ReplacesTop

\* Two elements are taken, and one pushed.
LEMMA ReplacesTwo ==
  ASSUME Goes, Len(meant.words) >= 2, NEW element \in Element,
         StdStep(meant.words, I) = <<element.v>> \o SubSeq(meant.words, 3, Len(meant.words)),
         ~meant'.read => element.type = "generic",
         I.op \notin {"reg", "implicit_value", "skip", "bra"},
         Effect(2, <<element>>, Behind)
  PROVE  Gone
<1>1. PICK s : s = meant.words
  OBVIOUS
<1>2. s \in Seq(Words) /\ Len(s) \in Nat /\ 2 \in 0 .. Len(s) /\ 2 + 1 = 3
  BY <1>1, Going
<1>3. meant'.words = <<element.v>> \o SubSeq(s, 2 + 1, Len(s))
  BY <1>1, <1>2, Going
<1>4. ~StdJumps(meant.words, I)
  BY DEF StdJumps
<1> QED  BY <1>1, <1>2, <1>3, <1>4, PushesOne

\* Both operands, and what they hold.
LEMMA TwoTops ==
  ASSUME Goes, I.op \in Binaries \cup Comparisons
  PROVE  /\ Len(meant.words) \in Nat /\ Len(meant.words) >= 2 /\ size >= 2
         /\ Top(0) \in Element /\ Top(0).v = meant.words[1] /\ meant.words[1] \in Words
         /\ Top(1) \in Element /\ Top(1).v = meant.words[2] /\ meant.words[2] \in Words
         /\ ~meant.read => Top(0).type = "generic" /\ Top(1).type = "generic"
<1>1. Len(meant.words) \in Nat /\ Len(meant.words) >= 2 /\ size >= 2
  BY Going DEF Operands, Binaries, Comparisons
<1>2. /\ 1 \in 1 .. Len(meant.words) /\ 1 - 1 = 0
      /\ 2 \in 1 .. Len(meant.words) /\ 2 - 1 = 1
  BY <1>1
<1>3. /\ Top(0) \in Element /\ Top(0).v = meant.words[1] /\ meant.words[1] \in Words
      /\ ~meant.read => Top(0).type = "generic"
  BY <1>2, Tops
<1>4. /\ Top(1) \in Element /\ Top(1).v = meant.words[2] /\ meant.words[2] \in Words
      /\ ~meant.read => Top(1).type = "generic"
  BY <1>2, Tops
<1> QED  BY <1>1, <1>3, <1>4

\* What is left of a word shifted left are its low bits, and so is what is left of
\* the product.
LEMMA ShiftsLeft ==
  ASSUME NEW x \in Words, NEW y \in 0 .. WordBits - 1
  PROVE  ((x % Power2[WordBits - y]) * Power2[y]) % WordSize = (x * Power2[y]) % WordSize
<1>1. PICK M, P, W : M = Power2[WordBits - y] /\ P = Power2[y] /\ W = WordSize
  OBVIOUS
<1>2. M \in Nat \ {0} /\ P \in Nat \ {0} /\ W \in Nat \ {0} /\ W = M * P /\ x \in Nat
  <2>1. /\ WordBits \in Nat /\ WordBits - y \in 0 .. WordBits /\ y \in 0 .. WordBits
        /\ WordBits - y + y = WordBits /\ WordBits \in 0 .. WordBits
    <3>1. WordBits \in Nat
      BY EncodingsAssumption
    <3> QED  BY ONLY <3>1, y \in 0 .. WordBits - 1
  <2>2. Power2[(WordBits - y) + y] = Power2[WordBits - y] * Power2[y]
    BY <2>1, Power2Sum
  <2>3. M \in Nat \ {0} /\ P \in Nat \ {0}
    BY <1>1, <2>1, Power2Follows
  <2> QED  BY <1>1, <2>1, <2>2, <2>3, Widths DEF Words, WordSize
<1>3. PICK q, r : q = x \div M /\ r = x % M
  OBVIOUS
<1>4. x = M * q + r /\ q \in Int /\ r \in Nat
  <2>1. x = M * (x \div M) + (x % M) /\ x \div M \in Int /\ x % M \in 0 .. M - 1
    BY <1>2, Divided
  <2> QED  BY <1>2, <1>3, <2>1
<1>5. PICK z : z = r * P
  OBVIOUS
<1>6. x * P = z + W * q /\ z \in Int
  <2>1. (M * q + r) * P = r * P + (M * P) * q
    BY ONLY <1>2, <1>4
  <2> QED  BY <1>2, <1>4, <1>5, <2>1
<1>7. (z + W * q) % W = z % W
  BY <1>2, <1>4, <1>6, Shifts
<1> QED  BY <1>1, <1>3, <1>5, <1>6, <1>7

\* The machine does with two words what the standard does.
LEMMA BinaryIs ==
  ASSUME NEW op \in Binaries, NEW x \in Words, NEW y \in Words,
         op \in {"shl", "shr"} => y < WordBits, op = "mod" => y # 0
  PROVE  /\ Binary(op, x, y) % WordSize = StdBinary(op, x, y) % WordSize
         /\ Binary(op, x, y) % WordSize \in Words
<1>1. /\ x \in Nat /\ y \in Nat
      /\ And(x, y) \in Nat /\ Or(x, y) \in Nat /\ Xor(x, y) \in Nat
  BY WordOfIsWord DEF And, Or, Xor, Words
<1>2. CASE op \in {"and", "mul", "or", "plus", "xor"}
  <2>1. Binary(op, x, y) = StdBinary(op, x, y)
    BY <1>2 DEF Binary, StdBinary
  <2>2. Binary(op, x, y) \in Int
    BY <1>1, <1>2 DEF Binary
  <2> QED  BY <2>1, <2>2, GenericIs
<1>3. CASE op = "mod"
  <2>1. Binary(op, x, y) = x % y /\ StdBinary(op, x, y) = x % y
    BY <1>3 DEF Binary, StdBinary
  <2>2. x % y \in Int
    BY <1>1, <1>3, Divided
  <2> QED  BY <2>1, <2>2, GenericIs
<1>4. CASE op \in {"shl", "shr"}
  <2>1. y \in 0 .. WordBits - 1 /\ WordBits \in Nat
    BY <1>1, <1>4, EncodingsAssumption
  <2>2. y % WordBits = y
    <3>1. PICK n : n = WordBits
      OBVIOUS
    <3>2. n \in Nat /\ y \in 0 .. n - 1
      BY <2>1, <3>1
    <3>3. y % n = y
      BY ONLY <3>2
    <3> QED  BY <3>1, <3>3
  <2>3. /\ Power2[y] \in Nat \ {0} /\ Power2[WordBits - y] \in Nat \ {0}
    <3>1. y \in 0 .. WordBits /\ WordBits - y \in 0 .. WordBits
      BY ONLY <2>1
    <3> QED  BY <3>1, Power2Follows
  <2>4. CASE op = "shl"
    <3>1. /\ Binary(op, x, y) = (x % Power2[WordBits - y]) * Power2[y]
          /\ StdBinary(op, x, y) = x * Power2[y]
      BY <2>2, <2>4 DEF Binary, StdBinary
    <3>2. x % Power2[WordBits - y] \in Int
      <4>1. PICK M : M = Power2[WordBits - y]
        OBVIOUS
      <4>2. M \in Nat \ {0} /\ x \in Int
        BY <1>1, <2>3, <4>1
      <4>3. x % M \in Int
        BY ONLY <4>2
      <4> QED  BY <4>1, <4>3
    <3>3. Binary(op, x, y) \in Int
      BY <2>3, <3>1, <3>2
    <3>4. Binary(op, x, y) % WordSize = StdBinary(op, x, y) % WordSize
      BY <2>1, <3>1, ShiftsLeft
    <3> QED  BY <3>3, <3>4, GenericIs
  <2>5. CASE op = "shr"
    <3>1. Binary(op, x, y) = x \div Power2[y] /\ StdBinary(op, x, y) = x \div Power2[y]
      BY <2>2, <2>5 DEF Binary, StdBinary
    <3>2. x \div Power2[y] \in Int
      <4>1. PICK M : M = Power2[y]
        OBVIOUS
      <4>2. M \in Nat \ {0} /\ x \in Int
        BY <1>1, <2>3, <4>1
      <4>3. x \div M \in Int
        BY ONLY <4>2
      <4> QED  BY <4>1, <4>3
    <3> QED  BY <3>1, <3>2, GenericIs
  <2> QED  BY <1>4, <2>4, <2>5
<1> QED  BY <1>2, <1>3, <1>4 DEF Binaries

LEMMA Arithmetic2Goes ==
  ASSUME Goes, Arithmetic2
  PROVE  Gone
<1>1. I.op \in Binaries
  <2>1. I.op \in {"and", "div", "minus", "mod", "mul", "or", "plus", "xor", "shl", "shr", "shra"}
    BY DEF Arithmetic2, Is
  <2>2. I.op \notin {"div", "minus", "shra"}
    BY DEF Goes, Right, Binaries, Comparisons, Fixed
  <2> QED  BY <2>1, <2>2 DEF Binaries
<1>2. PICK x, y, a : x = meant.words[2] /\ y = meant.words[1] /\ a = Top(0)
  OBVIOUS
<1>3. /\ Len(meant.words) >= 2 /\ size >= 2 /\ size \in Nat
      /\ a \in Element /\ a.v = y /\ y \in Words /\ Top(1).v = x /\ x \in Words
      /\ ~meant.read => a.type = "generic"
  BY <1>1, <1>2, TwoTops, Going
<1>4. (I.op \in {"shl", "shr"} => y < WordBits) /\ (I.op = "mod" => y # 0)
  BY <1>1, <1>2 DEF Goes, Right, Binaries, Comparisons
<1>5. PICK z, element : z = Binary(I.op, x, y) % WordSize /\ element = [a EXCEPT !.v = z]
  OBVIOUS
<1>6. z = StdBinary(I.op, x, y) % WordSize /\ z \in Words
  BY <1>1, <1>3, <1>4, <1>5, BinaryIs
<1>7. element \in Element /\ element.v = z /\ element.type = a.type
  BY <1>3, <1>5, <1>6 DEF Element
<1>8. Effect(2, <<element>>, Behind)
  <2>1. ~DividesByZero(I.op, Top(0).v)
    BY <1>1, <1>2, <1>3, <1>4 DEF DividesByZero, Binaries
  <2> QED  BY <1>2, <1>3, <1>5, <2>1 DEF Arithmetic2
<1>9. StdStep(meant.words, I) = <<z>> \o SubSeq(meant.words, 3, Len(meant.words))
  BY <1>1, <1>2, <1>6 DEF StdStep, Fixed, Binaries, Comparisons
<1>10. ~meant'.read => ~meant.read
  BY Going
<1>11. I.op \notin {"reg", "implicit_value", "skip", "bra"}
  BY <1>1 DEF Binaries
<1> QED  BY <1>3, <1>7, <1>8, <1>9, <1>10, <1>11, ReplacesTwo

\* Words of the same sign compare as signed as they do as unsigned.
LEMMA HoldsAlike ==
  ASSUME NEW op \in Comparisons, NEW x \in Words, NEW y \in Words,
         Signed(y, WordBits) < 0 <=> Signed(x, WordBits) < 0
  PROVE  Holds(op, Signed(x, WordBits), Signed(y, WordBits)) <=> Holds(op, x, y)
<1>1. PICK W, u, v : W = WordSize /\ u = Signed(x, WordBits) /\ v = Signed(y, WordBits)
  OBVIOUS
<1>2. /\ W \in Nat /\ x \in Nat /\ y \in Nat /\ u \in Int /\ v \in Int
      /\ IF u < 0 THEN u = x - W ELSE u = x
      /\ IF v < 0 THEN v = y - W ELSE v = y
      /\ v < 0 <=> u < 0
  BY <1>1, SignedWord, Widths DEF Words
<1>3. (u = v <=> x = y) /\ (u >= v <=> x >= y) /\ (u > v <=> x > y)
      /\ (u <= v <=> x <= y) /\ (u < v <=> x < y)
  BY ONLY <1>2
<1> QED  BY <1>1, <1>3 DEF Holds, Comparisons

LEMMA CompareGoes ==
  ASSUME Goes, Compare
  PROVE  Gone
<1>1. I.op \in Comparisons
  BY DEF Compare, Is, Comparisons
<1>2. PICK x, y : x = meant.words[2] /\ y = meant.words[1]
  OBVIOUS
<1>3. /\ Len(meant.words) >= 2 /\ size >= 2 /\ size \in Nat
      /\ Top(0).v = y /\ y \in Words /\ Top(1).v = x /\ x \in Words
      /\ ~meant.read => Top(0).type = "generic" /\ Top(1).type = "generic"
  BY <1>1, <1>2, TwoTops, Going
<1>4. /\ Signed(y, WordBits) < 0 <=> Signed(x, WordBits) < 0
      /\ ~meant.read
  BY <1>1, <1>2 DEF Goes, Right, Binaries, Comparisons
<1>5. PICK z : z = Truth(Holds(I.op, x, y))
  OBVIOUS
<1>6. z \in Int /\ z = Truth(Holds(I.op, Signed(x, WordBits), Signed(y, WordBits)))
  <2>1. Holds(I.op, Signed(x, WordBits), Signed(y, WordBits)) <=> Holds(I.op, x, y)
    BY <1>1, <1>3, <1>4, HoldsAlike
  <2> QED  BY <1>5, <2>1 DEF Truth
<1>7. Effect(2, <<Generic(z)>>, Behind)
  BY <1>3, <1>4, <1>5 DEF Compare
<1>8. /\ Generic(z) \in Element /\ Generic(z).v = z % WordSize
      /\ Generic(z).type = "generic"
  BY <1>6, GenericIs
<1>9. StdBinary(I.op, x, y) = z
  BY <1>1, <1>6 DEF StdBinary, Comparisons
<1>10. StdStep(meant.words, I)
         = <<z % WordSize>> \o SubSeq(meant.words, 3, Len(meant.words))
  BY <1>1, <1>2, <1>9 DEF StdStep, Fixed, Binaries, Comparisons
<1>11. I.op \notin {"reg", "implicit_value", "skip", "bra"}
  BY <1>1 DEF Comparisons
<1> QED  BY <1>3, <1>7, <1>8, <1>10, <1>11, ReplacesTwo

\* The others are not among those that do what they should.
LEMMA OthersStray ==
  ASSUME Goes,
         BRegX \/ RegX \/ Addr \/ Copy \/ PlusUConst \/ StackValue \/ Unimplemented
           \/ Ignored
  PROVE  FALSE
<1>1. I.op \in {"bregx", "regx", "addr", "dup", "over", "pick", "plus_uconst", "stack_value",
               "piece", "xderef_size", "nop", "implicit_pointer", "unknown", "xderef",
               "push_object_address", "call2", "call4", "call_ref", "form_tls_address",
               "call_frame_cfa", "bit_piece", "addrx", "constx", "entry_value", "const_type",
               "regval_type", "deref_type", "xderef_type", "convert", "reinterpret"}
  BY DEF Is, BRegX, RegX, Addr, Copy, PlusUConst, StackValue, Unimplemented, Ignored
<1> QED  BY <1>1 DEF Goes, Right, Binaries, Comparisons, Fixed

-----------------------------------------------------------------------------
(* The invariant is kept                                                   *)

LEMMA OperationIs ==
  ASSUME Operation
  PROVE  /\ status = "running" /\ scan \in Starts /\ meant' = StdAfter
         /\ UNCHANGED <<expression, base>>
BY DEF Operation, Is, Constant, ConstU, ConstS, FBReg, BReg, BRegX, Reg, RegX, Addr, Deref,
       DerefSize, Drop, Copy, Swap, Rot, Arithmetic1, Arithmetic2, PlusUConst, Compare, Skip,
       Bra, ImplicitValue, StackValue, Unimplemented, Ignored

\* Where the standard goes on, there is an operation or the end.
LEMMA NextIs ==
  ASSUME Goes
  PROVE  meant'.next \in Starts \cup {End}
<1>1. Behind \in Starts \cup {End}
  BY Reading DEF Goes, IInv, TypeInv
<1>2. ASSUME I.op \in {"skip", "bra"} PROVE Behind + I.n \in Starts \cup {End}
  BY <1>2 DEF Goes, Right, Binaries, Comparisons
<1> QED  BY <1>1, <1>2, Going DEF StdJumps

LEMMA OperationGoes ==
  ASSUME Goes, Operation
  PROVE  Gone
<1>1. CASE Constant
  BY <1>1, ConstantGoes
<1>2. CASE ConstU
  BY <1>2, ConstUGoes
<1>3. CASE ConstS \/ FBReg
  BY <1>3, ConstSGoes
<1>4. CASE BReg
  BY <1>4, BRegGoes
<1>5. CASE Reg \/ ImplicitValue
  BY <1>5, NamedGoes
<1>6. CASE Deref
  BY <1>6, DerefGoes
<1>7. CASE DerefSize
  BY <1>7, DerefSizeGoes
<1>8. CASE Drop
  BY <1>8, DropGoes
<1>9. CASE Swap
  BY <1>9, SwapGoes
<1>10. CASE Rot
  BY <1>10, RotGoes
<1>11. CASE Arithmetic1
  BY <1>11, Arithmetic1Goes
<1>12. CASE Arithmetic2
  BY <1>12, Arithmetic2Goes
<1>13. CASE Compare
  BY <1>13, CompareGoes
<1>14. CASE Skip
  BY <1>14, SkipGoes
<1>15. CASE Bra
  BY <1>15, BraGoes
<1>16. CASE BRegX \/ RegX \/ Addr \/ Copy \/ PlusUConst \/ StackValue \/ Unimplemented
              \/ Ignored
  BY <1>16, OthersStray
<1> QED  BY <1>1, <1>2, <1>3, <1>4, <1>5, <1>6, <1>7, <1>8, <1>9, <1>10, <1>11, <1>12, <1>13,
            <1>14, <1>15, <1>16 DEF Operation

\* An operation that does not do what it should is the last that counts.
LEMMA OperationKeeps ==
  ASSUME IInv, Operation
  PROVE  IInv'
<1>1. /\ status = "running" /\ scan \in Starts /\ meant' = StdAfter
      /\ expression' = expression /\ base' = base
  BY OperationIs
<1>2. Starts' = Starts /\ End' = End
  BY <1>1, SamePlaces
<1>3. FirstInv'
  BY <1>1 DEF IInv, FirstInv
<1>4. CASE meant.right /\ Right(meant.words, I)
  <2>1. Goes
    BY <1>1, <1>4 DEF Goes
  <2>2. status' = "running" /\ Follows' /\ meant'.words \in Seq(Words)
    BY <2>1, OperationGoes DEF Gone
  <2>3. meant' \in [right : BOOLEAN, words : Seq(Words), next : Starts \cup {End},
                    named : SUBSET Int, read : BOOLEAN]
    <3>1. meant' = [right |-> TRUE,
                    words |-> StdStep(meant.words, I),
                    next  |-> IF StdJumps(meant.words, I) THEN Behind + I.n ELSE Behind,
                    named |-> IF I.op \in {"reg", "implicit_value"} THEN {I.n}
                              ELSE meant.named,
                    read  |-> meant.read \/ I.op = "deref"]
      BY <1>1, <1>4 DEF StdAfter
    <3>2. meant'.next \in Starts \cup {End}
      BY <2>1, NextIs
    <3>3. meant'.named \in SUBSET Int
      BY <2>1, Going DEF IsOp, Op, IInv, TypeInv
    <3>4. (meant.read \/ I.op = "deref") \in BOOLEAN
      OBVIOUS
    <3> QED  BY <2>2, <3>1, <3>2, <3>3, <3>4
  <2>4. TypeInv'
    BY <1>1, <1>2, <2>3 DEF IInv, TypeInv
  <2>5. StackInv'
    BY <2>2 DEF StackInv
  <2> QED  BY <1>3, <2>4, <2>5 DEF IInv
<1>5. CASE ~(meant.right /\ Right(meant.words, I))
  <2>1. meant' = [meant EXCEPT !.right = FALSE]
    BY <1>1, <1>5 DEF StdAfter
  <2>2. TypeInv' /\ ~meant'.right
    BY <1>1, <1>2, <2>1 DEF IInv, TypeInv
  <2>3. StackInv'
    BY <2>2 DEF StackInv
  <2> QED  BY <1>3, <2>2, <2>3 DEF IInv
<1> QED  BY <1>4, <1>5

\* What goes with the variables that a step leaves.
LEMMA TypeKept ==
  ASSUME TypeInv, UNCHANGED <<expression, base, meant>>
  PROVE  TypeInv'
<1>1. Starts' = Starts /\ End' = End
  BY SamePlaces
<1> QED  BY <1>1 DEF TypeInv

LEMMA FollowsKept ==
  ASSUME Follows, UNCHANGED <<scan, stack, size, ret, base, meant>>
  PROVE  Follows'
BY DEF Follows, Unset, Element

LEMMA FrameBaseKeeps ==
  ASSUME IInv, FrameBase
  PROVE  IInv'
<1>1. UNCHANGED <<expression, scan, stack, size, base, meant>> /\ status = "entered"
  BY DEF FrameBase
<1>2. TypeInv'
  BY <1>1, TypeKept DEF IInv
<1>3. FirstInv'
  BY <1>1 DEF FrameBase, FirstInv
<1>4. StackInv'
  <2> SUFFICES ASSUME meant.right
               PROVE  /\ status' \in {"entered", "running", "crashed", "done"}
                      /\ status' # "done" => Follows'
                      /\ status' # "crashed"
                      /\ status' = "done" => ResultAsMeant'
    BY <1>1 DEF StackInv
  <2>1. Follows
    BY <1>1 DEF IInv, StackInv
  <2>2. CASE expression[1].op = "call_frame_cfa"
    <3>1. ret' = Generic(CFA) /\ status' = "done"
      BY <2>2 DEF FrameBase
    <3>2. ResultAsMeant'
      BY <1>1, <2>2, <3>1 DEF ResultAsMeant, Generic
    <3> QED  BY <3>1, <3>2
  <2>3. CASE expression[1].op # "call_frame_cfa"
    <3>1. status' = "running" /\ ret' = ret
      BY <2>3 DEF FrameBase
    <3>2. Follows'
      BY <1>1, <2>1, <3>1, FollowsKept
    <3> QED  BY <3>1, <3>2
  <2> QED  BY <2>2, <2>3
<1> QED  BY <1>2, <1>3, <1>4 DEF IInv

\* The machine does not go astray where the standard does not.
LEMMA AstrayKeeps ==
  ASSUME IInv, Astray
  PROVE  IInv'
<1>1. /\ status = "running" /\ scan < End /\ scan \notin Starts
      /\ UNCHANGED <<expression, base, meant>>
  BY DEF Astray
<1>2. TypeInv'
  BY <1>1, TypeKept DEF IInv
<1>3. FirstInv'
  BY <1>1 DEF IInv, FirstInv
<1>4. ~meant.right
  <2> SUFFICES ASSUME meant.right PROVE FALSE
    OBVIOUS
  <2>1. scan = meant.next
    BY <1>1 DEF IInv, StackInv, Follows
  <2>2. scan = End
    BY <1>1, <2>1 DEF IInv, TypeInv
  <2>3. End \in Nat
    <3>1. Len(expression) \in 0 .. Len(expression)
      BY ExpressionIs DEF IInv, TypeInv
    <3> QED  BY <3>1, OffsetIs DEF IInv, TypeInv, End
  <2> QED  BY <1>1, <2>2, <2>3
<1>5. StackInv'
  BY <1>1, <1>4 DEF StackInv
<1> QED  BY <1>2, <1>3, <1>5 DEF IInv

LEMMA FinishKeeps ==
  ASSUME IInv, Finish
  PROVE  IInv'
<1>1. status = "running" /\ UNCHANGED <<expression, scan, stack, base, meant>>
  BY DEF Finish
<1>2. TypeInv'
  BY <1>1, TypeKept DEF IInv
<1>3. expression[1].op # "call_frame_cfa"
  BY <1>1 DEF IInv, FirstInv
<1>4. FirstInv'
  BY <1>1, <1>3 DEF FirstInv
<1>5. StackInv'
  <2> SUFFICES ASSUME meant.right
               PROVE  /\ status' \in {"entered", "running", "crashed", "done"}
                      /\ status' # "done" => Follows'
                      /\ status' = "crashed" => size' = 0
                      /\ status' = "done" => ResultAsMeant'
    BY <1>1 DEF StackInv
  <2>1. Follows
    BY <1>1 DEF IInv, StackInv
  <2>2. CASE ret # Unset
    <3>1. status' = "done" /\ ret' = ret
      BY <2>2 DEF Finish
    <3>2. meant.named = {ret.v}
      BY <2>1, <2>2 DEF Follows
    <3>3. ResultAsMeant'
      BY <1>1, <1>3, <3>1, <3>2 DEF ResultAsMeant
    <3> QED  BY <3>1, <3>3
  <2>3. CASE ret = Unset /\ size = 0
    <3>1. status' = "crashed" /\ size' = size /\ ret' = ret
      BY <2>3 DEF Finish
    <3>2. Follows'
      BY <1>1, <2>1, <3>1, FollowsKept
    <3> QED  BY <2>3, <3>1, <3>2
  <2>4. CASE ret = Unset /\ size # 0
    <3>1. status' = "done" /\ ret' = Top(0)
      BY <2>4 DEF Finish
    <3>2. meant.named = {}
      BY <2>1, <2>4 DEF Follows
    <3>3. /\ meant.words \in Seq(Words) /\ base \in 0 .. Capacity
          /\ size = base + Len(meant.words)
      BY <2>1 DEF Follows, IInv, TypeInv
    <3>4. CASE meant.words # <<>>
      <4>1. 1 \in DOMAIN meant.words
        BY <3>3, <3>4
      <4>2. stack[size - 1].v = meant.words[1]
        BY <2>1, <4>1 DEF Follows
      <4>3. size - 1 - 0 = size - 1
        BY <3>3, ExpressionsAssumption
      <4>4. ret'.v = meant.words[1]
        BY <3>1, <4>2, <4>3 DEF Top
      <4>5. ResultAsMeant'
        BY <1>1, <1>3, <3>1, <3>2, <3>4, <4>4 DEF ResultAsMeant
      <4> QED  BY <3>1, <4>5
    <3>5. CASE meant.words = <<>>
      <4>1. base > 0
        BY <2>4, <3>3, <3>5, ExpressionsAssumption
      <4>2. ResultAsMeant'
        BY <1>1, <1>3, <3>1, <3>2, <3>5, <4>1 DEF ResultAsMeant
      <4> QED  BY <3>1, <4>2
    <3> QED  BY <3>4, <3>5
  <2> QED  BY <2>2, <2>3, <2>4
<1> QED  BY <1>2, <1>4, <1>5 DEF IInv

LEMMA StutterKeeps ==
  ASSUME IInv, UNCHANGED vars
  PROVE  IInv'
<1>1. UNCHANGED <<expression, scan, stack, size, ret, status, base, meant>>
  BY DEF vars
<1>2. TypeInv'
  BY <1>1, TypeKept DEF IInv
<1>3. FirstInv'
  BY <1>1 DEF IInv, FirstInv
<1>4. ResultAsMeant => ResultAsMeant'
  BY <1>1 DEF ResultAsMeant, Generic
<1>5. Follows => Follows'
  BY <1>1, FollowsKept
<1>6. StackInv'
  BY <1>1, <1>4, <1>5 DEF IInv, StackInv
<1> QED  BY <1>2, <1>3, <1>6 DEF IInv

\* The machine's stack is the standard's, for any expression whatever and whatever is
\* in the stack before, as long as its operations do what they should.
THEOREM Invariance == Spec => []IInv
<1>1. Init => IInv
  BY InitHolds
<1>2. IInv /\ [Next]_vars => IInv'
  BY OperationKeeps, FrameBaseKeeps, AstrayKeeps, FinishKeeps, StutterKeeps DEF Next
<1> QED  BY <1>1, <1>2, PTL DEF Spec

\* Evaluating leaves on the stack what the expression means (EvaluateExpression).
THEOREM StackIsMeant == Spec => []StackAsMeant
<1>1. IInv => StackAsMeant
  BY DEF IInv, StackInv, Follows, StackAsMeant
<1> QED  BY <1>1, Invariance, PTL

\* And it returns what the expression means (EvalExprFrameBase, EvaluateExpression).
THEOREM ResultIsMeant == Spec => []ResultAsMeant
<1>1. IInv => ResultAsMeant
  BY DEF IInv, StackInv, ResultAsMeant
<1> QED  BY <1>1, Invariance, PTL

=============================================================================
