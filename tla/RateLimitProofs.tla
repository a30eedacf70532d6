-------------------------- MODULE RateLimitProofs --------------------------
(***************************************************************************)
(* LimiterMatchesConfig for every width of an address and every            *)
(* environment.  A mask is 2^AddrBits less a power of two, so the bits of  *)
(* a word under a mask are the word less a remainder (AndWithMask), and    *)
(* two words agree under it when a division says so.                       *)
(***************************************************************************)
EXTENDS ResourceServiceProofs, WellFoundedInduction

(***************************************************************************)
(* Powers of two, which count the subsets of an interval, and division.    *)
(***************************************************************************)

\* The recurrence of the powers.
LEMMA PowersOfTwo ==
    /\ 2 ^ 0 = 1
    /\ \A k \in Nat : 2 ^ k \in Nat \ {0} /\ 2 ^ (k + 1) = 2 * 2 ^ k
<1>1. 2 ^ 0 = 1
  OBVIOUS
<1>2. \A k \in Nat : IsFiniteSet(1 .. k) /\ Cardinality(1 .. k) = k
  BY FS_Interval
<1>3. \A k \in Nat : IsFiniteSet(SUBSET (1 .. k)) /\ Cardinality(SUBSET (1 .. k)) = 2 ^ k
  BY <1>2, FS_SUBSET
<1>4. ASSUME NEW k \in Nat PROVE 2 ^ (k + 1) = 2 * 2 ^ k /\ 2 ^ k \in Nat
  <2> DEFINE Old == SUBSET (1 .. k)
             New == {s \cup {k + 1} : s \in Old}
             f   == [s \in Old |-> s \cup {k + 1}]
  <2>1. f \in Bijection(Old, New)
    <3>1. \A s \in Old : k + 1 \notin s
      OBVIOUS
    <3>2. ASSUME NEW s \in Old, NEW t \in Old, s \cup {k + 1} = t \cup {k + 1} PROVE s = t
      BY <3>1, <3>2
    <3> HIDE DEF Old
    <3>3. f \in [Old -> New] /\ \A t \in New : \E s \in Old : f[s] = t
      OBVIOUS
    <3>4. \A s, t \in Old : f[s] = f[t] => s = t
      BY <3>2
    <3> HIDE DEF New, f
    <3> QED BY <3>3, <3>4 DEF Bijection, Injection, Surjection, IsInjective
  <2>2. /\ IsFiniteSet(Old) /\ Cardinality(Old) = 2 ^ k
        /\ IsFiniteSet(New) /\ Cardinality(New) = Cardinality(Old)
    BY <1>3, <2>1, FS_Bijection DEF ExistsBijection
  <2>3. Old \cap New = {}
    OBVIOUS
  <2>4. SUBSET (1 .. (k + 1)) = Old \cup New
    <3>1. ASSUME NEW s \in SUBSET (1 .. (k + 1)) PROVE s \in Old \cup New
      <4>1. CASE k + 1 \in s
        <5>1. s \ {k + 1} \in Old /\ s = (s \ {k + 1}) \cup {k + 1}
          BY <4>1
        <5> QED BY <5>1
      <4>2. CASE k + 1 \notin s BY <4>2
      <4> QED BY <4>1, <4>2
    <3>2. ASSUME NEW s \in Old \cup New PROVE s \in SUBSET (1 .. (k + 1))
      OBVIOUS
    <3> QED BY <3>1, <3>2
  <2> HIDE DEF Old, New
  <2>5. Cardinality(Old) \in Nat
    BY <2>2, FS_CardinalityType
  <2>6. Cardinality(Old \cup New) = Cardinality(Old) + Cardinality(New) - Cardinality(Old \cap New)
    BY <2>2, FS_Union
  <2>7. Cardinality(Old \cap New) = 0
    BY <2>3, FS_EmptySet
  <2>8. Cardinality(SUBSET (1 .. (k + 1))) = 2 ^ (k + 1)
    <3>1. k + 1 \in Nat
      OBVIOUS
    <3> QED BY <1>3, <3>1
  <2> DEFINE old == Cardinality(Old)
             both == Cardinality(Old \cap New)
  <2>9. 2 ^ (k + 1) = old + old - both /\ both = 0 /\ old = 2 ^ k /\ old \in Nat
    BY <2>2, <2>4, <2>5, <2>6, <2>7, <2>8
  <2> HIDE DEF old, both
  <2> QED BY <2>9
<1>5. ASSUME NEW k \in Nat PROVE 2 ^ k # 0
  <2>1. {} \in SUBSET (1 .. k)
    OBVIOUS
  <2> QED BY <1>3, <2>1, FS_EmptySet
<1> QED BY <1>1, <1>4, <1>5

\* A property of the naturals that holds of 0 and of what follows holds of all.
LEMMA NaturalsFollow ==
    ASSUME NEW C \in SUBSET Nat, 0 \in C, \A k \in Nat : k \in C => k + 1 \in C
    PROVE  C = Nat
<1> DEFINE D == Nat \ C
<1> SUFFICES ASSUME D # {} PROVE FALSE
  OBVIOUS
<1>1. D \subseteq Nat
  OBVIOUS
<1> HIDE DEF D
<1>2. PICK d \in D : \A e \in D : ~ (<<e, d>> \in OpToRel(<, Nat))
  BY <1>1, NatLessThanWellFounded, WFMin
<1>3. d \in Nat /\ d # 0 /\ d - 1 \in Nat
  BY <1>1 DEF D
<1>4. <<d - 1, d>> \in OpToRel(<, Nat)
  <2>1. <<d - 1, d>> \in Nat \X Nat /\ <<d - 1, d>>[1] < <<d - 1, d>>[2]
    BY <1>3
  <2> QED BY <2>1 DEF OpToRel
<1>5. d - 1 \in C /\ d \notin C
  BY <1>2, <1>3, <1>4 DEF D
<1>6. d - 1 + 1 = d
  BY <1>3
<1> QED BY <1>3, <1>5, <1>6

\* The laws of exponents that the masks need.
LEMMA PowersMultiply == \A j, k \in Nat : 2 ^ (j + k) = 2 ^ j * 2 ^ k
<1> SUFFICES ASSUME NEW j \in Nat PROVE \A k \in Nat : 2 ^ (j + k) = 2 ^ j * 2 ^ k
  OBVIOUS
<1> DEFINE C == {k \in Nat : 2 ^ (j + k) = 2 ^ j * 2 ^ k}
<1>1. 0 \in C
  <2>1. 2 ^ j \in Nat /\ 2 ^ 0 = 1 /\ j + 0 = j
    BY PowersOfTwo
  <2> QED BY <2>1
<1>2. ASSUME NEW k \in Nat, k \in C PROVE k + 1 \in C
  <2>1. 2 ^ (j + k) = 2 ^ j * 2 ^ k
    BY <1>2
  <2>2. /\ 2 ^ ((j + k) + 1) = 2 * 2 ^ (j + k) /\ 2 ^ (k + 1) = 2 * 2 ^ k
        /\ 2 ^ j \in Nat /\ 2 ^ k \in Nat
    BY PowersOfTwo
  <2>3. (j + k) + 1 = j + (k + 1)
    OBVIOUS
  <2>4. 2 ^ (j + (k + 1)) = 2 * (2 ^ j * 2 ^ k)
    BY <2>1, <2>2, <2>3
  <2>5. \A a, b \in Nat : 2 * (a * b) = a * (2 * b)
    OBVIOUS
  <2> QED BY <2>2, <2>4, <2>5
<1>3. C \in SUBSET Nat
  OBVIOUS
<1> HIDE DEF C
<1>4. C = Nat
  BY <1>1, <1>2, <1>3, NaturalsFollow
<1> QED BY <1>4 DEF C

\* Division is unique.
LEMMA Divided ==
    ASSUME NEW a \in Nat \ {0}, NEW q \in Nat, NEW r \in 0 .. (a - 1)
    PROVE  (a * q + r) \div a = q /\ (a * q + r) % a = r
OBVIOUS

\* What quotient and remainder are.
LEMMA Division ==
    ASSUME NEW a \in Nat \ {0}, NEW x \in Nat
    PROVE  /\ x \div a \in Nat /\ x % a \in 0 .. (a - 1)
           /\ x = a * (x \div a) + (x % a)
OBVIOUS

\* One more bit of a word.
LEMMA OneMoreBit ==
    ASSUME NEW a \in Nat \ {0}, NEW x \in Nat
    PROVE  x % (2 * a) = (x % a) + ((x \div a) % 2) * a
<1> DEFINE q == x \div a
           b == q % 2
           r == x % a
           h == q \div 2
<1>1. q \in Nat /\ r \in 0 .. (a - 1) /\ x = a * q + r
  BY Division
<1>2. h \in Nat /\ b \in 0 .. 1 /\ q = 2 * h + b
  BY <1>1, Division
<1> HIDE DEF q, b, r, h
<1>3. x = (2 * a) * h + (b * a + r)
  <2>1. a * (2 * h + b) = (2 * a) * h + b * a
    BY <1>2
  <2> QED BY <1>1, <1>2, <2>1
<1>4. b * a + r \in 0 .. (2 * a - 1)
  BY <1>1, <1>2
<1>5. 2 * a \in Nat \ {0}
  OBVIOUS
<1>6. x % (2 * a) = b * a + r
  BY <1>2, <1>3, <1>4, <1>5, Divided
<1>7. b * a + r = r + b * a
  BY <1>1, <1>2
<1> QED BY <1>6, <1>7 DEF q, b, r

\* A power divides a higher one.
LEMMA PowersGrow ==
    ASSUME NEW k \in Nat, NEW j \in 0 .. k
    PROVE  2 ^ k = 2 ^ j * 2 ^ (k - j) /\ 2 ^ j <= 2 ^ k
<1> DEFINE a == 2 ^ j
           b == 2 ^ (k - j)
<1>1. j \in Nat /\ k - j \in Nat /\ j + (k - j) = k
  OBVIOUS
<1>2. a \in Nat \ {0} /\ b \in Nat \ {0}
  BY <1>1, PowersOfTwo
<1>3. 2 ^ k = a * b
  BY <1>1, PowersMultiply
<1> HIDE DEF a, b
<1>4. a <= a * b
  BY <1>2
<1> QED BY <1>3, <1>4 DEF a, b

-----------------------------------------------------------------------------
(* Masks.                                                                  *)

\* The shift of maskForPrefix, as a difference.
LEMMA MaskOfPrefix ==
    ASSUME NEW prefix \in 0 .. AddrBits
    PROVE  maskForPrefix(prefix) = 2 ^ AddrBits - 2 ^ (AddrBits - prefix)
<1> DEFINE m == AddrBits - prefix
           N == 2 ^ AddrBits
           M == 2 ^ m
<1>1. AddrBits \in Nat \ {0} /\ m \in 0 .. AddrBits /\ m \in Nat
  BY RateLimitAssumption
<1>2. N \in Nat \ {0} /\ M \in Nat \ {0} /\ M <= N
  BY <1>1, PowersOfTwo, PowersGrow
<1>3. CASE prefix = 0
  BY <1>1, <1>2, <1>3 DEF maskForPrefix
<1>4. CASE prefix = AddrBits
  <2>1. M = 1
    BY <1>4, <1>1, PowersOfTwo
  <2> QED BY <1>1, <1>4, <2>1 DEF maskForPrefix
<1>5. CASE prefix # 0 /\ prefix # AddrBits
  <2>1. m % AddrBits = m
    BY <1>1, <1>5
  <2>2. maskForPrefix(prefix) = ((N - 1) * M) % N
    BY <1>1, <1>5, <2>1 DEF maskForPrefix, Shl
  <2> HIDE DEF N, M
  <2>3. (N - 1) * M = N * (M - 1) + (N - M)
    BY <1>2
  <2>4. N - M \in 0 .. (N - 1) /\ M - 1 \in Nat
    BY <1>2
  <2>5. ((N - 1) * M) % N = N - M
    BY <1>2, <2>3, <2>4, Divided
  <2> QED BY <2>2, <2>5 DEF N, M
<1> QED BY <1>3, <1>4, <1>5

\* The low bits of a mask are 0, the high ones 1.
LEMMA MaskBits ==
    ASSUME NEW m \in 0 .. AddrBits, NEW k \in 0 .. (AddrBits - 1)
    PROVE  Bit(2 ^ AddrBits - 2 ^ m, k) = IF k < m THEN 0 ELSE 1
<1> DEFINE N == 2 ^ AddrBits
           M == 2 ^ m
           A == 2 ^ k
           U == 2 ^ (AddrBits - (k + 1))
           B == 2 ^ (k + 1)
<1>1. /\ AddrBits \in Nat /\ m \in Nat /\ k \in Nat /\ k + 1 \in 0 .. AddrBits
      /\ AddrBits - (k + 1) \in Nat
  BY RateLimitAssumption
<1>2. /\ N \in Nat /\ M \in Nat \ {0} /\ A \in Nat \ {0} /\ U \in Nat \ {0}
      /\ B = 2 * A /\ N = B * U
  BY <1>1, PowersOfTwo, PowersGrow
<1>3. N = A * (2 * U)
  <2> HIDE DEF N, A, U, B
  <2>1. (2 * A) * U = A * (2 * U)
    BY <1>2
  <2> QED BY <1>2, <2>1
<1>4. CASE k < m
  <2> DEFINE V == 2 ^ (m - (k + 1))
  <2>1. m - (k + 1) \in Nat /\ k + 1 \in 0 .. m /\ m - (k + 1) \in 0 .. (AddrBits - (k + 1))
    BY <1>1, <1>4
  <2>2. V \in Nat /\ M = B * V /\ V <= U
    BY <1>1, <2>1, PowersOfTwo, PowersGrow
  <2> HIDE DEF N, M, A, U, B, V
  <2>3. N - M = A * (2 * (U - V)) + 0
    <3>1. (2 * A) * V = A * (2 * V)
      BY <1>2, <2>2
    <3>2. A * (2 * U) - A * (2 * V) = A * (2 * (U - V))
      BY <1>2, <2>2
    <3> QED BY <1>2, <1>3, <2>2, <3>1, <3>2
  <2>4. U - V \in Nat /\ 2 * (U - V) \in Nat /\ 0 \in 0 .. (A - 1)
    BY <1>2, <2>2
  <2>5. (N - M) \div A = 2 * (U - V)
    BY <1>2, <2>3, <2>4, Divided
  <2>6. (2 * (U - V) + 0) % 2 = 0 /\ 2 * (U - V) + 0 = 2 * (U - V)
    BY <2>4
  <2> QED BY <1>4, <2>5, <2>6 DEF Bit, N, M, A
<1>5. CASE ~(k < m)
  <2>1. m \in 0 .. k
    BY <1>1, <1>5
  <2>2. M <= A
    BY <1>1, <2>1, PowersGrow
  <2> HIDE DEF N, M, A, U, B
  <2>3. N - M = A * (2 * U - 1) + (A - M)
    BY <1>2, <1>3
  <2>4. 2 * U - 1 \in Nat /\ A - M \in 0 .. (A - 1)
    BY <1>2, <2>2
  <2> DEFINE q == 2 * U - 1
             r == A - M
  <2> HIDE DEF q, r
  <2>7. N - M = A * q + r /\ q \in Nat /\ r \in 0 .. (A - 1)
    BY <2>3, <2>4 DEF q, r
  <2>8. (N - M) \div A = q
    BY <1>2, <2>7, Divided
  <2>5. (N - M) \div A = 2 * U - 1
    BY <2>8 DEF q
  <2>6. 2 * U - 1 = 2 * (U - 1) + 1 /\ (2 * (U - 1) + 1) % 2 = 1
    BY <1>2
  <2> QED BY <1>5, <2>5, <2>6 DEF Bit, N, M, A
<1> QED BY <1>4, <1>5

-----------------------------------------------------------------------------
(* And, as a function of the number of bits.                               *)

\* f[k] is what the k low bits add up to.
AndFits(f, x, y) ==
    f = [k \in 0 .. AddrBits |->
             IF k = 0 THEN 0
             ELSE f[k - 1] + Bit(x, k - 1) * Bit(y, k - 1) * 2 ^ (k - 1)]

\* And is the function that fits, at the width.
LEMMA AndIsSum ==
    ASSUME NEW x, NEW y
    PROVE  And(x, y) = (CHOOSE f : AndFits(f, x, y))[AddrBits]
BY DEF And, AndFits

\* The function is one: no two fit.
LEMMA AndUnique ==
    ASSUME NEW x, NEW y, NEW f, NEW g, AndFits(f, x, y), AndFits(g, x, y)
    PROVE  f = g
<1> DEFINE C == {k \in Nat : k \in 0 .. AddrBits => f[k] = g[k]}
<1>1. AddrBits \in Nat
  BY RateLimitAssumption
<1>2. \A k \in 0 .. AddrBits :
          /\ f[k] = IF k = 0 THEN 0
                    ELSE f[k - 1] + Bit(x, k - 1) * Bit(y, k - 1) * 2 ^ (k - 1)
          /\ g[k] = IF k = 0 THEN 0
                    ELSE g[k - 1] + Bit(x, k - 1) * Bit(y, k - 1) * 2 ^ (k - 1)
  BY DEF AndFits
<1>3. 0 \in C
  <2>1. 0 \in 0 .. AddrBits
    BY <1>1
  <2> QED BY <1>2, <2>1
<1>4. ASSUME NEW k \in Nat, k \in C PROVE k + 1 \in C
  <2> SUFFICES ASSUME k + 1 \in 0 .. AddrBits PROVE f[k + 1] = g[k + 1]
    OBVIOUS
  <2>1. k \in 0 .. AddrBits /\ k + 1 # 0 /\ (k + 1) - 1 = k
    BY <1>1
  <2>2. f[k] = g[k]
    BY <1>4, <2>1
  <2> QED BY <1>2, <2>1, <2>2
<1>5. C \in SUBSET Nat
  OBVIOUS
<1> HIDE DEF C
<1>6. C = Nat
  BY <1>3, <1>4, <1>5, NaturalsFollow
<1>7. \A k \in 0 .. AddrBits : f[k] = g[k]
  <2>1. ASSUME NEW k \in 0 .. AddrBits PROVE f[k] = g[k]
    <3>1. k \in C
      BY <1>6
    <3> QED BY <3>1 DEF C
  <2> QED BY <2>1
<1>8. /\ f = [k \in 0 .. AddrBits |-> f[k]]
      /\ g = [k \in 0 .. AddrBits |-> g[k]]
  BY DEF AndFits
<1> QED BY <1>7, <1>8

\* A word is below the power of its width.
LEMMA WordsAreSmall == \A x \in Words : x \in Nat /\ x % 2 ^ AddrBits = x
<1> SUFFICES ASSUME NEW x \in Words PROVE x \in Nat /\ x % 2 ^ AddrBits = x
  OBVIOUS
<1> DEFINE N == 2 ^ AddrBits
<1>1. N \in Nat \ {0}
  BY RateLimitAssumption, PowersOfTwo
<1>2. x \in 0 .. (N - 1)
  BY DEF Words
<1> HIDE DEF N
<1>3. x % N = x
  BY <1>1, <1>2
<1> QED BY <1>2, <1>3 DEF N

\* Of a word and the mask of its high bits: the word without the low ones.
LEMMA AndWithMask ==
    ASSUME NEW x \in Words, NEW m \in 0 .. AddrBits
    PROVE  And(x, 2 ^ AddrBits - 2 ^ m) = x - (x % 2 ^ m)
<1> DEFINE y      == 2 ^ AddrBits - 2 ^ m
           low(k) == IF k < m THEN x % 2 ^ k ELSE x % 2 ^ m
           g      == [k \in 0 .. AddrBits |-> (x % 2 ^ k) - low(k)]
<1>1. AddrBits \in Nat /\ m \in Nat /\ x \in Nat /\ m <= AddrBits
  BY RateLimitAssumption, WordsAreSmall
<1>2. g[0] = 0
  <2>1. 0 \in 0 .. AddrBits /\ 2 ^ 0 = 1
    BY <1>1, PowersOfTwo
  <2>2. x % 1 = 0
    BY <1>1
  <2>3. low(0) = 0
    <3>1. CASE 0 < m BY <3>1, <2>1, <2>2
    <3>2. CASE ~(0 < m)
      <4>1. m = 0
        BY <1>1, <3>2
      <4> QED BY <2>1, <2>2, <4>1
    <3> QED BY <3>1, <3>2
  <2> HIDE DEF low
  <2> QED BY <2>1, <2>2, <2>3
<1>3. ASSUME NEW k \in 1 .. AddrBits
      PROVE  g[k] = g[k - 1] + Bit(x, k - 1) * Bit(y, k - 1) * 2 ^ (k - 1)
  <2> DEFINE j == k - 1
             A == 2 ^ j
             b == Bit(x, j)
             t == x % A
  <2>1. j \in Nat /\ k = j + 1 /\ j \in 0 .. AddrBits /\ k \in 0 .. AddrBits
        /\ j \in 0 .. (AddrBits - 1)
    BY <1>1
  <2>2. A \in Nat \ {0} /\ 2 ^ k = 2 * A
    BY <2>1, PowersOfTwo
  <2>3. x % (2 * A) = t + b * A
    <3> HIDE DEF A
    <3> QED BY <1>1, <2>2, OneMoreBit DEF Bit, A
  <2>4. t \in Nat /\ b \in 0 .. 1
    <3>1. x \div A \in Nat
      <4> HIDE DEF A
      <4> QED BY <1>1, <2>2, Division
    <3>2. (x \div A) % 2 \in 0 .. 1
      BY <3>1
    <3>3. t \in Nat
      <4> HIDE DEF A
      <4> QED BY <1>1, <2>2, Division
    <3> QED BY <3>2, <3>3 DEF Bit
  <2>5. Bit(y, j) = IF j < m THEN 0 ELSE 1
    BY <2>1, MaskBits
  <2>6. g[k] = (x % 2 ^ k) - low(k) /\ g[j] = t - low(j)
    BY <2>1
  <2>7. low(j) \in Nat
    <3>1. 2 ^ m \in Nat \ {0}
      BY <1>1, PowersOfTwo
    <3>2. x % 2 ^ m \in Nat
      BY <1>1, <3>1, Division
    <3> QED BY <2>4, <3>2
  <2>8. CASE j < m
    <3>1. low(j) = t /\ low(k) = x % 2 ^ k
      <4>1. CASE k < m BY <2>8, <4>1
      <4>2. CASE ~(k < m)
        <5>1. k = m
          BY <1>1, <2>1, <2>8, <4>2
        <5> QED BY <2>8, <5>1
      <4> QED BY <4>1, <4>2
    <3>2. g[k] = 0 /\ g[j] = 0
      <4>1. x % 2 ^ k \in Nat
        <5> HIDE DEF A, t, b
        <5> QED BY <2>2, <2>3, <2>4
      <4> HIDE DEF low, g, t
      <4> QED BY <2>4, <2>6, <3>1, <4>1
    <3>3. b * Bit(y, j) * A = 0
      <4>1. Bit(y, j) = 0
        BY <2>5, <2>8
      <4> HIDE DEF y, b, A
      <4> QED BY <2>2, <2>4, <4>1
    <3> HIDE DEF g
    <3> QED BY <3>2, <3>3
  <2>9. CASE ~(j < m)
    <3>1. low(k) = low(j)
      BY <1>1, <2>1, <2>9
    <3>2. Bit(y, j) = 1
      BY <2>5, <2>9
    <3>3. b * Bit(y, j) * A = b * A
      <4> HIDE DEF y, b, A
      <4> QED BY <2>2, <2>4, <3>2
    <3>4. g[k] = g[j] + b * A
      <4>1. g[k] = (t + b * A) - low(j)
        BY <2>2, <2>3, <2>6, <3>1
      <4> HIDE DEF low, g, t, b, A
      <4> QED BY <2>2, <2>4, <2>6, <2>7, <4>1
    <3> HIDE DEF g, b, A, y
    <3> QED BY <3>3, <3>4 DEF b, A
  <2> QED BY <2>8, <2>9
<1>4. AndFits(g, x, y)
  <2> SUFFICES \A k \in 0 .. AddrBits :
                   g[k] = IF k = 0 THEN 0
                          ELSE g[k - 1] + Bit(x, k - 1) * Bit(y, k - 1) * 2 ^ (k - 1)
    <3>1. g = [k \in 0 .. AddrBits |-> g[k]]
      OBVIOUS
    <3> HIDE DEF g, y
    <3> QED BY <3>1 DEF AndFits
  <2> HIDE DEF g, y
  <2>1. ASSUME NEW k \in 0 .. AddrBits, k # 0 PROVE k \in 1 .. AddrBits
    BY <1>1, <2>1
  <2> QED BY <1>2, <1>3, <2>1
<1> HIDE DEF y
<1>5. AndFits(CHOOSE f : AndFits(f, x, y), x, y)
  BY <1>4
<1>6. And(x, y) = g[AddrBits]
  BY <1>4, <1>5, AndIsSum, AndUnique
<1>7. AddrBits \in 0 .. AddrBits /\ x % 2 ^ AddrBits = x
  BY <1>1, WordsAreSmall
<1>8. low(AddrBits) = x % 2 ^ m
  <2>1. CASE AddrBits < m BY <1>1, <2>1
  <2>2. CASE ~(AddrBits < m) BY <2>2
  <2> QED BY <2>1, <2>2
<1>9. g[AddrBits] = x - (x % 2 ^ m)
  BY <1>7, <1>8
<1> QED BY <1>6, <1>9 DEF y

-----------------------------------------------------------------------------
(* Blocks.                                                                 *)

\* Of two words: the same under a mask, or in the same block.
LEMMA MaskedIsBlock ==
    ASSUME NEW x \in Words, NEW y \in Words, NEW prefix \in 0 .. AddrBits
    PROVE  And(x, maskForPrefix(prefix)) = And(y, maskForPrefix(prefix))
               <=> x \div 2 ^ (AddrBits - prefix) = y \div 2 ^ (AddrBits - prefix)
<1> DEFINE m == AddrBits - prefix
           h == 2 ^ m
<1>1. AddrBits \in Nat /\ m \in 0 .. AddrBits /\ m \in Nat /\ x \in Nat /\ y \in Nat
  BY RateLimitAssumption, WordsAreSmall
<1>2. maskForPrefix(prefix) = 2 ^ AddrBits - h
  BY MaskOfPrefix
<1>3. /\ And(x, maskForPrefix(prefix)) = x - (x % h)
      /\ And(y, maskForPrefix(prefix)) = y - (y % h)
  BY <1>1, <1>2, AndWithMask
<1>4. h \in Nat \ {0}
  BY <1>1, PowersOfTwo
<1> DEFINE p == x \div h
           q == y \div h
           s == x % h
           t == y % h
<1> HIDE DEF h
<1>5. /\ p \in Nat /\ s \in 0 .. (h - 1) /\ x = h * p + s
      /\ q \in Nat /\ t \in 0 .. (h - 1) /\ y = h * q + t
  BY <1>1, <1>4, Division
<1> HIDE DEF p, q, s, t
<1>6. x - s = h * p /\ y - t = h * q
  BY <1>4, <1>5
<1>7. h * p = h * q <=> p = q
  BY <1>4, <1>5
<1> QED BY <1>3, <1>6, <1>7 DEF h, p, q, s, t

\* A block has at most as many addresses as its hosts.
LEMMA BlockIsSmall ==
    ASSUME NEW base \in Nat, NEW h \in Nat \ {0}
    PROVE  /\ Cardinality({addr \in Words : addr \div h = base}) \in Nat
           /\ Cardinality({addr \in Words : addr \div h = base}) <= h
<1> DEFINE block == {addr \in Words : addr \div h = base}
           first == h * base
           last  == h * base + (h - 1)
<1>1. first \in Int /\ last \in Int /\ last - first + 1 = h /\ first <= last
  <2> DEFINE z == h * base
  <2>1. z \in Nat
    OBVIOUS
  <2> HIDE DEF z
  <2>2. z \in Int /\ z + (h - 1) \in Int /\ (z + (h - 1)) - z + 1 = h /\ z <= z + (h - 1)
    BY <2>1
  <2> QED BY <2>2 DEF z
<1>2. block \subseteq first .. last
  <2> SUFFICES ASSUME NEW addr \in Words, addr \div h = base PROVE addr \in first .. last
    OBVIOUS
  <2>1. addr \in Nat
    BY WordsAreSmall
  <2> DEFINE r == addr % h
  <2>2. r \in 0 .. (h - 1) /\ addr = h * base + r
    BY <2>1, Division
  <2> HIDE DEF r
  <2> QED BY <2>1, <2>2
<1> HIDE DEF block, first, last
<1>3. IsFiniteSet(first .. last) /\ Cardinality(first .. last) = h
  <2>1. Cardinality(first .. last) = IF first > last THEN 0 ELSE last - first + 1
    BY <1>1, FS_Interval
  <2> QED BY <1>1, <2>1, FS_Interval
<1>4. IsFiniteSet(block) /\ Cardinality(block) <= h
  BY <1>2, <1>3, FS_Subset
<1>5. Cardinality(block) \in Nat
  BY <1>4, FS_CardinalityType
<1> QED BY <1>4, <1>5 DEF block

-----------------------------------------------------------------------------
(* Entries, and the limiter's configuration.                               *)

\* An entry without an error has a prefix of 0 to AddrBits.
LEMMA EntriesHavePrefixes ==
    ASSUME NEW e, IsEntry(e), e.family = "v4", ~EntryError(e)
    PROVE  PrefixOf(e, AddrBits) \in 0 .. AddrBits
<1>1. e.prefix \in 0 .. AddrBits \cup {NoPrefix}
  BY DEF EntryError
<1>2. AddrBits \in 0 .. AddrBits
  BY RateLimitAssumption
<1> QED BY <1>1, <1>2 DEF PrefixOf

\* What the limiter makes of an entry is an exemption for its block.
LEMMA EntryIsBlock ==
    ASSUME NEW e, IsEntry(e), e.family = "v4", ~EntryError(e), NEW addr \in Words
    PROVE  And(addr, ParseSingleCidr(e).mask) = ParseSingleCidr(e).base
               <=> addr \in Block(e)
<1>1. e.addr \in Words /\ PrefixOf(e, AddrBits) \in 0 .. AddrBits
  BY EntriesHavePrefixes DEF IsEntry
<1>2. /\ ParseSingleCidr(e).mask = maskForPrefix(PrefixOf(e, AddrBits))
      /\ ParseSingleCidr(e).base = And(e.addr, maskForPrefix(PrefixOf(e, AddrBits)))
  BY DEF ParseSingleCidr
<1> QED BY <1>1, <1>2, MaskedIsBlock DEF Block

\* In production no block has more than a quarter of the addresses.
LEMMA NarrowBlocks ==
    ASSUME NEW e, IsEntry(e), e.family = "v4", ~EntryError(e), ~WideOpen(ParseSingleCidr(e))
    PROVE  4 * Cardinality(Block(e)) <= 2 ^ AddrBits
<1> DEFINE prefix == PrefixOf(e, AddrBits)
           m == AddrBits - prefix
           h == 2 ^ m
           N == 2 ^ AddrBits
<1>1. prefix \in 0 .. AddrBits /\ AddrBits \in Nat /\ e.addr \in Words
  BY EntriesHavePrefixes, RateLimitAssumption DEF IsEntry
<1>2. ~(prefix <= 1)
  BY DEF WideOpen, ParseSingleCidr
<1>3. m \in Nat /\ m + 2 \in 0 .. AddrBits /\ (m + 1) + 1 = m + 2 /\ m + 1 \in Nat
  BY <1>1, <1>2
<1>4. h \in Nat \ {0} /\ 2 ^ (m + 2) = 2 * (2 * h)
  BY <1>3, PowersOfTwo
<1>5. 2 ^ (m + 2) <= N /\ N \in Nat
  BY <1>1, <1>3, PowersGrow, PowersOfTwo
<1>6. e.addr \div h \in Nat
  <2> HIDE DEF h
  <2> QED BY <1>1, <1>4, WordsAreSmall, Division
<1> DEFINE size == Cardinality(Block(e))
<1>7. size \in Nat /\ size <= h
  BY <1>4, <1>6, BlockIsSmall DEF Block
<1> HIDE DEF size, h, N
<1>8. 4 * size <= N
  BY <1>4, <1>5, <1>7
<1> QED BY <1>8 DEF size, N

\* Only Boot lets a replica past its configuration.
Configured == (\E i \in Replica : phase[i] = "connect") => ConfigAccepted(env)

\* Every step keeps it: the environment is never assigned.
LEMMA ConfiguredStep == ScalarTypes /\ Configured /\ [Next]_vars => Configured'
<1> SUFFICES ASSUME ScalarTypes, Configured, [Next]_vars PROVE Configured'
  OBVIOUS
<1>1. ASSUME UNCHANGED <<env, phase>> PROVE Configured'
  BY <1>1 DEF Configured, ConfigAccepted
<1>2. ASSUME NEW i \in Replica, Boot(i) PROVE Configured'
  BY <1>2 DEF Boot, Configured, ConfigAccepted, ScalarTypes
<1>3. ASSUME NEW i \in Replica,
             \/ Connect(i) \/ ConnectFails(i) \/ Terminate(i) \/ ExitCleanly(i) \/ ForceExit(i)
      PROVE  Configured'
  <2>1. /\ env' = env
        /\ \A j \in Replica : phase'[j] = "connect" => phase[j] = "connect"
    BY <1>3 DEF Connect, ConnectFails, Terminate, ExitCleanly, ForceExit, ScalarTypes,
                processVars
  <2> QED BY <2>1 DEF Configured, ConfigAccepted
<1> USE DEF processVars
<1>4. ASSUME \/ \E id \in Id : ExpireDetail(id)
             \/ \E entry \in lists : ExpireList(entry)
             \/ WindowEnds \/ RedisLoss
      PROVE  UNCHANGED <<env, phase>>
  BY <1>4 DEF ExpireDetail, ExpireList, WindowEnds, RedisLoss
<1>5. ASSUME NEW r \in Req,
             \/ Send(r) \/ NextPage(r) \/ Limit(r) \/ LimitFails(r) \/ Probe(r)
             \/ Insert(r) \/ Write(r) \/ StatementRefused(r)
      PROVE  UNCHANGED <<env, phase>>
  BY <1>5 DEF Send, NextPage, Accept, Limit, LimitFails, Probe, Insert, Write, StatementRefused
<1>6. ASSUME NEW r \in Req,
             \/ StatementFails(r) \/ Del(r) \/ Bump(r) \/ Select(r) \/ SelectFails(r)
             \/ DetailGet(r) \/ VersionGet(r) \/ ListGet(r)
      PROVE  UNCHANGED <<env, phase>>
  BY <1>6 DEF StatementFails, Del, Bump, Select, SelectFails, DetailGet, VersionGet, ListGet
<1>7. ASSUME NEW f \in Req,
             FlightRead(f) \/ FlightFill(f) \/ FlightReadFails(f) \/ FlightTimeout(f)
      PROVE  UNCHANGED <<env, phase>>
  BY <1>7 DEF FlightRead, FlightFill, FlightReadFails, FlightTimeout
<1>8. CASE UNCHANGED vars
  BY <1>1, <1>8 DEF vars
<1> QED BY <1>1, <1>2, <1>3, <1>4, <1>5, <1>6, <1>7, <1>8 DEF Next, RequestStep, FlightStep

\* A list of CIDRs that was parsed exempts the blocks of its v4 entries.
LEMMA ListIsBlocks ==
    ASSUME NEW entries, \A e \in entries : IsEntry(e) /\ ~EntryError(e)
    PROVE  {addr \in Words : InAllowlist([form |-> "v4", addr |-> addr], ParseCidrList(entries))}
               = UNION {Block(e) : e \in {d \in entries : d.family = "v4"}}
<1>1. ParseCidrList(entries) = {ParseSingleCidr(e) : e \in entries}
  BY DEF ParseCidrList, ParseErrors
<1>2. \A e \in entries : ParseSingleCidr(e).kind = "ipv4" <=> e.family = "v4"
  BY DEF ParseSingleCidr
<1>3. ASSUME NEW addr \in Words
      PROVE  InAllowlist([form |-> "v4", addr |-> addr], ParseCidrList(entries))
                 <=> \E e \in entries : e.family = "v4" /\ addr \in Block(e)
  <2>1. InAllowlist([form |-> "v4", addr |-> addr], ParseCidrList(entries))
            <=> \E e \in entries : /\ ParseSingleCidr(e).kind = "ipv4"
                                   /\ And(addr, ParseSingleCidr(e).mask) = ParseSingleCidr(e).base
    BY <1>1 DEF InAllowlist
  <2> QED BY <1>2, <2>1, EntryIsBlock
<1>4. \A e : Block(e) \subseteq Words
  BY DEF Block
<1> QED BY <1>3, <1>4

\* The invariant implies the property.
LEMMA ConfiguredIsEnough == ScalarTypes /\ Configured => LimiterMatchesConfig
<1> SUFFICES ASSUME ScalarTypes, Configured, \E i \in Replica : phase[i] = "connect"
             PROVE  LET blocks == {Block(e) : e \in {d \in env.entries : d.family = "v4"}} IN
                    /\ {addr \in Words : InAllowlist([form |-> "v4", addr |-> addr], Cidrs)}
                           = UNION blocks
                    /\ env.nodeEnv = "production" =>
                           \A block \in blocks : 4 * Cardinality(block) <= 2 ^ AddrBits
  BY DEF LimiterMatchesConfig
<1>1. ConfigAccepted(env)
  BY DEF Configured
<1>2. \A e \in env.entries : IsEntry(e) /\ ~EntryError(e)
  BY <1>1, ServiceAssumption DEF ScalarTypes, ConfigAccepted, ParseErrors
<1>3. ASSUME env.nodeEnv = "production", NEW e \in env.entries, e.family = "v4"
      PROVE  4 * Cardinality(Block(e)) <= 2 ^ AddrBits
  <2>1. ParseSingleCidr(e) \in ParseCidrList(env.entries)
    BY <1>2 DEF ParseCidrList, ParseErrors
  <2>2. ~WideOpen(ParseSingleCidr(e))
    BY <1>1, <1>3, <2>1 DEF ConfigAccepted, FindWideOpenCidrs
  <2> QED BY <1>2, <1>3, <2>2, NarrowBlocks
<1> QED BY <1>2, <1>3, ListIsBlocks DEF Cidrs

-----------------------------------------------------------------------------
(* LimiterMatchesConfig: a replica that got past its configuration exempts *)
(* from the limit exactly the addresses of the configured blocks, and in   *)
(* production no block with more than a quarter of all addresses, whatever *)
(* the width of an address and the entries are.                            *)
THEOREM LimiterFitsConfig == Spec => []LimiterMatchesConfig
<1>1. Init => ScalarTypes /\ Configured
  BY ScalarInit DEF Init, Configured
<1>2. ScalarTypes /\ Configured /\ [Next]_vars => (ScalarTypes /\ Configured)'
  BY ScalarStep, ConfiguredStep
<1>3. ScalarTypes /\ Configured => LimiterMatchesConfig
  BY ConfiguredIsEnough
<1> QED BY <1>1, <1>2, <1>3, PTL DEF Spec
=============================================================================
