----------------------------- MODULE BackoffProofs -----------------------------
(***************************************************************************)
(* What the two loops of Backoff compute, for every number of failures:    *)
(* the base doubled for every failure after the first, up to the cap.      *)
(***************************************************************************)
EXTENDS Backoff, FiniteSetTheorems, WellFoundedInduction, TLAPS

-------------------------------------------------------------------------------
(* Natural numbers and powers of two *)

LEMMA NatSetInduction ==
  ASSUME NEW T \in SUBSET Nat, 0 \in T, \A n \in T : n + 1 \in T
  PROVE  T = Nat
<1> DEFINE R == OpToRel(<, Nat)
<1>1. IsWellFoundedOn(R, Nat)
  BY NatLessThanWellFounded, Zenon
<1>2. \A a, b \in Nat : a < b => <<a, b>> \in R
  BY DEF OpToRel
<1> HIDE DEF R
<1>3. SUFFICES ASSUME Nat \ T # {} PROVE FALSE
  OBVIOUS
<1>4. PICK x \in Nat \ T : \A y \in Nat \ T : ~(<<y, x>> \in R)
  BY <1>1, <1>3, WFMin
<1>5. x - 1 \in Nat \ T /\ x - 1 < x
  BY <1>4
<1>6. QED BY <1>2, <1>4, <1>5

LEMMA LeastOf ==
  ASSUME NEW T \in SUBSET Nat, T # {}
  PROVE  \E m \in T : \A j \in T : m <= j
<1> DEFINE R == OpToRel(<, Nat)
<1>1. IsWellFoundedOn(R, Nat)
  BY NatLessThanWellFounded, Zenon
<1>2. \A a, b \in Nat : a < b => <<a, b>> \in R
  BY DEF OpToRel
<1> HIDE DEF R
<1>3. PICK x \in T : \A y \in T : ~(<<y, x>> \in R)
  BY <1>1, WFMin
<1>4. ASSUME NEW j \in T
      PROVE  x <= j
  <2>1. x \in Nat /\ j \in Nat
    OBVIOUS
  <2>2. ~(j < x)
    BY <1>2, <1>3, <2>1
  <2>3. QED BY <2>1, <2>2
<1>5. QED BY <1>4

LEMMA PowerOfTwo == 2^0 = 1 /\ \A n \in Nat : 2^n \in Nat /\ 2^(n + 1) = 2 * 2^n
<1>1. \A n \in Nat : IsFiniteSet(1..n) /\ Cardinality(1..n) = n
  <2>1. SUFFICES ASSUME NEW n \in Nat PROVE IsFiniteSet(1..n) /\ Cardinality(1..n) = n
    OBVIOUS
  <2>2. 1 \in Int /\ n \in Int
    OBVIOUS
  <2>3. IsFiniteSet(1..n) /\ Cardinality(1..n) = IF 1 > n THEN 0 ELSE n - 1 + 1
    BY <2>2, FS_Interval
  <2>4. QED BY <2>3
<1>2. \A n \in Nat : /\ IsFiniteSet(SUBSET (1..n)) /\ Cardinality(SUBSET (1..n)) = 2^n
                     /\ 2^n \in Nat
  BY <1>1, FS_SUBSET, FS_CardinalityType
<1>3. 2^0 = 1
  <2>1. 1..0 = {}
    OBVIOUS
  <2>2. SUBSET (1..0) = {{}}
    BY <2>1
  <2>3. Cardinality({{}}) = 1
    BY FS_Singleton
  <2>4. QED BY <1>2, <2>2, <2>3
<1>4. ASSUME NEW n \in Nat, NEW m \in Nat, m = n + 1
      PROVE  2^m = 2 * 2^n
  <2> DEFINE A == SUBSET (1..n)
             B == {X \union {m} : X \in A}
             f == [X \in A |-> X \union {m}]
  <2>1. m \notin 1..n /\ 1..m = (1..n) \union {m}
    BY <1>4
  <2>2. SUBSET (1..m) = A \union B
    <3>1. A \union B \subseteq SUBSET (1..m)
      BY <2>1
    <3>2. ASSUME NEW Y \in SUBSET (1..m), Y \notin A
          PROVE  Y \in B
      <4>1. m \in Y /\ Y \ {m} \in A
        BY <2>1, <3>2
      <4>2. Y = (Y \ {m}) \union {m}
        BY <4>1
      <4>3. QED BY <4>1, <4>2
    <3>3. QED BY <3>1, <3>2
  <2>3. A \intersect B = {}
    BY <2>1
  <2>4. f \in Bijection(A, B)
    <3>1. f \in [A -> B] /\ \A Y \in B : \E X \in A : f[X] = Y
      OBVIOUS
    <3>2. ASSUME NEW X \in A, NEW Y \in A, f[X] = f[Y]
          PROVE  X = Y
      <4>1. X \union {m} = Y \union {m}
        BY <3>2
      <4>2. m \notin X /\ m \notin Y
        BY <2>1
      <4>3. X = (X \union {m}) \ {m} /\ Y = (Y \union {m}) \ {m}
        BY <4>2
      <4>4. QED BY <4>1, <4>3
    <3>3. QED BY <3>1, <3>2 DEF Bijection, Injection, Surjection, IsInjective
  <2>5. ExistsBijection(A, B)
    BY <2>4 DEF ExistsBijection
  <2>6. IsFiniteSet(A) /\ Cardinality(A) = 2^n /\ 2^n \in Nat
    BY <1>2
  <2>7. IsFiniteSet(B) /\ Cardinality(B) = 2^n
    BY <2>5, <2>6, FS_Bijection
  <2> HIDE DEF A, B
  <2>8. Cardinality(A \union B) = 2^n + 2^n
    <3>1. Cardinality(A \union B) = Cardinality(A) + Cardinality(B) - Cardinality(A \intersect B)
      BY <2>6, <2>7, FS_Union
    <3>2. Cardinality(A \intersect B) = 0
      BY <2>3, FS_EmptySet
    <3>3. QED BY <2>6, <2>7, <3>1, <3>2
  <2>9. Cardinality(SUBSET (1..m)) = 2^m 
    BY <1>2
  <2>10. 2^m = 2^n + 2^n
    BY <2>2, <2>8, <2>9, Zenon
  <2>11. \A x \in Nat : x + x = 2 * x
    OBVIOUS
  <2>12. 2^n + 2^n = 2 * 2^n
    BY <2>6, <2>11, Zenon
  <2>13. QED BY <2>10, <2>12, Zenon
<1>5. \A n \in Nat : 2^(n + 1) = 2 * 2^n
  <2>1. \A n \in Nat : n + 1 \in Nat
    OBVIOUS
  <2>2. QED BY <1>4, <2>1
<1>6. QED BY <1>2, <1>3, <1>5
\* The base doubled n times.
Doubled(base) == [n \in Nat |-> base * 2^n]

LEMMA DoubledIs ==
  ASSUME NEW base \in Nat
  PROVE  /\ Doubled(base) \in [Nat -> Nat] /\ Doubled(base)[0] = base
         /\ \A n \in Nat : Doubled(base)[n + 1] = 2 * Doubled(base)[n]
<1> DEFINE P == [n \in Nat |-> 2^n]
           G == [n \in Nat |-> base * P[n]]
<1>1. P \in [Nat -> Nat] /\ P[0] = 1
  BY PowerOfTwo, Zenon
<1>2. \A n \in Nat : n + 1 \in Nat
  OBVIOUS
<1>3. \A n \in Nat : P[n + 1] = 2 * P[n]
  BY <1>2, PowerOfTwo, Zenon
<1>4. Doubled(base) = G
  BY Zenon DEF Doubled
<1> HIDE DEF P
<1>5. G \in [Nat -> Nat] /\ G[0] = base
  BY <1>1
<1>6. ASSUME NEW n \in Nat
      PROVE  G[n + 1] = 2 * G[n]
  <2>1. n + 1 \in Nat /\ P[n] \in Nat
    BY <1>1
  <2>2. P[n + 1] = 2 * P[n]
    BY <1>3
  <2>3. G[n + 1] = base * (2 * P[n]) /\ G[n] = base * P[n]
    BY <2>1, <2>2
  <2>4. \A x, y \in Nat : x * (2 * y) = 2 * (x * y)
    OBVIOUS
  <2>5. QED BY <2>1, <2>3, <2>4
<1>7. QED BY <1>4, <1>5, <1>6

LEMMA DoubledGrows ==
  ASSUME NEW base \in Nat, NEW m \in Nat, NEW n \in Nat, m <= n
  PROVE  Doubled(base)[m] <= Doubled(base)[n]
<1> DEFINE G == Doubled(base)
           T == {k \in Nat : k >= m => G[m] <= G[k]}
<1>1. G \in [Nat -> Nat] /\ \A k \in Nat : G[k + 1] = 2 * G[k]
  BY DoubledIs
<1> HIDE DEF G
<1>2. 0 \in T
  BY <1>1
<1>3. \A k \in T : k + 1 \in T
  <2>1. SUFFICES ASSUME NEW k \in Nat, k \in T, k + 1 >= m PROVE G[m] <= G[k + 1]
    OBVIOUS
  <2>2. G[k + 1] = 2 * G[k] /\ G[k] \in Nat /\ G[m] \in Nat
    BY <1>1
  <2>3. CASE k + 1 = m
    BY <2>2, <2>3
  <2>4. CASE k >= m
    BY <2>1, <2>2, <2>4
  <2>5. QED BY <2>1, <2>3, <2>4
<1>4. T = Nat
  BY <1>2, <1>3, NatSetInduction
<1>5. QED BY <1>4 DEF G

LEMMA DoubledUnbounded ==
  ASSUME NEW base \in Nat \ {0}, NEW n \in Nat
  PROVE  Doubled(base)[n] > n
<1> DEFINE G == Doubled(base)
           T == {k \in Nat : G[k] > k}
<1>1. G \in [Nat -> Nat] /\ G[0] = base /\ \A k \in Nat : G[k + 1] = 2 * G[k]
  BY DoubledIs
<1> HIDE DEF G
<1>2. 0 \in T
  BY <1>1
<1>3. \A k \in T : k + 1 \in T
  <2>1. SUFFICES ASSUME NEW k \in Nat, G[k] > k PROVE G[k + 1] > k + 1
    OBVIOUS
  <2>2. G[k + 1] = 2 * G[k] /\ G[k] \in Nat
    BY <1>1
  <2>3. QED BY <2>1, <2>2
<1>4. T = Nat
  BY <1>2, <1>3, NatSetInduction
<1>5. QED BY <1>4 DEF G

-------------------------------------------------------------------------------
(* What the comments promise *)

LEMMA CappedIs ==
  ASSUME NEW base \in Nat, NEW cap \in Nat, NEW n \in Nat, n >= 1
  PROVE  /\ CappedPower(n, base, cap) =
              IF Doubled(base)[n - 1] <= cap THEN Doubled(base)[n - 1] ELSE cap
         /\ CappedPower(n, base, cap) \in 0..cap
<1>1. PICK k \in Nat : k = n - 1
  OBVIOUS
<1>2. base * 2^k = Doubled(base)[k] /\ Doubled(base)[k] \in Nat
  <2>1. base * 2^k = Doubled(base)[k]
    BY Zenon DEF Doubled
  <2>2. QED BY <2>1, DoubledIs
<1>3. CappedPower(n, base, cap) = IF base * 2^k <= cap THEN base * 2^k ELSE cap
  BY <1>1, Zenon DEF CappedPower
<1>4. CappedPower(n, base, cap) = IF Doubled(base)[k] <= cap THEN Doubled(base)[k] ELSE cap
  BY <1>2, <1>3, Zenon
<1>5. QED BY <1>1, <1>2, <1>4

\* No delay is longer than the cap, and none shorter than the one before.
LEMMA CappedGrows ==
  ASSUME NEW base \in Nat, NEW cap \in Nat, NEW m \in Nat, NEW n \in Nat, 1 <= m, m <= n
  PROVE  CappedPower(m, base, cap) <= CappedPower(n, base, cap)
<1> DEFINE G == Doubled(base)
<1>1. m - 1 \in Nat /\ n - 1 \in Nat /\ m - 1 <= n - 1 /\ n >= 1
  OBVIOUS
<1>2. G[m - 1] <= G[n - 1]
  BY <1>1, DoubledGrows
<1>3. G \in [Nat -> Nat]
  BY DoubledIs
<1>4. /\ CappedPower(m, base, cap) = IF G[m - 1] <= cap THEN G[m - 1] ELSE cap
      /\ CappedPower(n, base, cap) = IF G[n - 1] <= cap THEN G[n - 1] ELSE cap
  BY <1>1, CappedIs
<1> HIDE DEF G
<1>5. G[m - 1] \in Nat /\ G[n - 1] \in Nat
  BY <1>1, <1>3
<1>6. QED BY <1>2, <1>4, <1>5
-------------------------------------------------------------------------------
(* What the loops compute *)

\* Two loops are the same if they begin and go on the same.
LEMMA SameLoop ==
  ASSUME NEW d, NEW w, DOMAIN d = Nat, DOMAIN w = Nat, d[0] = w[0],
         \A k \in Nat : d[k] = w[k] => d[k + 1] = w[k + 1]
  PROVE  \A k \in Nat : d[k] = w[k]
<1> DEFINE T == {k \in Nat : d[k] = w[k]}
<1>1. 0 \in T
  OBVIOUS
<1>2. \A k \in T : k + 1 \in T
  OBVIOUS
<1>3. T = Nat
  BY <1>1, <1>2, NatSetInduction
<1>4. QED BY <1>3

\* dispatcher.Backoff: what the comment says, except that the first delay is not capped.
THEOREM RetryBackoffIs ==
  ASSUME NEW base \in Nat, NEW cap \in Nat, NEW n \in Nat, n >= 1
  PROVE  RetryBackoff(n, base, cap) = IF n = 1 THEN base ELSE CappedPower(n, base, cap)
<1> DEFINE G == Doubled(base)
           w == [k \in Nat |-> IF k <= 1 THEN base ELSE IF G[k - 1] >= cap THEN cap ELSE G[k - 1]]
           d == CHOOSE f : f = [k \in Nat |-> IF k <= 1 THEN base
                                               ELSE IF 2 * f[k - 1] >= cap THEN cap ELSE 2 * f[k - 1]]
<1>1. G \in [Nat -> Nat] /\ G[0] = base /\ \A k \in Nat : G[k + 1] = 2 * G[k]
  BY DoubledIs
<1> HIDE DEF G
<1>2. /\ w \in [Nat -> Nat]
      /\ \A k \in Nat : w[k] = IF k <= 1 THEN base ELSE IF G[k - 1] >= cap THEN cap ELSE G[k - 1]
  BY <1>1
<1> HIDE DEF w
<1>3. \A k \in Nat : w[k] = IF k <= 1 THEN base
                            ELSE IF 2 * w[k - 1] >= cap THEN cap ELSE 2 * w[k - 1]
  <2>1. ASSUME NEW k \in Nat, k >= 2
        PROVE  w[k] = IF 2 * w[k - 1] >= cap THEN cap ELSE 2 * w[k - 1]
    <3>2. w[k] = IF G[k - 1] >= cap THEN cap ELSE G[k - 1]
      BY <1>2, <2>1
    <3>3. PICK j \in Nat : k = j + 2
      BY <2>1
    <3>4. G[j + 1] = 2 * G[j] /\ G[j] \in Nat /\ k - 1 = j + 1
      BY <1>1, <3>3
    <3>5. w[k - 1] = IF j = 0 THEN base ELSE IF G[j] >= cap THEN cap ELSE G[j]
      BY <1>2, <3>4
    <3>6. CASE j = 0
      BY <1>1, <3>2, <3>4, <3>5, <3>6
    <3>7. CASE j # 0
      BY <3>2, <3>4, <3>5, <3>7
    <3>8. QED BY <3>6, <3>7
  <2>2. \A k \in Nat : k <= 1 => w[k] = base
    BY <1>2
  <2>3. QED BY <2>1, <2>2
<1>4. w = [k \in Nat |-> IF k <= 1 THEN base ELSE IF 2 * w[k - 1] >= cap THEN cap ELSE 2 * w[k - 1]]
  BY <1>2, <1>3
<1>5. d = [k \in Nat |-> IF k <= 1 THEN base ELSE IF 2 * d[k - 1] >= cap THEN cap ELSE 2 * d[k - 1]]
  BY <1>4
<1>6. RetryBackoff(n, base, cap) = d[n]
  BY DEF RetryBackoff
<1> HIDE DEF d
<1>7. d[n] = w[n]
  <2>1. DOMAIN d = Nat /\ DOMAIN w = Nat
    BY <1>4, <1>5
  <2>2. \A k \in Nat : d[k] = IF k <= 1 THEN base ELSE IF 2 * d[k - 1] >= cap THEN cap ELSE 2 * d[k - 1]
    BY <1>5
  <2>3. d[0] = w[0]
    BY <1>3, <2>2
  <2>4. ASSUME NEW k \in Nat, d[k] = w[k]
        PROVE  d[k + 1] = w[k + 1]
    <3>1. k + 1 \in Nat /\ k + 1 - 1 = k
      OBVIOUS
    <3>2. /\ d[k + 1] = IF k + 1 <= 1 THEN base ELSE IF 2 * d[k] >= cap THEN cap ELSE 2 * d[k]
          /\ w[k + 1] = IF k + 1 <= 1 THEN base ELSE IF 2 * w[k] >= cap THEN cap ELSE 2 * w[k]
      BY <1>3, <2>2, <3>1
    <3>3. QED BY <2>4, <3>2
  <2>5. QED BY <2>1, <2>3, <2>4, SameLoop
<1>8. w[n] = IF n = 1 THEN base ELSE CappedPower(n, base, cap)
  <2>1. CappedPower(n, base, cap) = IF G[n - 1] <= cap THEN G[n - 1] ELSE cap
    BY CappedIs DEF G
  <2>2. w[n] = IF n <= 1 THEN base ELSE IF G[n - 1] >= cap THEN cap ELSE G[n - 1]
    BY <1>2
  <2>3. n - 1 \in Nat /\ G[n - 1] \in Nat
    BY <1>1
  <2>4. QED BY <2>1, <2>2, <2>3
<1>9. QED BY <1>6, <1>7, <1>8

\* Manager.backoff: what the comment says.
THEOREM InitBackoffIs ==
  ASSUME NEW interval \in Nat, NEW default \in Nat \ {0}, NEW cap \in Nat, NEW n \in Nat, n >= 1
  PROVE  InitBackoff(n, interval, default, cap) =
           CappedPower(n, IF interval > 0 THEN interval ELSE default, cap)
<1> DEFINE base == IF interval <= 0 THEN default ELSE interval
           G == Doubled(base)
<1>0. base \in Nat \ {0} /\ base = IF interval > 0 THEN interval ELSE default
  OBVIOUS
<1> DEFINE d == CHOOSE f : f = [k \in Nat |-> IF k <= 1 THEN base
                                               ELSE IF f[k - 1] < cap THEN 2 * f[k - 1] ELSE f[k - 1]]
<1>6. InitBackoff(n, interval, default, cap) = IF d[n] < cap THEN d[n] ELSE cap
  BY DEF InitBackoff
<1> HIDE DEF base
<1>1. G \in [Nat -> Nat] /\ G[0] = base /\ \A k \in Nat : G[k + 1] = 2 * G[k]
  BY <1>0, DoubledIs
<1>2. \A j, k \in Nat : j <= k => G[j] <= G[k]
  BY <1>0, DoubledGrows
<1>3. PICK m \in Nat : G[m] >= cap /\ \A k \in Nat : k < m => G[k] < cap
  <2> DEFINE T == {k \in Nat : G[k] >= cap}
  <2>1. G[cap] > cap
    BY <1>0, DoubledUnbounded
  <2> HIDE DEF G
  <2>2. cap \in T
    BY <1>1, <2>1
  <2>3. PICK m \in T : \A j \in T : m <= j
    BY <2>2, LeastOf
  <2>4. ASSUME NEW k \in Nat, k < m
        PROVE  G[k] < cap
    <3>1. k \notin T /\ G[k] \in Nat
      BY <1>1, <2>3, <2>4
    <3>2. QED BY <3>1
  <2>5. QED BY <2>3, <2>4
<1> HIDE DEF G
<1> DEFINE w == [k \in Nat |-> IF k <= 1 THEN base ELSE IF k - 1 <= m THEN G[k - 1] ELSE G[m]]
<1>4. /\ w \in [Nat -> Nat]
      /\ \A k \in Nat : w[k] = IF k <= 1 THEN base ELSE IF k - 1 <= m THEN G[k - 1] ELSE G[m]
  BY <1>0, <1>1
<1> HIDE DEF w
<1>5. \A k \in Nat : w[k] = IF k <= 1 THEN base ELSE IF w[k - 1] < cap THEN 2 * w[k - 1] ELSE w[k - 1]
  <2>1. ASSUME NEW k \in Nat, k >= 2
        PROVE  w[k] = IF w[k - 1] < cap THEN 2 * w[k - 1] ELSE w[k - 1]
    <3>1. PICK j \in Nat : k = j + 2
      BY <2>1
    <3>2. w[k] = IF j + 1 <= m THEN G[j + 1] ELSE G[m]
      BY <1>4, <2>1, <3>1
    <3>3. G[j + 1] = 2 * G[j] /\ G[j] \in Nat /\ G[m] \in Nat /\ k - 1 = j + 1
      BY <1>1, <3>1
    <3>4. w[k - 1] = IF j = 0 THEN base ELSE IF j <= m THEN G[j] ELSE G[m]
      BY <1>4, <3>3
    <3>5. w[k - 1] = IF j <= m THEN G[j] ELSE G[m]
      BY <1>1, <3>4
    <3>6. CASE j < m
      BY <1>3, <3>2, <3>3, <3>5, <3>6
    <3>7. CASE j >= m
      BY <1>3, <3>2, <3>3, <3>5, <3>7
    <3>8. QED BY <3>6, <3>7
  <2>2. \A k \in Nat : k <= 1 => w[k] = base
    BY <1>4
  <2>3. QED BY <2>1, <2>2
<1>7. d[n] = w[n]
  <2>1. w = [k \in Nat |-> IF k <= 1 THEN base ELSE IF w[k - 1] < cap THEN 2 * w[k - 1] ELSE w[k - 1]]
    BY <1>4, <1>5
  <2>2. d = [k \in Nat |-> IF k <= 1 THEN base ELSE IF d[k - 1] < cap THEN 2 * d[k - 1] ELSE d[k - 1]]
    BY <2>1
  <2> HIDE DEF d
  <2>3. DOMAIN d = Nat /\ DOMAIN w = Nat
    BY <2>1, <2>2
  <2>4. \A k \in Nat : d[k] = IF k <= 1 THEN base ELSE IF d[k - 1] < cap THEN 2 * d[k - 1] ELSE d[k - 1]
    BY <2>2
  <2>5. d[0] = w[0]
    BY <1>5, <2>4
  <2>6. ASSUME NEW k \in Nat, d[k] = w[k]
        PROVE  d[k + 1] = w[k + 1]
    <3>1. k + 1 \in Nat /\ k + 1 - 1 = k
      OBVIOUS
    <3>2. /\ d[k + 1] = IF k + 1 <= 1 THEN base ELSE IF d[k] < cap THEN 2 * d[k] ELSE d[k]
          /\ w[k + 1] = IF k + 1 <= 1 THEN base ELSE IF w[k] < cap THEN 2 * w[k] ELSE w[k]
      BY <1>5, <2>4, <3>1
    <3>3. QED BY <2>6, <3>2
  <2>7. QED BY <2>3, <2>5, <2>6, SameLoop
<1> HIDE DEF d
<1>8. PICK j \in Nat : j = n - 1
  OBVIOUS
<1>9. w[n] = IF j <= m THEN G[j] ELSE G[m]
  BY <1>1, <1>4, <1>8
<1>10. CappedPower(n, base, cap) = IF G[j] <= cap THEN G[j] ELSE cap
  BY <1>0, <1>8, CappedIs DEF G
<1>11. G[j] \in Nat /\ G[m] \in Nat /\ (m <= j => G[m] <= G[j])
  BY <1>1, <1>2
<1>12. (IF w[n] < cap THEN w[n] ELSE cap) = CappedPower(n, base, cap)
  <2>1. CASE j < m
    BY <1>3, <1>9, <1>10, <1>11, <2>1
  <2>2. CASE j >= m
    BY <1>3, <1>9, <1>10, <1>11, <2>2
  <2>3. QED BY <2>1, <2>2
<1>13. QED BY <1>0, <1>6, <1>7, <1>12

\* No retry waits less than the comment says.
LEMMA RetryBackoffSuffices ==
  ASSUME NEW base \in Nat, NEW cap \in Nat, NEW n \in Nat, n >= 1
  PROVE  RetryBackoff(n, base, cap) \in Nat /\ RetryBackoff(n, base, cap) >= CappedPower(n, base, cap)
<1>1. CappedPower(n, base, cap) \in Nat
  BY CappedIs
<1>2. CASE n = 1
  <2>1. CappedPower(n, base, cap) = IF Doubled(base)[0] <= cap THEN Doubled(base)[0] ELSE cap
    BY <1>2, CappedIs
  <2>2. Doubled(base)[0] = base
    BY DoubledIs
  <2>3. RetryBackoff(n, base, cap) = base
    BY <1>2, RetryBackoffIs
  <2>4. QED BY <2>1, <2>2, <2>3
<1>3. CASE n # 1
  <2>1. RetryBackoff(n, base, cap) = CappedPower(n, base, cap)
    BY <1>3, RetryBackoffIs
  <2>2. QED BY <1>1, <2>1
<1>4. QED BY <1>2, <1>3
==============================================================================
