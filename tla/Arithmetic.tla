----------------------------- MODULE Arithmetic -----------------------------
(***************************************************************************)
(* Facts about numbers that the proofs of the other modules cite:          *)
(* quotients and remainders, and the least number of a set, which stands   *)
(* in for induction.                                                       *)
(***************************************************************************)
EXTENDS Integers, WellFoundedInduction, TLAPS

\* A remainder is smaller than its modulus.
LEMMA ModRange ==
    ASSUME NEW a \in Int, NEW m \in Nat, m > 0
    PROVE  a % m \in 0 .. m - 1
OBVIOUS

\* A positive multiple of a number is at least the number.
LEMMA MulGap ==
    ASSUME NEW d \in Int, NEW m \in Nat, d >= 1
    PROVE  d * m >= m
OBVIOUS

\* Quotient and remainder are unique.
LEMMA ModUnique ==
    ASSUME NEW m \in Nat, NEW q \in Int, NEW r \in 0 .. m - 1
    PROVE  (q * m + r) % m = r
<1> DEFINE b == q * m + r
           p == b \div m
           s == b % m
<1>1. b \in Int /\ p \in Int /\ s \in 0 .. m - 1 /\ b = p * m + s
  OBVIOUS
<1>. HIDE DEF p, s
<1>2. (q - p) * m = s - r
  BY <1>1
<1>3. ~(q - p >= 1)
  BY <1>1, <1>2, MulGap
<1>4. (p - q) * m = r - s
  BY <1>1
<1>5. ~(p - q >= 1)
  BY <1>1, <1>4, MulGap
<1>6. p = q
  BY <1>1, <1>3, <1>5
<1>7. s = r
  BY <1>1, <1>6
<1>. QED BY <1>7 DEF s

\* Adding less than the modulus wraps at most once.
LEMMA ModStep ==
    ASSUME NEW a \in Int, NEW m \in Nat, NEW n \in Nat, n < m
    PROVE  (a + n) % m = IF (a % m) + n < m THEN (a % m) + n ELSE (a % m) + n - m
<1> DEFINE q == a \div m
           r == a % m
<1>1. q \in Int /\ r \in 0 .. m - 1 /\ a = q * m + r
  OBVIOUS
<1>. HIDE DEF q, r
<1>2. CASE r + n < m
  <2>1. a + n = q * m + (r + n) /\ r + n \in 0 .. m - 1
    BY <1>1, <1>2
  <2>2. (q * m + (r + n)) % m = r + n
    BY <2>1, <1>1, ModUnique
  <2>. QED BY <2>1, <2>2, <1>2 DEF r
<1>3. CASE ~(r + n < m)
  <2>1. a + n = (q + 1) * m + (r + n - m) /\ r + n - m \in 0 .. m - 1 /\ q + 1 \in Int
    BY <1>1, <1>3
  <2>2. ((q + 1) * m + (r + n - m)) % m = r + n - m
    BY <2>1, ModUnique
  <2>. QED BY <2>1, <2>2, <1>3 DEF r
<1>. QED BY <1>2, <1>3

\* A quotient of naturals is a natural.
LEMMA DivNat ==
    ASSUME NEW a \in Nat, NEW d \in Nat, d > 0
    PROVE  a \div d \in Nat
OBVIOUS

\* Half of a number, rounded down.
LEMMA HalfBounds ==
    ASSUME NEW a \in Nat
    PROVE  /\ a \div 2 \in Nat
           /\ 2 * (a \div 2) <= a /\ a <= 2 * (a \div 2) + 1
OBVIOUS

\* A product grows with a factor.
LEMMA TimesMonotone ==
    ASSUME NEW a \in Nat, NEW b \in Nat, NEW c \in Nat, a <= b
    PROVE  c * a <= c * b /\ c * a \in Nat
OBVIOUS

\* A quotient is no larger than what bounds the dividend.
LEMMA DivAtMost ==
    ASSUME NEW a \in Nat, NEW m \in Nat, NEW d \in Nat \ {0}, a <= d * m
    PROVE  a \div d \in Nat /\ a \div d <= m
<1> DEFINE q == a \div d
           r == a % d
<1>1. q \in Nat /\ r \in 0 .. d - 1 /\ a = d * q + r
  OBVIOUS
<1>. HIDE DEF q, r
<1>2. CASE q >= m + 1
  <2>1. d * (m + 1) <= d * q
    BY <1>1, <1>2, TimesMonotone
  <2>2. d * (m + 1) = d * m + d
    OBVIOUS
  <2>. QED BY <2>1, <2>2, <1>1
<1>. QED BY <1>1, <1>2 DEF q

\* A quotient is no smaller than what the dividend is a multiple of.
LEMMA DivAtLeast ==
    ASSUME NEW a \in Nat, NEW m \in Nat, NEW d \in Nat \ {0}, d * m <= a
    PROVE  a \div d \in Nat /\ m <= a \div d
<1> DEFINE q == a \div d
           r == a % d
<1>1. q \in Nat /\ r \in 0 .. d - 1 /\ a = d * q + r
  OBVIOUS
<1>. HIDE DEF q, r
<1>2. CASE m >= q + 1
  <2>1. d * (q + 1) <= d * m
    BY <1>1, <1>2, TimesMonotone
  <2>2. d * (q + 1) = d * q + d
    BY <1>1
  <2>. QED BY <2>1, <2>2, <1>1
<1>. QED BY <1>1, <1>2 DEF q

\* The quotient of a multiple and a remainder.
LEMMA DivUnique ==
    ASSUME NEW m \in Nat, NEW q \in Int, NEW r \in 0 .. m - 1
    PROVE  (q * m + r) \div m = q
<1> DEFINE b == q * m + r
           p == b \div m
           s == b % m
<1>1. b \in Int /\ p \in Int /\ s \in 0 .. m - 1 /\ b = p * m + s
  OBVIOUS
<1>2. s = r
  BY ModUnique
<1>. HIDE DEF p, s
<1>3. p * m = q * m
  BY <1>1, <1>2
<1>4. (q - p) * m = 0 /\ (p - q) * m = 0
  BY <1>1, <1>3
<1>5. ~(q - p >= 1) /\ ~(p - q >= 1)
  BY <1>1, <1>4, MulGap
<1>6. p = q
  BY <1>1, <1>5
<1>. QED BY <1>6 DEF p

\* Adding multiples of the divisor adds their number to the quotient.
LEMMA DivShift ==
    ASSUME NEW a \in Nat, NEW n \in Nat, NEW m \in Nat \ {0}
    PROVE  (a + n * m) \div m = n + (a \div m)
<1> DEFINE q == a \div m
           r == a % m
<1>1. q \in Nat /\ r \in 0 .. m - 1 /\ a = q * m + r
  OBVIOUS
<1>. HIDE DEF q, r
<1>2. a + n * m = (n + q) * m + r /\ n + q \in Int
  BY <1>1
<1>3. ((n + q) * m + r) \div m = n + q
  BY <1>1, <1>2, DivUnique
<1>. QED BY <1>2, <1>3 DEF q

\* A quotient grows with the dividend.
LEMMA DivMonotone ==
    ASSUME NEW a \in Nat, NEW b \in Nat, NEW m \in Nat \ {0}, a <= b
    PROVE  a \div m <= b \div m
<1> DEFINE q == a \div m
<1>1. q \in Nat /\ m * q <= a
  OBVIOUS
<1>. HIDE DEF q
<1>2. m * q <= b /\ m * q \in Nat
  BY <1>1
<1>3. q <= b \div m
  BY <1>1, <1>2, DivAtLeast
<1>. QED BY <1>3 DEF q

\* Multiples of the modulus leave the remainder as it is.
LEMMA ModShift ==
    ASSUME NEW m \in Nat \ {0}, NEW x \in Int, NEW k \in Int
    PROVE  (x + k * m) % m = x % m
<1> DEFINE q == x \div m
           r == x % m
<1>1. q \in Int /\ r \in 0 .. m - 1 /\ x = q * m + r
  OBVIOUS
<1>. HIDE DEF q, r
<1>2. x + k * m = (q + k) * m + r /\ q + k \in Int
  BY <1>1
<1>3. ((q + k) * m + r) % m = r
  BY <1>1, <1>2, ModUnique
<1>. QED BY <1>2, <1>3 DEF r

\* Numbers with the same remainder still have it when a number is added to both.
LEMMA ModAdd ==
    ASSUME NEW m \in Nat \ {0}, NEW a \in Int, NEW b \in Int, NEW c \in Int, a % m = b % m
    PROVE  (a + c) % m = (b + c) % m
<1> DEFINE p == a \div m
           q == b \div m
           r == a % m
<1>1. p \in Int /\ q \in Int /\ r \in Int /\ a = p * m + r /\ b = q * m + r
  OBVIOUS
<1>. HIDE DEF p, q, r
<1>2. a + c = (b + c) + (p - q) * m
  BY <1>1
<1>3. p - q \in Int /\ b + c \in Int
  BY <1>1
<1>4. ((b + c) + (p - q) * m) % m = (b + c) % m
  BY <1>3, ModShift
<1>. QED BY <1>2, <1>4

\* A remainder has the same remainder by the modulus, and by its divisors.
LEMMA ModMod ==
    ASSUME NEW m \in Nat \ {0}, NEW n \in Nat \ {0}, m % n = 0, NEW a \in Int
    PROVE  (a % m) % n = a % n
<1> DEFINE q == a \div m
           r == a % m
           k == m \div n
<1>1. q \in Int /\ r \in Int /\ a = q * m + r /\ k \in Int /\ m = k * n
  OBVIOUS
<1>. HIDE DEF q, k, r
<1>2. q * m = (q * k) * n /\ q * k \in Int
  BY <1>1
<1>3. a = r + (q * k) * n
  BY <1>1, <1>2
<1>4. (r + (q * k) * n) % n = r % n
  BY <1>1, <1>2, ModShift
<1>. QED BY <1>3, <1>4 DEF r

------------------------------------------------------------------------------
(* Induction                                                               *)

\* A set of numbers has a least one.
LEMMA LeastNat ==
    ASSUME NEW S \in SUBSET Nat, S # {}
    PROVE  \E x \in S : \A y \in S : x <= y
<1>1. PICK x \in S : \A y \in S : ~(<<y, x>> \in OpToRel(<, Nat))
  BY NatLessThanWellFounded, WFMin
<1>2. \A y \in S : ~(y < x)
  BY <1>1 DEF OpToRel
<1>. QED BY <1>2

\* Induction, over a set instead of a predicate.
LEMMA SetInduction ==
    ASSUME NEW S \in SUBSET Nat, 0 \in S, \A n \in S : n + 1 \in S
    PROVE  \A n \in Nat : n \in S
<1> DEFINE T == Nat \ S
<1>. SUFFICES ASSUME T # {} PROVE FALSE
  OBVIOUS
<1>1. PICK x \in T : \A y \in T : x <= y
  BY LeastNat
<1>2. x # 0 /\ x - 1 \in Nat /\ x - 1 \notin T
  BY <1>1
<1>3. x - 1 + 1 \in S
  BY <1>2
<1>. QED BY <1>3

==============================================================================
