---------------------------- MODULE BasicLemmas ----------------------------
(***************************************************************************)
(* Facts about numbers that the proofs of several modules rest on: least   *)
(* elements, quotients and remainders by a number that is not known, and   *)
(* how many values a function takes.                                       *)
(***************************************************************************)
EXTENDS FiniteSetsExt, FiniteSetTheorems, WellFoundedInduction, TLAPS

\* A set of natural numbers that is not empty has a least element.
LEMMA LeastOfNats ==
  ASSUME NEW S, S \subseteq Nat, S # {}
  PROVE  Min(S) \in S /\ \A x \in S : Min(S) <= x
<1>1. PICK m \in S : \A x \in S : ~ (<<x, m>> \in OpToRel(<, Nat))
  BY NatLessThanWellFounded, WFMin
<1>2. \A x \in S : ~ (x < m)
  BY <1>1 DEF OpToRel
<1>3. \E x \in S : \A y \in S : x =< y
  BY <1>2
<1> QED BY <1>3 DEF Min

\* One that is bounded has a greatest.
LEMMA GreatestOfNats ==
  ASSUME NEW n \in Nat, NEW S, S \subseteq 0 .. n, S # {}
  PROVE  Max(S) \in S /\ \A x \in S : x <= Max(S)
<1> DEFINE T == {b \in 0 .. n : \A x \in S : x <= b}
           g == Min(T)
<1>1. g \in T /\ \A b \in T : g <= b
  <2>1. n \in T
    OBVIOUS
  <2>2. T \subseteq Nat
    OBVIOUS
  <2> QED BY <2>1, <2>2, LeastOfNats
<1> HIDE DEF g
<1>2. g \in 0 .. n /\ \A x \in S : x <= g
  BY <1>1
<1>3. g \in S
  <2> SUFFICES ASSUME g \notin S PROVE FALSE
    OBVIOUS
  <2>1. \A x \in S : x \in Int /\ x >= 0 /\ x <= g - 1
    BY <1>2
  <2>2. g - 1 \in T
    <3>1. PICK x \in S : TRUE
      OBVIOUS
    <3>2. g - 1 \in 0 .. n
      BY <1>2, <2>1, <3>1
    <3> QED BY <2>1, <3>2
  <2>3. g <= g - 1
    BY <1>1, <2>2
  <2> QED BY <1>2, <2>3
<1>4. \E y \in S : \A x \in S : y >= x
  BY <1>2, <1>3
<1>5. Max(S) \in S /\ \A x \in S : Max(S) >= x
  BY <1>4 DEF Max
<1> QED BY <1>5

-----------------------------------------------------------------------------
\* A number is its quotient's multiple and a remainder.
LEMMA DivMod ==
  ASSUME NEW n \in Nat \ {0}, NEW a \in Nat
  PROVE  /\ a \div n \in Nat /\ a % n \in 0 .. n - 1
         /\ a = n * (a \div n) + (a % n)
OBVIOUS

\* ... and no other multiple and remainder.
LEMMA QuotientUnique ==
  ASSUME NEW n \in Nat \ {0}, NEW a \in Nat, NEW q \in Int, NEW r \in 0 .. n - 1,
         a = n * q + r
  PROVE  a \div n = q /\ a % n = r
<1> DEFINE p == a \div n
           s == a % n
<1>1. p \in Int /\ s \in 0 .. n - 1 /\ a = n * p + s
  OBVIOUS
<1> HIDE DEF p, s
<1>2. n * (p - q) = r - s
  BY <1>1
<1>3. CASE p - q >= 1
  <2>1. n * (p - q) >= n
    BY <1>1, <1>3
  <2> QED BY <1>1, <1>2, <2>1
<1>4. CASE p - q <= -1
  <2>1. n * (p - q) <= -n
    BY <1>1, <1>4
  <2> QED BY <1>1, <1>2, <2>1
<1>5. CASE p - q = 0
  BY <1>1, <1>2, <1>5 DEF p, s
<1> QED BY <1>1, <1>3, <1>4, <1>5

\* A larger number has no smaller quotient.
LEMMA QuotientMonotone ==
  ASSUME NEW n \in Nat \ {0}, NEW a \in Nat, NEW b \in Nat, a <= b
  PROVE  a \div n <= b \div n
<1> DEFINE p == a \div n
           q == b \div n
<1>1. /\ p \in Nat /\ q \in Nat
      /\ n * p <= a /\ b < n * q + n
  BY DivMod
<1> HIDE DEF p, q
<1>2. ~(p >= q + 1)
  <2> SUFFICES ASSUME p >= q + 1 PROVE FALSE
    OBVIOUS
  <2>1. n * p >= n * (q + 1)
    BY <1>1
  <2>2. n * (q + 1) = n * q + n
    BY <1>1
  <2> QED BY <1>1, <2>1, <2>2
<1> QED BY <1>1, <1>2 DEF p, q

\* Numbers of the same remainder stay so when both grow by the same amount, and
\* their quotients grow alike.
LEMMA ShiftAlike ==
  ASSUME NEW n \in Nat \ {0}, NEW a \in Nat, NEW b \in Nat, NEW d \in Nat,
         a % n = b % n
  PROVE  /\ (a + d) % n = (b + d) % n
         /\ ((a + d) \div n) - (a \div n) = ((b + d) \div n) - (b \div n)
<1> DEFINE p == a \div n
           q == b \div n
           u == (a + d) \div n
           v == (b + d) \div n
           r == a % n
           s == (a + d) % n
<1>1. /\ p \in Nat /\ q \in Nat /\ u \in Nat /\ r \in 0 .. n - 1 /\ s \in 0 .. n - 1
      /\ a = n * p + r /\ b = n * q + r /\ a + d = n * u + s
  <2>1. p \in Nat /\ r \in 0 .. n - 1 /\ a = n * p + r
    OBVIOUS
  <2>2. q \in Nat /\ b % n \in 0 .. n - 1 /\ b = n * q + (b % n)
    OBVIOUS
  <2>3. a + d \in Nat
    OBVIOUS
  <2>4. u \in Nat /\ s \in 0 .. n - 1 /\ a + d = n * u + s
    BY <2>3
  <2> QED BY <2>1, <2>2, <2>4
<1> HIDE DEF p, q, u, r, s
<1>2. b + d = n * (q + (u - p)) + s
  <2>1. d = n * u + s - n * p - r
    BY <1>1
  <2>2. n * (q + (u - p)) = n * q + n * u - n * p
    BY <1>1
  <2> QED BY <1>1, <2>1, <2>2
<1>3. (b + d) \div n = q + (u - p) /\ (b + d) % n = s
  <2>1. b + d \in Nat /\ q + (u - p) \in Int
    BY <1>1
  <2> HIDE DEF v
  <2> QED BY <1>1, <1>2, <2>1, QuotientUnique, ZenonT(30)
<1> QED BY <1>1, <1>3 DEF p, q, u, s

\* A number on a later line begins a new multiple.
LEMMA NextMultiple ==
  ASSUME NEW n \in Nat \ {0}, NEW a \in Nat, NEW r \in 0 .. n - 1
  PROVE  /\ (a - (a % n) + n + r) \div n = a \div n + 1
         /\ (a - (a % n) + n + r) % n = r
<1> DEFINE p == a \div n
           s == a % n
           b == a - s + n + r
<1>1. p \in Nat /\ s \in 0 .. n - 1 /\ a = n * p + s
  BY DivMod
<1> HIDE DEF p, s
<1>2. n * (p + 1) = n * p + n
  BY <1>1
<1>3. b \in Nat /\ b = n * (p + 1) + r
  BY <1>1, <1>2
<1> HIDE DEF b
<1>4. b \div n = p + 1 /\ b % n = r
  BY <1>1, <1>3, QuotientUnique
<1> QED BY <1>4 DEF b, p, s

\* Two numbers less than n apart, the later with no smaller remainder, have the
\* same quotient.
LEMMA SameMultiple ==
  ASSUME NEW n \in Nat \ {0}, NEW a \in Nat, NEW b \in Nat,
         a <= b, b - a < n, b % n >= a % n
  PROVE  a \div n = b \div n /\ (b % n) - (a % n) = b - a
<1> DEFINE p == a \div n
           s == a % n
           q == b \div n
           r == b % n
<1>1. /\ p \in Nat /\ s \in 0 .. n - 1 /\ a = n * p + s
      /\ q \in Nat /\ r \in 0 .. n - 1 /\ b = n * q + r /\ r >= s
  BY DivMod
<1>2. p <= q
  BY QuotientMonotone
<1> HIDE DEF p, s, q, r
<1>3. n * (q - p) = n * q - n * p
  BY <1>1
<1>4. ~(q - p >= 1)
  <2> SUFFICES ASSUME q - p >= 1 PROVE FALSE
    OBVIOUS
  <2>1. n * (q - p) >= n
    BY <1>1
  <2> QED BY <1>1, <1>3, <2>1
<1>5. p = q
  BY <1>1, <1>2, <1>4
<1> QED BY <1>1, <1>5 DEF p, s, q, r

\* A function that takes no value twice takes as many as it has arguments.
LEMMA ImageSize ==
  ASSUME NEW f, IsFiniteSet(DOMAIN f), \A x, y \in DOMAIN f : f[x] = f[y] => x = y
  PROVE  Cardinality({f[x] : x \in DOMAIN f}) = Cardinality(DOMAIN f)
<1> DEFINE S == DOMAIN f
           T == {f[x] : x \in S}
           g == [x \in S |-> f[x]]
<1>1. g \in [S -> T] /\ DOMAIN g = S
  OBVIOUS
<1>2. g \in Injection(S, T)
  BY <1>1 DEF Injection, IsInjective
<1>3. g \in Surjection(S, T)
  BY <1>1 DEF Surjection
<1>4. ExistsBijection(S, T)
  BY <1>2, <1>3 DEF ExistsBijection, Bijection
<1> QED BY <1>4, FS_Bijection
=============================================================================
