------------------------- MODULE CurveGroup_proofs -------------------------
(***************************************************************************)
(* Facts about arithmetic modulo the group order N that the proofs about  *)
(* the table and the scalar multiplication are built from.                *)
(***************************************************************************)
EXTENDS CurveGroup, WellFoundedInduction, TLAPS

(* The remainder of an integer lies in 0..N-1. *)
LEMMA ModRange ==
    ASSUME NEW x \in Int
    PROVE  x % N \in 0..(N - 1)
  BY NAssumption, Z3

(* Every integer is a multiple of N plus its remainder. *)
LEMMA ModDecomp ==
    ASSUME NEW x \in Int
    PROVE  x = N * (x \div N) + (x % N) /\ x \div N \in Int
  BY NAssumption, Z3

(* The remainder is the unique r in 0..N-1 with m = k * N + r. *)
LEMMA ModUnique ==
    ASSUME NEW m \in Int, NEW k \in Int, NEW r \in 0..(N - 1), m = k * N + r
    PROVE  m % N = r
  BY NAssumption, Z3

LEMMA Regroup ==
    ASSUME NEW z \in Int, NEW k \in Int, NEW q \in Int, NEW r \in Int,
           z + k * N = N * q + r
    PROVE  z = (q - k) * N + r
  BY NAssumption, Z3

(* Adding a multiple of N does not change the remainder. *)
LEMMA ModShift ==
    ASSUME NEW z \in Int, NEW k \in Int
    PROVE  (z + k * N) % N = z % N
  <1> DEFINE m == z + k * N
  <1>1. m \in Int
    BY NAssumption
  <1>2. PICK q \in Int : m = N * q + (m % N)
    BY <1>1, ModDecomp
  <1>3. m % N \in 0..(N - 1)
    BY <1>1, ModRange
  <1>4. z = (q - k) * N + (m % N)
    BY <1>2, <1>3, Regroup
  <1> QED
    BY <1>3, <1>4, ModUnique

(* Reducing a factor first does not change the remainder of a product. *)
LEMMA ModTimes ==
    ASSUME NEW a \in Int, NEW x \in Int
    PROVE  (a * (x % N)) % N = (a * x) % N
  <1>1. PICK q \in Int : x = N * q + (x % N)
    BY ModDecomp
  <1>2. x % N \in Int
    BY ModRange, NAssumption
  <1>3. \A r \in Int : x = N * q + r => a * x = a * r + (a * q) * N
    BY NAssumption, Z3
  <1>4. a * x = a * (x % N) + (a * q) * N
    BY <1>1, <1>2, <1>3
  <1>5. (a * (x % N) + (a * q) * N) % N = (a * (x % N)) % N
    <2>1. a * (x % N) \in Int /\ a * q \in Int
      BY <1>2
    <2> QED
      BY <2>1, ModShift
  <1> QED
    BY <1>4, <1>5

(* Reducing a summand first does not change the remainder of a sum. *)
LEMMA ModPlus ==
    ASSUME NEW x \in Int, NEW y \in Int
    PROVE  ((x % N) + y) % N = (x + y) % N
  <1>1. PICK q \in Int : x = N * q + (x % N)
    BY ModDecomp
  <1>2. x % N \in Int
    BY ModRange, NAssumption
  <1>3. \A r \in Int : x = N * q + r => x + y = (r + y) + q * N
    BY NAssumption, Z3
  <1>4. x + y = ((x % N) + y) + q * N
    BY <1>1, <1>2, <1>3
  <1>5. (((x % N) + y) + q * N) % N = ((x % N) + y) % N
    <2>1. (x % N) + y \in Int
      BY <1>2
    <2> QED
      BY <2>1, ModShift
  <1> QED
    BY <1>4, <1>5

(* A point is its own remainder. *)
LEMMA PointMod ==
    ASSUME NEW x \in Point
    PROVE  x % N = x
  BY NAssumption, Z3 DEF Point

(* Adding a point and then its opposite gives the point back. *)
LEMMA AddNegCancel ==
    ASSUME NEW t \in Point, NEW b \in Point
    PROVE  GroupAdd(GroupAdd(t, b), Neg(b)) = t
  BY NAssumption, Z3 DEF GroupAdd, Neg, Point

(* The group operations stay in Point. *)
LEMMA GroupClosed ==
    ASSUME NEW a \in Int, NEW b \in Int
    PROVE  /\ GroupAdd(a, b) \in Point
           /\ Double(a) \in Point
           /\ ScalarTimes(a, b) \in Point
           /\ Neg(a) \in Point
  BY ModRange, NAssumption DEF GroupAdd, Double, ScalarTimes, Neg, Point
(* Doubling (c/2) * b gives c * b for even c: the FillEven step. *)
LEMMA DoubleHalf ==
    ASSUME NEW c \in Nat, c % 2 = 0, NEW b \in Int
    PROVE  Double(ScalarTimes(c \div 2, b)) = ScalarTimes(c, b)
  <1>1. (c \div 2) * b \in Int /\ 2 * ((c \div 2) * b) = c * b
    BY Z3
  <1>2. (2 * (((c \div 2) * b) % N)) % N = (2 * ((c \div 2) * b)) % N
    BY <1>1, ModTimes
  <1> QED
    BY <1>1, <1>2 DEF Double, ScalarTimes

(* Adding b to (c-1) * b gives c * b: the FillOdd step. *)
LEMMA AddBase ==
    ASSUME NEW c \in Int, NEW b \in Int
    PROVE  GroupAdd(ScalarTimes(c - 1, b), b) = ScalarTimes(c, b)
  <1>1. (c - 1) * b \in Int /\ (c - 1) * b + b = c * b
    BY Z3
  <1>2. ((((c - 1) * b) % N) + b) % N = ((c - 1) * b + b) % N
    BY <1>1, ModPlus
  <1> QED
    BY <1>1, <1>2 DEF GroupAdd, ScalarTimes

(* 0 * b is the identity and 1 * b is b. *)
LEMMA TimesZeroOne ==
    ASSUME NEW b \in Point
    PROVE  ScalarTimes(0, b) = Identity /\ ScalarTimes(1, b) = b
  BY NAssumption, Z3 DEF ScalarTimes, Identity, Point
-----------------------------------------------------------------------------
(* A multiple of N leaves no remainder. *)
LEMMA MultipleMod ==
    ASSUME NEW t \in Int
    PROVE  (N * t) % N = 0
  <1>1. N * t = t * N + 0 /\ 0 \in 0..(N - 1)
    BY NAssumption, Z3
  <1> QED
    BY <1>1, NAssumption, ModUnique

(* The ring identity behind Euclid's step: from n = q*m + r and            *)
(* a*m = n*s, a*r is again a multiple of n.                                *)
LEMMA EuclidStep ==
    ASSUME NEW a \in Int, NEW m \in Int, NEW r \in Int, NEW q \in Int,
           NEW s \in Int, NEW n \in Int,
           n = q * m + r, a * m = n * s
    PROVE  a * r = n * (a - q * s)
  <1>1. a * r = a * n - q * (a * m)
    BY Z3
  <1> QED
    BY <1>1, Z3

(***************************************************************************)
(* The group order is prime, so no product of two non-zero multipliers    *)
(* below it vanishes (Euclid's lemma).  The proof takes the least x with  *)
(* a * x = 0 mod N, shows that it divides N, and so is 1 or N.           *)
(***************************************************************************)
LEMMA NoZeroDivisors ==
    ASSUME NEW a \in 1..(N - 1), NEW b \in 1..(N - 1)
    PROVE  (a * b) % N # 0
<1> SUFFICES ASSUME (a * b) % N = 0 PROVE FALSE
  OBVIOUS
<1> DEFINE T == {x \in 1..(N - 1) : (a * x) % N = 0}
<1>1. T \subseteq Nat /\ T # {}
  OBVIOUS
<1>2. PICK m \in T : \A y \in T : ~(<<y, m>> \in OpToRel(<, Nat))
  BY <1>1, WFMin, NatLessThanWellFounded
<1>3. \A y \in T : ~(y < m)
  BY <1>1, <1>2 DEF OpToRel
<1>4. m \in 1..(N - 1) /\ (a * m) % N = 0
  OBVIOUS
<1> DEFINE r == N % m
           q == N \div m
           s == (a * m) \div N
<1>5. r \in 0..(m - 1) /\ q \in Int /\ N = q * m + r
  BY <1>4, NAssumption, Z3
<1>6. s \in Int /\ a * m = N * s + ((a * m) % N)
  BY <1>4, ModDecomp
<1>7. a * m = N * s
  BY <1>4, <1>6, NAssumption
<1>8. a * r = N * (a - q * s)
  <2>1. /\ a \in Int /\ m \in Int /\ r \in Int /\ q \in Int /\ s \in Int
        /\ N \in Int /\ N = q * m + r /\ a * m = N * s
    BY <1>4, <1>5, <1>6, <1>7, NAssumption
  <2> HIDE DEF r, q, s
  <2> QED
    BY <2>1, EuclidStep
<1>9. (a * r) % N = 0
  BY <1>5, <1>6, <1>8, MultipleMod
<1>10. r = 0
  <2> SUFFICES ASSUME r # 0 PROVE FALSE
    OBVIOUS
  <2>1. r \in T
    BY <1>4, <1>5, <1>9
  <2> QED
    BY <1>3, <1>5, <2>1
<1>11. m = 1
  <2>1. ~(m \in 2..(N - 1))
    BY <1>10, NAssumption DEF IsPrime
  <2> QED
    BY <1>4, <2>1
<1>12. a % N = a
  <2>1. a = 0 * N + a /\ a \in 0..(N - 1)
    BY NAssumption
  <2> QED
    BY <2>1, ModUnique
<1> QED
  BY <1>4, <1>11, <1>12

(* Two products with the same remainder differ by a multiple of n. *)
LEMMA DiffMultiple ==
    ASSUME NEW x1 \in Int, NEW x2 \in Int, NEW b \in Int, NEW n \in Int,
           NEW q1 \in Int, NEW q2 \in Int, NEW z \in Int,
           x1 * b = n * q1 + z, x2 * b = n * q2 + z
    PROVE  (x1 - x2) * b = n * (q1 - q2)
  BY Z3

(* Distinct multipliers below N give distinct multiples of a non-zero point. *)
LEMMA ScalarTimesInjective ==
    ASSUME NEW c1 \in 0..(N - 1), NEW c2 \in 0..(N - 1), c1 # c2,
           NEW b \in Point \ {Identity}
    PROVE  ScalarTimes(c1, b) # ScalarTimes(c2, b)
<1> SUFFICES ASSUME ScalarTimes(c1, b) = ScalarTimes(c2, b) PROVE FALSE
  OBVIOUS
<1>1. b \in 1..(N - 1)
  BY DEF Point, Identity
<1> DEFINE q1 == (c1 * b) \div N
           q2 == (c2 * b) \div N
<1>2. q1 \in Int /\ c1 * b = N * q1 + ((c1 * b) % N)
  BY <1>1, ModDecomp
<1>3. q2 \in Int /\ c2 * b = N * q2 + ((c2 * b) % N)
  BY <1>1, ModDecomp
<1>4. (c1 * b) % N = (c2 * b) % N
  BY DEF ScalarTimes
<1>5. CASE c1 > c2
  <2>1. (c1 - c2) * b = N * (q1 - q2)
    BY <1>1, <1>2, <1>3, <1>4, NAssumption, DiffMultiple
  <2>2. ((c1 - c2) * b) % N = 0
    BY <1>2, <1>3, <2>1, MultipleMod
  <2>3. c1 - c2 \in 1..(N - 1)
    BY <1>5, NAssumption
  <2>. QED
    BY <1>1, <2>2, <2>3, NoZeroDivisors
<1>6. CASE c2 > c1
  <2>1. (c2 - c1) * b = N * (q2 - q1)
    BY <1>1, <1>2, <1>3, <1>4, NAssumption, DiffMultiple
  <2>2. ((c2 - c1) * b) % N = 0
    BY <1>2, <1>3, <2>1, MultipleMod
  <2>3. c2 - c1 \in 1..(N - 1)
    BY <1>6, NAssumption
  <2>. QED
    BY <1>1, <2>2, <2>3, NoZeroDivisors
<1>. QED
  BY <1>5, <1>6
=============================================================================
