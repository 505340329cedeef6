---------------------------- MODULE Preliminaries ----------------------------
(***************************************************************************)
(* What the proofs of several components rest on.  Remainders: the clock,  *)
(* the ring indices and the sizes of the ring's parts are unsigned integers*)
(* that wrap, are masked or rounded.  Induction: a loop of the code over a *)
(* finite range is a recursive function, and what it computes is shown for *)
(* every length of the range.                                              *)
(***************************************************************************)
EXTENDS Integers, WellFoundedInduction, TLAPS

-----------------------------------------------------------------------------
(* Remainders.                                                             *)

(* The remainder of an integer, as unsigned arithmetic takes it.          *)
LEMMA ModRange ==
  ASSUME NEW x \in Int, NEW m \in Nat \ {0}
  PROVE  x % m \in 0..m - 1 /\ x = m * (x \div m) + (x % m) /\ x \div m \in Int
  OBVIOUS

(* A number below the modulus is its own remainder.                        *)
LEMMA ModSmall ==
  ASSUME NEW x \in Nat, NEW m \in Nat \ {0}, x < m
  PROVE  x % m = x
  OBVIOUS

(* A multiple of m that is smaller than m either way is zero.              *)
LEMMA SmallMultiple ==
  ASSUME NEW m \in Nat \ {0}, NEW k \in Int, -m < m * k, m * k < m
  PROVE  k = 0
<1>1. CASE k >= 1
  <2>1. m * k = m * (k - 1) + m /\ m * (k - 1) >= 0
    BY <1>1
  <2> QED
    BY <2>1, <1>1
<1>2. CASE k <= -1
  <2>1. m * k = -(m * (-k - 1)) - m /\ m * (-k - 1) >= 0
    BY <1>2
  <2> QED
    BY <2>1, <1>2
<1> QED
  BY <1>1, <1>2

(* The quotient of natural numbers is a natural number.                    *)
LEMMA QuotientNat ==
  ASSUME NEW x \in Nat, NEW m \in Nat \ {0}
  PROVE  x \div m \in Nat
<1>1. x % m \in 0..m - 1 /\ x = m * (x \div m) + (x % m) /\ x \div m \in Int
  BY ModRange
<1>2. CASE x \div m <= -1
  <2>1. m * (x \div m) = -(m * (-(x \div m) - 1)) - m /\ m * (-(x \div m) - 1) >= 0
    BY <1>1, <1>2
  <2> QED
    BY <1>1, <2>1
<1> QED
  BY <1>1, <1>2

(* Adding a multiple of the modulus changes no remainder.                  *)
LEMMA ModShift ==
  ASSUME NEW x \in Int, NEW j \in Int, NEW m \in Nat \ {0}
  PROVE  (x - m * j) % m = x % m
<1> DEFINE y == x - m * j
           k == (x \div m) - j - (y \div m)
<1>1. /\ x % m \in 0..m - 1 /\ x = m * (x \div m) + (x % m) /\ x \div m \in Int
      /\ y \in Int
  BY ModRange
<1>2. y % m \in 0..m - 1 /\ y = m * (y \div m) + (y % m) /\ y \div m \in Int
  BY <1>1, ModRange
<1>3. k \in Int /\ m * k = m * (x \div m) - m * j - m * (y \div m)
  BY <1>1, <1>2
<1>4. m * k = (y % m) - (x % m)
  BY <1>1, <1>2, <1>3
<1>5. -m < m * k /\ m * k < m
  BY <1>1, <1>2, <1>4
<1> HIDE DEF k
<1>6. k = 0
  BY <1>3, <1>5, SmallMultiple
<1>7. m * k = 0
  BY <1>6
<1> QED
  BY <1>1, <1>2, <1>4, <1>7

(* A mask of a wrapped index is the mask of the index.                     *)
LEMMA ModOfMod ==
  ASSUME NEW x \in Int, NEW s \in Nat \ {0}, NEW m \in Nat \ {0}, m % s = 0
  PROVE  (x % m) % s = x % s
<1> DEFINE q == x \div m
           c == m \div s
<1>1. x % m \in 0..m - 1 /\ x = m * q + (x % m) /\ q \in Int
  BY ModRange
<1>2. m = s * c /\ c \in Int
  BY ModRange
<1> HIDE DEF q, c
<1>3. m * q = s * (c * q) /\ c * q \in Int
  BY <1>1, <1>2
<1>4. x % m = x - s * (c * q)
  BY <1>1, <1>3
<1>5. (x - s * (c * q)) % s = x % s
  BY <1>3, ModShift
<1> QED
  BY <1>4, <1>5

(* The distance of two wrapped indices, when it is less than the modulus.  *)
LEMMA ModDistance ==
  ASSUME NEW a \in Int, NEW b \in Int, NEW m \in Nat \ {0}, b <= a, a - b < m
  PROVE  ((a % m) - (b % m)) % m = a - b
<1> DEFINE j == (a \div m) - (b \div m)
           d == a - b
           y == (a % m) - (b % m)
<1>1. a % m \in 0..m - 1 /\ a = m * (a \div m) + (a % m) /\ a \div m \in Int
  BY ModRange
<1>2. b % m \in 0..m - 1 /\ b = m * (b \div m) + (b % m) /\ b \div m \in Int
  BY ModRange
<1>3. j \in Int /\ m * j = m * (a \div m) - m * (b \div m) /\ d \in Int /\ y \in Int
  BY <1>1, <1>2
<1>4. y = d - m * j
  BY <1>1, <1>2, <1>3
<1> HIDE DEF j, d, y
<1>5. y % m = d % m
  BY <1>3, <1>4, ModShift
<1>6. d % m = d
  BY DEF d
<1> QED
  BY <1>5, <1>6 DEF d, y

(* Adding to a wrapped index.                                              *)
LEMMA ModPlus ==
  ASSUME NEW x \in Int, NEW k \in Int, NEW m \in Nat \ {0}
  PROVE  ((x % m) + k) % m = (x + k) % m
<1> DEFINE q == x \div m
           r == x % m
           y == x + k
<1>1. r \in 0..m - 1 /\ x = m * q + r /\ q \in Int /\ y \in Int
  BY ModRange
<1>2. y = x + k
  OBVIOUS
<1> HIDE DEF q, r, y
<1>3. m * q \in Int
  BY <1>1
<1>4. r + k = y - m * q
  BY <1>1, <1>2, <1>3
<1>5. (y - m * q) % m = y % m
  BY <1>1, ModShift
<1>6. (r + k) % m = y % m
  BY <1>4, <1>5
<1> QED
  BY <1>6 DEF r, y

(* Two indices less than a ring apart that name the same slot are equal.   *)
LEMMA ModInjective ==
  ASSUME NEW a \in Int, NEW b \in Int, NEW m \in Nat \ {0},
         b <= a, a - b < m, a % m = b % m
  PROVE  a = b
<1>1. ((a % m) - (b % m)) % m = a - b
  BY ModDistance
<1>2. a % m \in Int
  BY ModRange
<1>3. 0 % m = 0
  OBVIOUS
<1> QED
  BY <1>1, <1>2, <1>3

(* Quotient and remainder are determined by what they add up to.           *)
LEMMA Quotient ==
  ASSUME NEW m \in Nat \ {0}, NEW q \in Nat, NEW r \in Nat, r < m
  PROVE  (q * m + r) \div m = q /\ (q * m + r) % m = r
<1> DEFINE x == q * m + r
           k == q - (x \div m)
<1>1. x \in Nat /\ x = m * q + r
  OBVIOUS
<1> HIDE DEF x
<1>2. x % m \in 0..m - 1 /\ x = m * (x \div m) + (x % m) /\ x \div m \in Int
  BY <1>1, ModRange
<1>3. k \in Int /\ m * k = m * q - m * (x \div m)
  BY <1>2
<1>4. -m < m * k /\ m * k < m
  BY <1>1, <1>2, <1>3
<1>5. k = 0
  BY <1>3, <1>4, SmallMultiple
<1>6. x \div m = q
  BY <1>5, <1>2
<1> QED
  BY <1>1, <1>2, <1>6 DEF x

(* Rounding up to a multiple, as ((x - 1) / m + 1) * m.                    *)
LEMMA RoundUp ==
  ASSUME NEW x \in Nat \ {0}, NEW m \in Nat \ {0}
  PROVE  LET r == ((x - 1) \div m + 1) * m
         IN  r \in Nat /\ x <= r /\ r < x + m /\ r % m = 0
<1> DEFINE y == x - 1
           q == y \div m
           r == (q + 1) * m
<1>0. y \in Nat /\ x = y + 1
  OBVIOUS
<1> HIDE DEF y
<1>1. y % m \in 0..m - 1 /\ y = m * q + (y % m) /\ q \in Int /\ y \in Nat
  BY <1>0, ModRange
<1>2. q \in Nat
  BY <1>1, QuotientNat
<1> HIDE DEF q
<1>3. r = m * q + m /\ r \in Nat
  BY <1>2
<1>4. x <= r /\ r < x + m
  BY <1>0, <1>1, <1>3
<1>5. (0 - m * (-(q + 1))) % m = 0 % m
  BY <1>2, ModShift
<1>6. r = 0 - m * (-(q + 1))
  <2>1. m * (-(q + 1)) = -((q + 1) * m) /\ (q + 1) * m \in Int
    BY <1>2
  <2> QED
    BY <2>1
<1>7. r % m = 0
  BY <1>5, <1>6
<1> QED
  BY <1>3, <1>4, <1>7 DEF q, y

-----------------------------------------------------------------------------
(* Induction.                                                              *)

(* A set of natural numbers that is not empty has a least member.          *)
LEMMA Least ==
  ASSUME NEW S, S \subseteq Nat, S # {}
  PROVE  \E n \in S : \A m \in S : n <= m
<1> DEFINE R == OpToRel(<, Nat)
<1>1. IsWellFoundedOn(R, Nat)
  BY NatLessThanWellFounded
<1>2. \A x, y \in Nat : <<x, y>> \in R <=> x < y
  BY DEF OpToRel
<1> HIDE DEF R
<1>3. PICK x \in S : \A y \in S : ~ (<<y, x>> \in R)
  BY <1>1, WFMin, Zenon
<1>4. \A y \in S : ~ (y < x)
  BY <1>2, <1>3, Zenon
<1>5. \A y \in S : x <= y
  BY <1>4
<1> QED
  BY <1>5, Zenon

(* Induction over the range of a loop, for a set in place of a predicate.  *)
LEMMA SetInduction ==
  ASSUME NEW n \in Nat, NEW S, 0 \in S, \A k \in 1..n : k - 1 \in S => k \in S
  PROVE  0..n \subseteq S
<1> DEFINE B == (0..n) \ S
<1>1. SUFFICES ASSUME B # {} PROVE FALSE
  OBVIOUS
<1>0. B \subseteq Nat
  OBVIOUS
<1>2. PICK b \in B : \A m \in B : b <= m
  <2> HIDE DEF B
  <2> QED BY <1>0, <1>1, Least, Zenon
<1>3. b \in 1..n /\ b - 1 \in 0..n
  BY <1>2
<1> QED
  BY <1>2, <1>3
=============================================================================
