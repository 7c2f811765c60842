--------------------------- MODULE NaturalLemmas ---------------------------
(***************************************************************************)
(* Facts about natural numbers that the proofs of several components need: *)
(* induction, stated of a set instead of a predicate, and remainders.      *)
(***************************************************************************)
EXTENDS Integers, WellFoundedInduction, TLAPS

(* A set of numbers with 0 and every successor has them all.                *)
LEMMA SetInduction ==
  ASSUME NEW S, 0 \in S, \A n \in Nat : n \in S => n + 1 \in S
  PROVE  \A n \in Nat : n \in S
<1> DEFINE T == Nat \ S
           R == OpToRel(<, Nat)
<1>1. \A x, y \in Nat : y < x => <<y, x>> \in R
  BY DEF OpToRel
<1>2. IsWellFoundedOn(R, Nat)
  BY NatLessThanWellFounded
<1> HIDE DEF R
<1>3. ASSUME T # {} PROVE FALSE
  <2>1. PICK x \in T : \A y \in T : ~(<<y, x>> \in R)
    BY <1>2, <1>3, WFMin
  <2>2. x # 0 /\ x - 1 \in Nat /\ x - 1 < x /\ (x - 1) + 1 = x
    OBVIOUS
  <2>3. x - 1 \in S
    BY <1>1, <2>1, <2>2
  <2> QED
    BY <2>2, <2>3
<1> QED
  BY <1>3

(* The same up to a bound.                                                  *)
LEMMA SetInductionTo ==
  ASSUME NEW m \in Nat, NEW S, 0 \in S,
         \A n \in Nat : n < m /\ n \in S => n + 1 \in S
  PROVE  \A n \in 0 .. m : n \in S
<1> DEFINE T == {n \in Nat : n <= m => n \in S}
<1>1. 0 \in T
  OBVIOUS
<1>2. \A n \in Nat : n \in T => n + 1 \in T
  OBVIOUS
<1> HIDE DEF T
<1>3. \A n \in Nat : n \in T
  BY <1>1, <1>2, SetInduction
<1> QED
  BY <1>3 DEF T

LEMMA Least ==
  ASSUME NEW S \in SUBSET Nat, S # {}
  PROVE  \E m \in S : \A n \in S : m <= n
<1> DEFINE T == {n \in Nat : \A s \in S : n <= s}
<1>1. 0 \in T
  OBVIOUS
<1>2. ASSUME \A m \in S : \E n \in S : ~(m <= n) PROVE FALSE
  <2>1. ASSUME NEW n \in Nat, n \in T PROVE n + 1 \in T
    <3>1. n \notin S
      BY <1>2, <2>1
    <3> QED
      BY <2>1, <3>1
  <2> HIDE DEF T
  <2>2. \A n \in Nat : n \in T
    BY <1>1, <2>1, SetInduction
  <2>3. PICK s \in S : TRUE
    OBVIOUS
  <2>4. s + 1 \in T
    BY <2>2
  <2> QED
    BY <2>3, <2>4 DEF T
<1> QED
  BY <1>2

-----------------------------------------------------------------------------
(* Remainders, as an operator that the provers take for what the lemmas say *)
(* of it.                                                                   *)

Rem(n, m) == n % m

LEMMA Division ==
  ASSUME NEW m \in Nat \ {0}, NEW n \in Nat
  PROVE  \E q \in Nat : Rem(n, m) \in 0 .. m - 1 /\ n = m * q + Rem(n, m)
<1>1. n \div m \in Int /\ n \div m >= 0
  OBVIOUS
<1>2. n \div m \in Nat
  <2> DEFINE q == n \div m
  <2> HIDE DEF q
  <2>1. q \in Int /\ q >= 0 => q \in Nat
    OBVIOUS
  <2> QED
    BY <1>1, <2>1 DEF q
<1>3. (n % m) \in 0 .. m - 1
  OBVIOUS
<1>4. n = m * (n \div m) + (n % m)
  OBVIOUS
<1> QED
  BY <1>2, <1>3, <1>4, Zenon DEF Rem

LEMMA RemainderIs ==
  ASSUME NEW m \in Nat \ {0}
  PROVE  \A q \in Int, r \in 0 .. m - 1 : Rem(m * q + r, m) = r
BY DEF Rem

LEMMA SmallRemainder ==
  ASSUME NEW m \in Nat \ {0}, NEW n \in Nat
  PROVE  /\ Rem(n, m) \in 0 .. m - 1
         /\ n < m => Rem(n, m) = n
         /\ m <= n /\ n < 2 * m => Rem(n, m) = n - m
<1>1. ASSUME n < m PROVE Rem(n, m) = n
  <2>1. n \in 0 .. m - 1 /\ n = m * 0 + n /\ 0 \in Int
    BY <1>1
  <2>2. Rem(m * 0 + n, m) = n
    BY <2>1, RemainderIs, Zenon
  <2> QED
    BY <2>1, <2>2, Zenon
<1>2. ASSUME m <= n, n < 2 * m PROVE Rem(n, m) = n - m
  <2>1. n - m \in 0 .. m - 1 /\ n = m * 1 + (n - m) /\ 1 \in Int
    BY <1>2
  <2>2. Rem(m * 1 + (n - m), m) = n - m
    BY <2>1, RemainderIs, Zenon
  <2> QED
    BY <2>1, <2>2, Zenon
<1> QED
  BY <1>1, <1>2, Division

(* Only the remainder of a number counts for the remainder of a sum.        *)
LEMMA RemainderOfSum ==
  ASSUME NEW m \in Nat \ {0}, NEW n \in Nat, NEW d \in Nat
  PROVE  Rem(n + d, m) = Rem(Rem(n, m) + d, m)
<1>1. PICK r \in 0 .. m - 1 : r = Rem(n, m)
  BY Division
<1>2. PICK q \in Nat : n = m * q + r
  BY <1>1, Division
<1>3. r + d \in Nat
  OBVIOUS
<1>4. PICK s \in 0 .. m - 1 : s = Rem(r + d, m)
  BY <1>3, Division
<1>5. PICK p \in Nat : r + d = m * p + s
  BY <1>3, <1>4, Division
<1>6. q + p \in Int /\ m * (q + p) = m * q + m * p
  OBVIOUS
<1> DEFINE u == m * q
           v == m * p
<1>7. u \in Int /\ v \in Int /\ n = u + r /\ r + d = v + s
  BY <1>2, <1>5
<1>8. n + d = m * (q + p) + s
  <2> HIDE DEF u, v
  <2>1. n + d = u + v + s
    BY <1>7
  <2> QED
    BY <1>6, <2>1 DEF u, v
<1>9. Rem(m * (q + p) + s, m) = s
  BY <1>6, RemainderIs, Zenon
<1> QED
  BY <1>1, <1>4, <1>8, <1>9, Zenon
=============================================================================
