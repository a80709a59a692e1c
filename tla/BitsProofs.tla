----------------------------- MODULE BitsProofs -----------------------------
(***************************************************************************)
(* Facts the other proofs rest on: the naturals are well ordered and allow *)
(* induction (stated of a set, so that no operator has to be instantiated),*)
(* the recursion that defines Pow2 has a solution, its values multiply as  *)
(* powers do, and the shifts and masks of module Bits return numbers of    *)
(* the expected size.                                                      *)
(***************************************************************************)
EXTENDS Bits, WellFoundedInduction, TLAPS

(* Every non-empty set of naturals has a least element. *)
LEMMA LeastNatural ==
  ASSUME NEW T \in SUBSET Nat, T # {}
  PROVE  \E m \in T : \A k \in T : m <= k
<1> DEFINE Less == {p \in Nat \X Nat : p[1] < p[2]}
<1>1. IsWellFoundedOn(Less, Nat)
  BY NatLessThanWellFounded DEF OpToRel
<1>2. PICK m \in T : \A k \in T : <<k, m>> \notin Less
  <2> HIDE DEF Less
  <2> QED BY <1>1, WFMin
<1>3. ASSUME NEW k \in T PROVE m <= k
  <2>1. <<k, m>> \notin Less
    BY <1>2
  <2> QED BY <2>1
<1> QED BY <1>3

(* Induction: a set with 0 that is closed under successor up to n holds n. *)
LEMMA NaturalInduction ==
  ASSUME NEW n \in Nat, NEW A \in SUBSET Nat, 0 \in A,
         \A k \in A : k < n => k + 1 \in A
  PROVE  n \in A
<1> SUFFICES ASSUME n \notin A PROVE FALSE
  OBVIOUS
<1> DEFINE Out == {k \in 0 .. n : k \notin A}
<1>1. Out \in SUBSET Nat /\ Out # {}
  OBVIOUS
<1>2. PICK m \in Out : \A k \in Out : m <= k
  BY <1>1, LeastNatural
<1>3. m # 0 /\ m - 1 \in 0 .. n /\ m - 1 \in A
  BY <1>2
<1> QED BY <1>2, <1>3

-----------------------------------------------------------------------------
(* The defining equation of Pow2 has a solution: one is built on 0 .. n    *)
(* for every n by adding a point at a time.                                *)
Doubling(n) ==
  {f \in [0 .. n -> Nat \ {0}] :
      \A i \in 0 .. n : f[i] = IF i = 0 THEN 1 ELSE 2 * f[i - 1]}

LEMMA DoublingExists == \A n \in Nat : Doubling(n) # {}
<1> SUFFICES ASSUME NEW n \in Nat PROVE Doubling(n) # {}
  OBVIOUS
<1> DEFINE A == {k \in Nat : Doubling(k) # {}}
<1>1. 0 \in A
  <2>1. [i \in 0 .. 0 |-> 1] \in Doubling(0)
    BY DEF Doubling
  <2> QED BY <2>1
<1>2. ASSUME NEW k \in A, k < n PROVE k + 1 \in A
  <2>1. PICK f \in Doubling(k) : TRUE
    OBVIOUS
  <2> DEFINE g == [i \in 0 .. k + 1 |-> IF i = k + 1 THEN 2 * f[k] ELSE f[i]]
  <2>2. /\ f \in [0 .. k -> Nat \ {0}]
        /\ \A i \in 0 .. k : f[i] = IF i = 0 THEN 1 ELSE 2 * f[i - 1]
    BY <2>1 DEF Doubling
  <2>3. g \in [0 .. k + 1 -> Nat \ {0}]
    <3>1. \A i \in 0 .. k + 1 : i # k + 1 => i \in 0 .. k
      OBVIOUS
    <3>2. f[k] \in Nat \ {0}
      BY <2>2
    <3> QED BY <2>2, <3>1, <3>2
  <2>4. ASSUME NEW i \in 0 .. k + 1
        PROVE  g[i] = IF i = 0 THEN 1 ELSE 2 * g[i - 1]
    <3>1. CASE i = k + 1
      BY <3>1
    <3>2. CASE i \in 0 .. k /\ i # 0
      BY <2>2, <3>2
    <3>3. CASE i = 0
      BY <2>2, <3>3
    <3> QED BY <3>1, <3>2, <3>3
  <2>5. g \in Doubling(k + 1)
    <3> HIDE DEF g
    <3> QED BY <2>3, <2>4 DEF Doubling
  <2> QED BY <2>5
<1>3. n \in A
  <2> HIDE DEF A
  <2>1. A \in SUBSET Nat
    BY DEF A
  <2> QED BY <1>1, <1>2, <2>1, NaturalInduction
<1> QED BY <1>3

(* Pow2 satisfies its recursion, and its values are positive. *)
LEMMA Pow2Facts ==
  /\ Pow2 \in [ShiftCount -> Nat \ {0}]
  /\ \A n \in ShiftCount : Pow2[n] = IF n = 0 THEN 1 ELSE 2 * Pow2[n - 1]
<1>1. PICK f \in Doubling(63) : TRUE
  BY DoublingExists
<1>2. /\ f \in [ShiftCount -> Nat \ {0}]
      /\ f = [n \in ShiftCount |-> IF n = 0 THEN 1 ELSE 2 * f[n - 1]]
  BY <1>1 DEF Doubling, ShiftCount
<1>3. Pow2 = [n \in ShiftCount |-> IF n = 0 THEN 1 ELSE 2 * Pow2[n - 1]]
  BY <1>2 DEF Pow2
<1> DEFINE A == {n \in Nat : n \in ShiftCount => Pow2[n] \in Nat \ {0}}
<1>4. ASSUME NEW n \in ShiftCount PROVE Pow2[n] \in Nat \ {0}
  <2>1. 0 \in A
    BY <1>3 DEF ShiftCount
  <2>2. ASSUME NEW k \in A, k < n PROVE k + 1 \in A
    <3>1. k \in ShiftCount /\ k + 1 \in ShiftCount
      BY <2>2 DEF ShiftCount
    <3>2. Pow2[k + 1] = 2 * Pow2[k]
      BY <1>3, <3>1 DEF ShiftCount
    <3> QED BY <2>2, <3>1, <3>2
  <2>3. n \in A
    <3>1. A \in SUBSET Nat /\ n \in Nat
      BY DEF A, ShiftCount
    <3> HIDE DEF A
    <3> QED BY <2>1, <2>2, <3>1, NaturalInduction
  <2> QED BY <2>3
<1> QED BY <1>3, <1>4

(* A product of powers of two is the power of the sum. *)
LEMMA Pow2Sum ==
  ASSUME NEW m \in ShiftCount, NEW n \in ShiftCount, m + n \in ShiftCount
  PROVE  Pow2[m + n] = Pow2[m] * Pow2[n]
<1> DEFINE A == {k \in Nat : m + k \in ShiftCount => Pow2[m + k] = Pow2[m] * Pow2[k]}
<1>1. m \in Nat /\ n \in Nat /\ Pow2[m] \in Nat /\ 0 \in ShiftCount
  BY Pow2Facts DEF ShiftCount
<1>2. 0 \in A
  <2>1. Pow2[0] = 1
    BY <1>1, Pow2Facts
  <2> QED BY <1>1, <2>1
<1>3. ASSUME NEW k \in A, k < n PROVE k + 1 \in A
  <2>1. k + 1 \in ShiftCount /\ m + k \in ShiftCount /\ m + (k + 1) \in ShiftCount
    BY <1>1, <1>3 DEF ShiftCount
  <2>2. Pow2[m + k] = Pow2[m] * Pow2[k]
    BY <2>1
  <2>3. Pow2[k + 1] = 2 * Pow2[k] /\ Pow2[m + (k + 1)] = 2 * Pow2[m + k]
    <3>1. k + 1 # 0 /\ m + (k + 1) # 0 /\ (k + 1) - 1 = k /\ (m + (k + 1)) - 1 = m + k
      BY <1>1
    <3> QED BY <2>1, <3>1, Pow2Facts
  <2>4. Pow2[k] \in Nat
    BY <2>1, Pow2Facts DEF ShiftCount
  <2>5. ASSUME NEW x \in Nat, NEW y \in Nat PROVE 2 * (x * y) = x * (2 * y)
    OBVIOUS
  <2> QED BY <1>1, <2>2, <2>3, <2>4, <2>5
<1>4. n \in A
  <2>1. A \in SUBSET Nat
    OBVIOUS
  <2> HIDE DEF A
  <2> QED BY <1>1, <1>2, <1>3, <2>1, NaturalInduction
<1> QED BY <1>4

(* Division by a product, one factor after the other. *)
LEMMA DivTwice ==
  ASSUME NEW a \in Nat, NEW p \in Nat \ {0}, NEW q \in Nat \ {0}
  PROVE  a \div (p * q) = (a \div p) \div q
<1> DEFINE x == a \div p
           y == x \div q
<1>1. x \in Nat /\ a % p \in 0 .. p - 1 /\ a = p * x + (a % p)
  OBVIOUS
<1>2. y \in Nat /\ x % q \in 0 .. q - 1 /\ x = q * y + (x % q)
  <2> HIDE DEF x
  <2> QED BY <1>1
<1> DEFINE s == a % p
           t == x % q
           u == p * t + s
<1>3. u \in 0 .. p * q - 1
  <2>1. s \in 0 .. p - 1 /\ t \in 0 .. q - 1
    BY <1>1, <1>2
  <2> HIDE DEF s, t
  <2>2. p * t <= p * (q - 1) /\ p * (q - 1) = p * q - p /\ p * t \in Nat
    BY <2>1
  <2> QED BY <2>1, <2>2
<1>4. a = (p * q) * y + u
  <2> HIDE DEF x, y
  <2>1. t \in Nat /\ s \in Nat
    BY <1>1, <1>2
  <2>2. a = p * x + s /\ x = q * y + t
    BY <1>1, <1>2
  <2> HIDE DEF s, t
  <2>3. p * (q * y + t) = (p * q) * y + p * t
    BY <1>2, <2>1
  <2>4. p * x = (p * q) * y + p * t
    BY <2>2, <2>3
  <2>5. (p * q) * y \in Nat /\ p * t \in Nat
    BY <1>2, <2>1
  <2> QED BY <2>1, <2>2, <2>4, <2>5 DEF u
<1>5. ASSUME NEW b \in Nat, NEW m \in Nat \ {0}, NEW c \in Nat, NEW v \in 0 .. m - 1,
             b = m * c + v
      PROVE  b \div m = c
  BY <1>5
<1>6. p * q \in Nat \ {0}
  OBVIOUS
<1> HIDE DEF x, y, u
<1>7. a \div (p * q) = y
  BY <1>2, <1>3, <1>4, <1>5, <1>6
<1> QED BY <1>7 DEF x, y

(* A power of two is no larger than a later one. *)
LEMMA Pow2Grows ==
  ASSUME NEW m \in ShiftCount, NEW n \in ShiftCount, m <= n
  PROVE  Pow2[m] <= Pow2[n]
<1>1. n - m \in ShiftCount /\ m + (n - m) = n
  BY DEF ShiftCount
<1>2. Pow2[n] = Pow2[m] * Pow2[n - m]
  BY <1>1, Pow2Sum
<1>3. Pow2[m] \in Nat \ {0} /\ Pow2[n - m] \in Nat \ {0}
  BY <1>1, Pow2Facts
<1>4. ASSUME NEW p \in Nat \ {0}, NEW q \in Nat \ {0} PROVE p <= p * q
  BY <1>4
<1> QED BY <1>2, <1>3, <1>4

(* A right shift of a natural is a natural. *)
LEMMA ShrType ==
  ASSUME NEW a \in Nat, NEW n \in ShiftCount
  PROVE  Shr(a, n) \in Nat
BY Pow2Facts DEF Shr

(* A left shift of a natural is a natural, and shifting it back undoes it. *)
LEMMA ShlType ==
  ASSUME NEW a \in Nat, NEW n \in ShiftCount
  PROVE  Shl(a, n) \in Nat /\ Shr(Shl(a, n), n) = a
<1>1. Pow2[n] \in Nat \ {0}
  BY Pow2Facts
<1>2. ASSUME NEW p \in Nat \ {0} PROVE a * p \in Nat /\ (a * p) \div p = a
  BY <1>2
<1> QED BY <1>1, <1>2 DEF Shr, Shl

(* A mask of n bits leaves a value below 2^n. *)
LEMMA LowBitsType ==
  ASSUME NEW a \in Nat, NEW n \in ShiftCount
  PROVE  LowBits(a, n) \in 0 .. Pow2[n] - 1
<1>1. Pow2[n] \in Nat \ {0}
  BY Pow2Facts
<1>2. ASSUME NEW p \in Nat \ {0} PROVE a % p \in 0 .. p - 1
  BY <1>2
<1> QED BY <1>1, <1>2 DEF LowBits

(* The high and the low bits of a natural determine it. *)
LEMMA HighAndLowBits ==
  ASSUME NEW a \in Nat, NEW b \in Nat, NEW n \in ShiftCount,
         Shr(a, n) = Shr(b, n), LowBits(a, n) = LowBits(b, n)
  PROVE  a = b
<1>1. Pow2[n] \in Nat \ {0}
  BY Pow2Facts
<1>2. ASSUME NEW p \in Nat \ {0}, a \div p = b \div p, a % p = b % p
      PROVE  a = b
  BY <1>2
<1> QED BY <1>1, <1>2 DEF Shr, LowBits

=============================================================================
