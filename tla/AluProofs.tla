------------------------------ MODULE AluProofs -------------------------------
(***************************************************************************)
(* Lemmas about module Alu, for every width of the machine: what its       *)
(* conversions return, that a set of bits and its word determine each      *)
(* other, that every instruction computes a word, and which word.          *)
(***************************************************************************)
EXTENDS AluReference, BitsProofs

-----------------------------------------------------------------------------
(* The widths as powers of two: a word has four bytes of one size. *)
LEMMA Widths ==
  /\ Pow2[byteBits] \in Nat \ {0}
  /\ byteBits \in ShiftCount /\ byteBits * 2 \in ShiftCount /\ byteBits * 3 \in ShiftCount
  /\ Pow2[byteBits * 2] = Pow2[byteBits] * Pow2[byteBits]
  /\ Pow2[byteBits * 3] = Pow2[byteBits] * Pow2[byteBits * 2]
  /\ Pow2[WordBits] = Pow2[byteBits] * Pow2[byteBits * 3]
<1>1. byteBits \in 1 .. 8
  BY WidthAssumption
<1>2. /\ byteBits \in ShiftCount /\ byteBits * 2 \in ShiftCount
      /\ byteBits * 3 \in ShiftCount /\ WordBits \in ShiftCount
  BY <1>1 DEF ShiftCount, WordBits
<1>3. /\ byteBits * 2 = byteBits + byteBits /\ byteBits * 3 = byteBits + byteBits * 2
      /\ WordBits = byteBits + byteBits * 3
  BY <1>1 DEF WordBits
<1>4. Pow2[byteBits] \in Nat \ {0}
  BY <1>2, Pow2Facts
<1> QED BY <1>2, <1>3, <1>4, Pow2Sum

(* The width of a word, and the halves into which its sign divides it. *)
LEMMA WordWidth ==
  /\ WordBits \in ShiftCount /\ WordBits - 1 \in ShiftCount /\ WordBits \in 4 .. 32
  /\ Pow2[WordBits] \in Nat \ {0} /\ Pow2[WordBits - 1] \in Nat \ {0}
  /\ Pow2[WordBits] = 2 * Pow2[WordBits - 1]
  /\ 0 \in Word
<1>1. WordBits \in 4 .. 32
  BY WidthAssumption DEF WordBits
<1>2. WordBits \in ShiftCount /\ WordBits - 1 \in ShiftCount /\ WordBits # 0
  BY <1>1 DEF ShiftCount
<1>3. Pow2[WordBits] \in Nat \ {0} /\ Pow2[WordBits - 1] \in Nat \ {0}
  BY <1>2, Pow2Facts
<1> QED BY <1>1, <1>2, <1>3, Pow2Facts DEF Word

LEMMA WrapType == ASSUME NEW x \in Int PROVE Wrap(x) \in Word
<1>1. Pow2[WordBits] \in Nat \ {0}
  BY WordWidth
<1>2. ASSUME NEW p \in Nat \ {0} PROVE x % p \in 0 .. p - 1
  BY <1>2
<1> QED BY <1>1, <1>2 DEF Wrap, Word

LEMMA WrapIdentity == ASSUME NEW x \in Word PROVE Wrap(x) = x
<1>1. Pow2[WordBits] \in Nat \ {0}
  BY WordWidth
<1>2. ASSUME NEW p \in Nat \ {0}, x \in 0 .. p - 1 PROVE x % p = x
  BY <1>2
<1> QED BY <1>1, <1>2 DEF Wrap, Word

(* Two's complement of n bits: the range, and the pattern it stands for. *)
LEMMA SignedRange ==
  ASSUME NEW n \in 1 .. 63, NEW a \in 0 .. Pow2[n] - 1
  PROVE  /\ Signed(a, n) \in -Pow2[n - 1] .. Pow2[n - 1] - 1
         /\ Signed(a, n) \in Int
<1>1. n \in ShiftCount /\ n - 1 \in ShiftCount /\ n # 0
  BY DEF ShiftCount
<1>2. Pow2[n - 1] \in Nat \ {0} /\ Pow2[n] = 2 * Pow2[n - 1]
  BY <1>1, Pow2Facts
<1> QED BY <1>2 DEF Signed

LEMMA SIntRange ==
  ASSUME NEW a \in Word
  PROVE  SInt(a) \in Int /\ SInt(a) \in -Pow2[WordBits - 1] .. Pow2[WordBits - 1] - 1
<1>1. WordBits \in 1 .. 63
  BY WordWidth
<1> QED BY <1>1, SignedRange DEF SInt, Word

-----------------------------------------------------------------------------
(***************************************************************************)
(* Sets of bits.  The sum that FromBits forms has a solution for every set *)
(* of positions, and bit i of it is 1 exactly if i is in the set.          *)
(***************************************************************************)
BitSums(S, n) ==
  {f \in [0 .. n -> Nat] :
      \A k \in 0 .. n :
          f[k] = IF k = 0 THEN 0
                 ELSE f[k - 1] + IF k - 1 \in S THEN Pow2[k - 1] ELSE 0}

LEMMA BitSumsExist ==
  ASSUME NEW S, NEW n \in 0 .. WordBits
  PROVE  BitSums(S, n) # {}
<1> DEFINE A == {k \in Nat : k <= WordBits => BitSums(S, k) # {}}
<1>1. 0 \in A
  <2>1. [k \in 0 .. 0 |-> 0] \in BitSums(S, 0)
    BY DEF BitSums
  <2> QED BY <2>1
<1>2. ASSUME NEW k \in A, k < n PROVE k + 1 \in A
  <2>1. k \in ShiftCount /\ k <= WordBits /\ k \in Nat
    BY <1>2, WordWidth DEF ShiftCount
  <2>2. PICK f \in BitSums(S, k) : TRUE
    BY <2>1
  <2> DEFINE new == f[k] + IF k \in S THEN Pow2[k] ELSE 0
             g == [i \in 0 .. k + 1 |-> IF i = k + 1 THEN new ELSE f[i]]
  <2>3. /\ f \in [0 .. k -> Nat]
        /\ \A i \in 0 .. k :
              f[i] = IF i = 0 THEN 0
                     ELSE f[i - 1] + IF i - 1 \in S THEN Pow2[i - 1] ELSE 0
    BY <2>2 DEF BitSums
  <2>4. new \in Nat
    BY <2>1, <2>3, Pow2Facts
  <2>5. g \in [0 .. k + 1 -> Nat]
    <3>1. \A i \in 0 .. k + 1 : i # k + 1 => i \in 0 .. k
      BY <2>1
    <3> HIDE DEF new
    <3> QED BY <2>3, <2>4, <3>1
  <2>6. ASSUME NEW i \in 0 .. k + 1
        PROVE  g[i] = IF i = 0 THEN 0
                      ELSE g[i - 1] + IF i - 1 \in S THEN Pow2[i - 1] ELSE 0
    <3>1. CASE i = k + 1
      <4>1. i # 0 /\ i - 1 = k /\ g[i - 1] = f[k] /\ g[i] = new
        BY <2>1, <3>1
      <4> QED BY <4>1
    <3>2. CASE i \in 0 .. k /\ i # 0
      <4>1. g[i] = f[i] /\ g[i - 1] = f[i - 1]
        BY <2>1, <3>2
      <4> QED BY <2>3, <3>2, <4>1
    <3>3. CASE i = 0
      BY <2>1, <2>3, <3>3
    <3> QED BY <2>1, <3>1, <3>2, <3>3
  <2>7. g \in BitSums(S, k + 1)
    <3> HIDE DEF g
    <3> QED BY <2>5, <2>6 DEF BitSums
  <2> QED BY <2>1, <2>7
<1>3. n \in A
  <2>1. A \in SUBSET Nat /\ n \in Nat
    BY WordWidth DEF A
  <2> HIDE DEF A
  <2> QED BY <1>1, <1>2, <2>1, NaturalInduction
<1> QED BY <1>3

(* What FromBits returns is the last value of such a sum. *)
LEMMA FromBitsSum ==
  ASSUME NEW S
  PROVE  \E f \in BitSums(S, WordBits) : FromBits(S) = f[WordBits]
<1> DEFINE Step(f) == [n \in 0 .. WordBits |->
                          IF n = 0 THEN 0
                          ELSE f[n - 1] + IF n - 1 \in S THEN Pow2[n - 1] ELSE 0]
           sum == CHOOSE f : f = Step(f)
<1>1. FromBits(S) = sum[WordBits]
  BY DEF FromBits
<1>2. PICK f \in BitSums(S, WordBits) : TRUE
  BY BitSumsExist, WordWidth
<1>3. f = Step(f)
  BY <1>2 DEF BitSums
<1>4. sum = Step(sum)
  BY <1>3
<1>5. sum[WordBits] = f[WordBits]
  <2> DEFINE A == {n \in Nat : n <= WordBits => sum[n] = f[n]}
  <2>1. \A n \in 0 .. WordBits : sum[n] = Step(sum)[n] /\ f[n] = Step(f)[n]
    BY <1>3, <1>4
  <2> HIDE DEF sum
  <2>2. 0 \in A
    BY <2>1, WordWidth
  <2>3. ASSUME NEW k \in A, k < WordBits PROVE k + 1 \in A
    <3>1. k \in 0 .. WordBits /\ k + 1 \in 0 .. WordBits /\ k + 1 # 0 /\ (k + 1) - 1 = k
      BY <2>3, WordWidth
    <3>2. sum[k] = f[k]
      BY <2>3, <3>1
    <3>3. sum[k + 1] = f[k + 1]
      BY <2>1, <3>1, <3>2
    <3> QED BY <3>1, <3>3
  <2>4. WordBits \in A
    <3>1. A \in SUBSET Nat /\ WordBits \in Nat
      BY WordWidth DEF A
    <3> HIDE DEF A
    <3> QED BY <2>2, <2>3, <3>1, NaturalInduction
  <2> QED BY <2>4, WordWidth
<1> QED BY <1>1, <1>2, <1>5

(* A term that is a multiple of 2^(i+1) does not touch bit i. *)
LEMMA HigherBitsDoNotMatter ==
  ASSUME NEW x \in Nat, NEW k \in ShiftCount, NEW i \in ShiftCount, i < k
  PROVE  ((x + Pow2[k]) \div Pow2[i]) % 2 = (x \div Pow2[i]) % 2
<1>1. k - i \in ShiftCount /\ k - i # 0 /\ k - i - 1 \in ShiftCount
      /\ i + (k - i) = k
  BY DEF ShiftCount
<1>2. Pow2[k] = Pow2[i] * Pow2[k - i] /\ Pow2[k - i] = 2 * Pow2[k - i - 1]
  BY <1>1, Pow2Sum, Pow2Facts
<1>3. Pow2[i] \in Nat \ {0} /\ Pow2[k - i - 1] \in Nat
  BY <1>1, Pow2Facts
<1>4. ASSUME NEW p \in Nat \ {0}, NEW q \in Nat PROVE (x + p * (2 * q)) \div p = x \div p + 2 * q
  BY <1>4
<1>5. ASSUME NEW y \in Nat, NEW q \in Nat PROVE (y + 2 * q) % 2 = y % 2
  OBVIOUS
<1>6. x \div Pow2[i] \in Nat
  BY <1>3
<1> QED BY <1>2, <1>3, <1>4, <1>5, <1>6

(* The sum of the first n bits is below 2^n, and has the bits of the set. *)
LEMMA BitSumBits ==
  ASSUME NEW S, NEW f \in BitSums(S, WordBits), NEW n \in 0 .. WordBits
  PROVE  /\ f[n] \in 0 .. Pow2[n] - 1
         /\ \A i \in 0 .. n - 1 : BitField(f[n], i, i) = 1 <=> i \in S
<1> DEFINE Good(k) == /\ f[k] \in 0 .. Pow2[k] - 1
                      /\ \A i \in 0 .. k - 1 : (f[k] \div Pow2[i]) % 2 = 1 <=> i \in S
           A == {k \in Nat : k <= WordBits => Good(k)}
<1>1. /\ f \in [0 .. WordBits -> Nat]
      /\ \A k \in 0 .. WordBits :
            f[k] = IF k = 0 THEN 0
                   ELSE f[k - 1] + IF k - 1 \in S THEN Pow2[k - 1] ELSE 0
  BY DEF BitSums
<1>2. 0 \in A
  <2>1. 0 \in ShiftCount /\ 0 \in 0 .. WordBits
    BY WordWidth DEF ShiftCount
  <2>2. f[0] = 0 /\ Pow2[0] = 1
    BY <1>1, <2>1, Pow2Facts
  <2> QED BY <2>2
<1>3. ASSUME NEW k \in A, k < n PROVE k + 1 \in A
  <2>1. /\ k \in ShiftCount /\ k + 1 \in ShiftCount /\ k \in 0 .. WordBits
        /\ k + 1 \in 0 .. WordBits /\ k + 1 # 0 /\ (k + 1) - 1 = k
    BY <1>3, WordWidth DEF ShiftCount
  <2>2. Good(k)
    BY <2>1
  <2>3. Pow2[k] \in Nat \ {0} /\ Pow2[k + 1] = 2 * Pow2[k] /\ f[k] \in Nat
    BY <1>1, <2>1, Pow2Facts
  <2>4. f[k + 1] = f[k] + IF k \in S THEN Pow2[k] ELSE 0
    BY <1>1, <2>1
  <2>5. f[k + 1] \in 0 .. Pow2[k + 1] - 1
    BY <2>2, <2>3, <2>4
  <2>6. ASSUME NEW i \in 0 .. k PROVE (f[k + 1] \div Pow2[i]) % 2 = 1 <=> i \in S
    <3>1. CASE i = k
      <4>1. ASSUME NEW p \in Nat \ {0}, NEW x \in 0 .. p - 1
            PROVE  (x + p) \div p = 1 /\ x \div p = 0
        BY <4>1
      <4>2. f[k + 1] \div Pow2[k] = IF k \in S THEN 1 ELSE 0
        BY <2>2, <2>3, <2>4, <4>1
      <4> QED BY <3>1, <4>2
    <3>2. CASE i \in 0 .. k - 1
      <4>1. i \in ShiftCount /\ i < k
        BY <2>1, <3>2 DEF ShiftCount
      <4>2. (f[k + 1] \div Pow2[i]) % 2 = (f[k] \div Pow2[i]) % 2
        BY <2>1, <2>3, <2>4, <4>1, HigherBitsDoNotMatter
      <4> QED BY <2>2, <3>2, <4>2
    <3> QED BY <2>1, <3>1, <3>2
  <2> QED BY <2>1, <2>5, <2>6
<1>4. n \in A
  <2>1. A \in SUBSET Nat /\ n \in Nat
    BY WordWidth DEF A
  <2> HIDE DEF A
  <2> QED BY <1>2, <1>3, <2>1, NaturalInduction
<1>5. \A i \in 0 .. n - 1 : BitField(f[n], i, i) = (f[n] \div Pow2[i]) % 2
  <2>1. ASSUME NEW i \in 0 .. n - 1 PROVE i - i + 1 = 1
    BY WordWidth
  <2>2. Pow2[1] = 2
    <3>1. 1 \in ShiftCount /\ 0 \in ShiftCount /\ 1 - 1 = 0 /\ 1 # 0
      BY DEF ShiftCount
    <3>2. Pow2[0] = 1 /\ Pow2[1] = 2 * Pow2[0]
      BY <3>1, Pow2Facts
    <3> QED BY <3>2
  <2> QED BY <2>1, <2>2 DEF BitField, LowBits, Shr
<1> QED BY <1>4, <1>5

LEMMA FromBitsType == ASSUME NEW S PROVE FromBits(S) \in Word
<1>1. PICK f \in BitSums(S, WordBits) : FromBits(S) = f[WordBits]
  BY FromBitsSum
<1>2. WordBits \in 0 .. WordBits
  BY WordWidth
<1> QED BY <1>1, <1>2, BitSumBits DEF Word

(* Position i is in the set exactly if bit i of the word is 1. *)
LEMMA BitOfFromBits ==
  ASSUME NEW S, NEW i \in 0 .. WordBits - 1
  PROVE  BitField(FromBits(S), i, i) = 1 <=> i \in S
<1>1. PICK f \in BitSums(S, WordBits) : FromBits(S) = f[WordBits]
  BY FromBitsSum
<1>2. WordBits \in 0 .. WordBits
  BY WordWidth
<1> QED BY <1>1, <1>2, BitSumBits

-----------------------------------------------------------------------------
(***************************************************************************)
(* The tables of the instructions, and the words that they compute.        *)
(***************************************************************************)
LEMMA RtypeNames ==
  ASSUME NEW op \in DOMAIN RtypeName
  PROVE  RtypeName[op] \in {"add", "sub", "mul", "mulh", "mulsu", "mulu", "sll", "srl", "sra",
                            "slt", "sltu", "xor", "or", "and", "div", "divu", "rem", "remu"}
<1>1. CASE op \in (0 .. 7) \X {0}
  BY <1>1 DEF RtypeName
<1>2. CASE op \in (0 .. 7) \X {1}
  BY <1>2 DEF RtypeName
<1>3. CASE op \in {<<0, 32>>, <<5, 32>>}
  BY <1>3 DEF RtypeName
<1> QED BY <1>1, <1>2, <1>3 DEF RtypeName

LEMMA BranchNames ==
  ASSUME NEW funct3 \in DOMAIN BranchName
  PROVE  BranchName[funct3] \in {"beq", "bne", "blt", "bge", "bltu", "bgeu"}
BY DEF BranchName

LEMMA LoadNames ==
  ASSUME NEW funct3 \in DOMAIN LoadName
  PROVE  LoadName[funct3] \in {"lb", "lh", "lw", "lbu", "lhu"}
BY DEF LoadName

LEMMA StoreNames ==
  ASSUME NEW funct3 \in DOMAIN StoreName
  PROVE  StoreName[funct3] \in {"sb", "sh", "sw"}
BY DEF StoreName

(* A word has at least four bits. *)
LEMMA FourIsWord == 4 \in Word
<1>1. 3 \in ShiftCount /\ 2 \in ShiftCount /\ 1 \in ShiftCount /\ 0 \in ShiftCount
  BY DEF ShiftCount
<1>2. Pow2[0] = 1 /\ Pow2[1] = 2 * Pow2[0] /\ Pow2[2] = 2 * Pow2[1] /\ Pow2[3] = 2 * Pow2[2]
  <2>1. 1 - 1 = 0 /\ 2 - 1 = 1 /\ 3 - 1 = 2 /\ 1 # 0 /\ 2 # 0 /\ 3 # 0
    OBVIOUS
  <2>2. \A n \in ShiftCount : Pow2[n] = IF n = 0 THEN 1 ELSE 2 * Pow2[n - 1]
    BY Pow2Facts
  <2> QED BY <1>1, <2>1, <2>2, Zenon
<1>3. Pow2[3] <= Pow2[WordBits]
  BY <1>1, WordWidth, Pow2Grows
<1> QED BY <1>2, <1>3, WordWidth DEF Word

LEMMA TruthIsWord == ASSUME NEW p PROVE Truth(p) \in Word
<1>1. 1 \in Word
  BY WordWidth DEF Word
<1> QED BY <1>1, WordWidth DEF Truth

(* The count of a shift is below the width of a word. *)
LEMMA CountRange == ASSUME NEW b \in Nat PROVE Count(b) \in 0 .. WordBits - 1 /\ Count(b) \in ShiftCount
<1>1. shamtBits \in ShiftCount /\ Pow2[shamtBits] = WordBits
  BY WidthAssumption DEF ShiftCount, WordBits
<1>2. Count(b) \in 0 .. WordBits - 1
  BY <1>1, LowBitsType DEF Count
<1> QED BY <1>2, WordWidth DEF ShiftCount

LEMMA ShrInt == ASSUME NEW x \in Int, NEW n \in ShiftCount PROVE Shr(x, n) \in Int
<1>1. Pow2[n] \in Nat \ {0}
  BY Pow2Facts
<1>2. ASSUME NEW p \in Nat \ {0} PROVE x \div p \in Int
  BY <1>2
<1> QED BY <1>1, <1>2 DEF Shr

(* A right shift brings a word no further from zero. *)
LEMMA ShrWord == ASSUME NEW a \in Word, NEW n \in ShiftCount PROVE Shr(a, n) \in Word
<1>1. Pow2[n] \in Nat \ {0} /\ Pow2[WordBits] \in Nat
  BY Pow2Facts, WordWidth
<1>2. ASSUME NEW p \in Nat \ {0}, NEW x \in Nat PROVE x \div p \in 0 .. x
  BY <1>2
<1>3. a \in Nat /\ Shr(a, n) \in 0 .. a
  BY <1>1, <1>2 DEF Word, Shr
<1> QED BY <1>1, <1>3 DEF Word

LEMMA BitOperationsAreWords ==
  ASSUME NEW a, NEW b PROVE And(a, b) \in Word /\ Or(a, b) \in Word /\ Xor(a, b) \in Word
BY FromBitsType DEF And, Or, Xor

(* The sign of a word is not lost, nor does it make another word zero. *)
LEMMA SIntZero == ASSUME NEW a \in Word PROVE SInt(a) = 0 <=> a = 0
BY WordWidth DEF SInt, Signed, Word

LEMMA QuotientType ==
  ASSUME NEW x \in Int, NEW y \in Int, y # 0
  PROVE  Quotient(x, y) \in Int /\ Remainder(x, y) \in Int
<1>1. Abs(x) \in Nat /\ Abs(y) \in Nat \ {0}
  BY DEF Abs
<1>2. ASSUME NEW p \in Nat, NEW q \in Nat \ {0} PROVE p \div q \in Int
  BY <1>2
<1>3. Quotient(x, y) \in Int
  BY <1>1, <1>2 DEF Quotient
<1>4. ASSUME NEW q \in Int PROVE x - y * q \in Int
  OBVIOUS
<1> QED BY <1>3, <1>4 DEF Remainder

(* An R-type instruction that does not fault writes a word. *)
LEMMA RtypeIsWord ==
  ASSUME NEW a \in Word, NEW b \in Word, NEW op \in DOMAIN RtypeName,
         ~DivisionFaults(RtypeName[op], a, b)
  PROVE  rtype_value(RtypeName[op], a, b) \in Word
<1> DEFINE name == RtypeName[op]
<1>1. name \in {"add", "sub", "mul", "mulh", "mulsu", "mulu", "sll", "srl", "sra",
                "slt", "sltu", "xor", "or", "and", "div", "divu", "rem", "remu"}
  BY RtypeNames
<1>2. ~DivisionFaults(name, a, b)
  OBVIOUS
<1> SUFFICES rtype_value(name, a, b) \in Word
  OBVIOUS
<1> HIDE DEF name
<1>3. a \in Nat /\ b \in Nat /\ SInt(a) \in Int /\ SInt(b) \in Int /\ Count(b) \in ShiftCount
  BY WordWidth, SIntRange, CountRange DEF Word
<1>4. CASE name \in {"add", "sub", "mul"}
  <2>1. /\ SInt(a) + SInt(b) \in Int /\ SInt(a) - SInt(b) \in Int
        /\ SInt(a) * SInt(b) \in Int
    BY <1>3
  <2> QED BY <1>4, <2>1, WrapType DEF rtype_value
<1>5. CASE name \in {"mulh", "mulsu", "mulu"}
  <2>1. a * b \in Nat
    BY <1>3
  <2>2. Shr(a * b, WordBits) \in Int
    BY <2>1, ShrInt, WordWidth
  <2> QED BY <1>5, <2>2, WrapType DEF rtype_value
<1>6. CASE name \in {"sll", "srl", "sra"}
  <2>1. Shl(a, Count(b)) \in Int /\ Shr(SInt(a), Count(b)) \in Int
    BY <1>3, ShrInt, ShlType
  <2> QED BY <1>6, <2>1, WrapType DEF rtype_value
<1>7. CASE name \in {"slt", "sltu"}
  BY <1>7, TruthIsWord DEF rtype_value
<1>8. CASE name \in {"xor", "or", "and"}
  BY <1>8, BitOperationsAreWords DEF rtype_value
<1>9. CASE name \in {"div", "rem", "divu", "remu"}
  <2>1. b # 0
    BY <1>2, <1>9 DEF DivisionFaults
  <2>2. SInt(b) # 0
    BY <2>1, SIntZero
  <2>3. CASE name \in {"div", "rem"}
    <3>1. Quotient(SInt(a), SInt(b)) \in Int /\ Remainder(SInt(a), SInt(b)) \in Int
      BY <1>3, <2>2, QuotientType
    <3> QED BY <2>3, <3>1, WrapType DEF rtype_value
  <2>4. CASE name \in {"divu", "remu"}
    <3>1. ASSUME NEW x \in Nat, NEW y \in Nat \ {0} PROVE x \div y \in 0 .. x /\ x % y \in 0 .. y - 1
      BY <3>1
    <3>2. a \div b \in 0 .. a /\ a % b \in 0 .. b - 1
      BY <1>3, <2>1, <3>1
    <3>3. a \div b \in Word /\ a % b \in Word
      BY <1>3, <3>2, WordWidth DEF Word
    <3> QED BY <2>4, <3>3 DEF rtype_value
  <2> QED BY <1>9, <2>3, <2>4
<1> QED BY <1>1, <1>4, <1>5, <1>6, <1>7, <1>8, <1>9

Immediates == 0 .. Pow2[immBits] - 1

(* An immediate is a word, and its sign extension an integer. *)
LEMMA ImmediateType ==
  ASSUME NEW imm \in Immediates
  PROVE  imm \in Nat /\ imm \in Word /\ sign_extend_number(imm, immBits) \in Int
<1>1. immBits \in 1 .. 63 /\ immBits \in ShiftCount /\ immBits <= WordBits
  BY WidthAssumption DEF ShiftCount, WordBits
<1>2. Pow2[immBits] \in Nat \ {0}
  BY <1>1, Pow2Facts
<1>3. imm \in Nat /\ LowBits(imm, immBits) \in 0 .. Pow2[immBits] - 1
  BY <1>1, <1>2, LowBitsType DEF Immediates
<1>4. Pow2[immBits] <= Pow2[WordBits]
  BY <1>1, WordWidth, Pow2Grows
<1>5. imm \in Word
  BY <1>2, <1>3, <1>4, WordWidth DEF Immediates, Word
<1>6. Signed(LowBits(imm, immBits), immBits) \in Int
  BY <1>1, <1>3, SignedRange
<1> QED BY <1>3, <1>5, <1>6 DEF sign_extend_number

(* An I-type instruction that is valid writes a word. *)
LEMMA ItypeIsWord ==
  ASSUME NEW a \in Word, NEW funct3 \in 0 .. 7, NEW imm \in Immediates,
         ItypeName(funct3, imm) # "invalid"
  PROVE  itype_value(ItypeName(funct3, imm), a, imm) \in Word
<1> DEFINE name == ItypeName(funct3, imm)
           simm == sign_extend_number(imm, immBits)
<1>1. name \in {"addi", "slli", "slti", "sltiu", "xori", "srli", "srai", "ori", "andi"}
  BY DEF ItypeName
<1> SUFFICES itype_value(name, a, imm) \in Word
  OBVIOUS
<1> HIDE DEF name
<1>2. /\ a \in Nat /\ SInt(a) \in Int /\ imm \in Nat /\ simm \in Int
      /\ Count(imm) \in ShiftCount
  BY WordWidth, SIntRange, ImmediateType, CountRange DEF Word
<1>3. CASE name = "addi"
  <2>1. SInt(a) + simm \in Int
    BY <1>2
  <2> QED BY <1>3, <2>1, WrapType DEF itype_value
<1>4. CASE name \in {"slli", "srli", "srai"}
  <2>1. Count(imm) = LowBits(imm, shamtBits)
    BY DEF Count
  <2>2. Shl(a, Count(imm)) \in Int /\ Shr(SInt(a), Count(imm)) \in Int
    BY <1>2, ShrInt, ShlType
  <2> QED BY <1>2, <1>4, <2>1, <2>2, ShrWord, WrapType DEF itype_value
<1>5. CASE name \in {"slti", "sltiu"}
  BY <1>5, TruthIsWord DEF itype_value
<1>6. CASE name \in {"xori", "ori", "andi"}
  BY <1>6, BitOperationsAreWords DEF itype_value
<1> QED BY <1>1, <1>3, <1>4, <1>5, <1>6

-----------------------------------------------------------------------------
(* The casts.  A word and its signed reading are congruent, and a number   *)
(* of the signed range survives the conversion to a word and back.         *)
LEMMA Casts ==
  ASSUME NEW x \in Word
  PROVE  /\ x \in Nat /\ SInt(x) \in Int
         /\ SInt(x) \in {x, x - Pow2[WordBits]}
         /\ SInt(x) < 0 <=> x >= Pow2[WordBits - 1]
         /\ SInt(x) >= 0 => SInt(x) = x
         /\ Ref!S(x) = SInt(x)
BY WordWidth DEF SInt, Signed, Word, Ref!S

LEMMA CastBack ==
  ASSUME NEW x \in -Pow2[WordBits - 1] .. Pow2[WordBits - 1] - 1
  PROVE  /\ Wrap(x) \in Word /\ SInt(Wrap(x)) = x /\ Ref!S(Wrap(x)) = x
         /\ Wrap(x) = IF x < 0 THEN x + Pow2[WordBits] ELSE x
<1>1. Wrap(x) = IF x < 0 THEN x + Pow2[WordBits] ELSE x
  <2>1. ASSUME NEW p \in Nat \ {0}, NEW y \in -p .. p - 1
        PROVE  y % p = IF y < 0 THEN y + p ELSE y
    <3>1. CASE y < 0
      BY <2>1, <3>1
    <3>2. CASE y >= 0
      BY <2>1, <3>2
    <3> QED BY <2>1, <3>1, <3>2
  <2>2. x \in -Pow2[WordBits] .. Pow2[WordBits] - 1
    BY WordWidth
  <2> QED BY <2>1, <2>2, WordWidth DEF Wrap
<1>2. Wrap(x) \in Word
  BY WrapType, WordWidth
<1> QED BY <1>1, <1>2, WordWidth DEF SInt, Signed, Word, Ref!S

(* What is cut to a word is congruent to what is not. *)
LEMMA Cut ==
  ASSUME NEW x \in Int, NEW y \in Int, NEW k \in Int, x = y + k * Pow2[WordBits]
  PROVE  Ref!Holds(Wrap(x), y)
<1>1. ASSUME NEW p \in Nat \ {0}, NEW m \in Int, NEW u \in Int, NEW v \in Int, u = v + m * p
      PROVE  ((u % p) - v) % p = 0
  <2>1. u = p * (u \div p) + (u % p)
    <3>1. ASSUME NEW n \in Int PROVE n = p * (n \div p) + (n % p)
      BY <1>1
    <3> QED BY <1>1, <3>1
  <2> DEFINE q == u \div p
             w == u % p
  <2>2. q \in Int /\ w \in Int
    BY <1>1
  <2> HIDE DEF q, w
  <2>3. u = p * q + w
    BY <2>1 DEF q, w
  <2>4. w - v = p * (m - q)
    <3>1. p * (m - q) = p * m - p * q
      BY <1>1, <2>2
    <3>2. p * m = m * p /\ p * m \in Int /\ p * q \in Int
      BY <1>1, <2>2
    <3> QED BY <1>1, <2>2, <2>3, <3>1, <3>2
  <2>5. m - q \in Int
    BY <2>2
  <2>6. ASSUME NEW c \in Int PROVE (p * c) % p = 0
    BY <1>1
  <2>7. (w - v) % p = 0
    BY <2>4, <2>5, <2>6
  <2> QED BY <2>7 DEF w
<1> QED BY <1>1, WordWidth DEF Wrap, Ref!Holds

-----------------------------------------------------------------------------
(***************************************************************************)
(* What the operators of Alu compute, in the terms of the comments.  The   *)
(* second operand is a register or an extended immediate: any word.        *)
(***************************************************************************)
LEMMA SumsComputed ==
  ASSUME NEW x \in Word, NEW y \in Word
  PROVE  /\ Ref!Computes("add", x, y, Wrap(SInt(x) + SInt(y)))
         /\ Ref!Computes("add", x, y, Wrap(x + y))
         /\ Ref!Computes("sub", x, y, Wrap(SInt(x) - SInt(y)))
         /\ Ref!Computes("sub", x, y, Wrap(x - y))
         /\ Ref!Computes("mul", x, y, Wrap(SInt(x) * SInt(y)))
<1> DEFINE P == Pow2[WordBits]
<1>1. /\ x \in Nat /\ y \in Nat /\ SInt(x) \in Int /\ SInt(y) \in Int /\ P \in Nat
      /\ SInt(x) = x \/ SInt(x) = x - P
      /\ SInt(y) = y \/ SInt(y) = y - P
      /\ Ref!S(x) = SInt(x) /\ Ref!S(y) = SInt(y)
  BY Casts, WordWidth
<1>2. ASSUME NEW p \in Int, NEW u \in {x, x - p}, NEW v \in {y, y - p}
      PROVE  /\ \E k \in {0, 1, 2} : x + y = (u + v) + k * p
             /\ \E k \in {0, 1, -1} : x - y = (u - v) + k * p
  BY <1>1
<1>3. /\ SInt(x) + SInt(y) \in Int /\ SInt(x) - SInt(y) \in Int /\ SInt(x) * SInt(y) \in Int
      /\ x + y \in Int /\ x - y \in Int
      /\ \A z \in Int : z = z + 0 * P
  BY <1>1
<1>4. /\ Ref!Holds(Wrap(x + y), SInt(x) + SInt(y))
      /\ Ref!Holds(Wrap(x - y), SInt(x) - SInt(y))
  <2>1. PICK k \in {0, 1, 2} : x + y = (SInt(x) + SInt(y)) + k * P
    BY <1>1, <1>2
  <2>2. PICK m \in {0, 1, -1} : x - y = (SInt(x) - SInt(y)) + m * P
    BY <1>1, <1>2
  <2>3. k \in Int /\ m \in Int
    OBVIOUS
  <2> QED BY <1>3, <2>1, <2>2, <2>3, Cut
<1>5. ASSUME NEW z \in Int PROVE Ref!Holds(Wrap(z), z)
  <2>1. 0 \in Int /\ z = z + 0 * P
    BY <1>1
  <2> QED BY <2>1, Cut
<1> HIDE DEF P
<1> QED BY <1>1, <1>3, <1>4, <1>5 DEF Ref!Computes

(* The high word of a product of two numbers below h is below h. *)
LEMMA HighWord ==
  ASSUME NEW p \in Nat \ {0}, NEW h \in 1 .. p,
         NEW x \in 0 .. h - 1, NEW y \in 0 .. p - 1
  PROVE  (x * y) \div p \in 0 .. h - 1
<1>1. x * y \in Nat /\ x * y <= x * p /\ x * p < h * p /\ h * p \in Nat
  <2>1. ASSUME NEW u \in Nat, NEW v \in Nat, NEW w \in Nat, u <= v
        PROVE  w * u <= w * v /\ w * u \in Nat /\ w * v \in Nat
    BY <2>1
  <2>2. x * y <= x * p /\ x * y \in Nat
    BY <2>1
  <2>3. p * (x + 1) <= p * h /\ p * (x + 1) = x * p + p /\ p * h = h * p
    BY <2>1
  <2>4. x * p \in Nat /\ h * p \in Nat
    BY <2>1
  <2> QED BY <2>2, <2>3, <2>4
<1>2. ASSUME NEW n \in Nat, n < h * p PROVE n \div p \in 0 .. h - 1
  BY <1>2
<1> QED BY <1>1, <1>2

LEMMA HighProductsComputed ==
  ASSUME NEW x \in Word, NEW y \in Word
  PROVE  LET d == Wrap(Shr(x * y, WordBits)) IN
         /\ Ref!Computes("mulu", x, y, d)
         /\ SInt(x) >= 0 => Ref!Computes("mulsu", x, y, d)
         /\ SInt(x) >= 0 /\ SInt(y) >= 0 => Ref!Computes("mulh", x, y, d)
<1> DEFINE q == (x * y) \div Pow2[WordBits]
<1>1. Shr(x * y, WordBits) = q
  BY DEF Shr
<1>2. q \in Word
  <2>1. Pow2[WordBits] \in 1 .. Pow2[WordBits]
    BY WordWidth
  <2> QED BY <2>1, HighWord, WordWidth DEF Word
<1>3. Wrap(q) = q
  BY <1>2, WrapIdentity
<1>4. Ref!Computes("mulu", x, y, q)
  BY DEF Ref!Computes
<1>5. ASSUME SInt(x) >= 0
      PROVE  Ref!S(x) = x /\ Ref!S(q) = q
  <2>1. SInt(x) = x
    BY <1>5, Casts
  <2>2. x \in 0 .. Pow2[WordBits - 1] - 1 /\ y \in 0 .. Pow2[WordBits] - 1
    BY <2>1, SIntRange, WordWidth DEF Word
  <2>3. q \in 0 .. Pow2[WordBits - 1] - 1
    <3>1. Pow2[WordBits] \in Nat \ {0} /\ Pow2[WordBits - 1] \in 1 .. Pow2[WordBits]
      BY WordWidth
    <3> QED BY <2>2, <3>1, HighWord
  <2>4. Ref!S(q) = q
    BY <2>3, WordWidth DEF Ref!S
  <2> QED BY <2>1, <2>4, Casts
<1>6. SInt(x) >= 0 => Ref!Computes("mulsu", x, y, q)
  BY <1>5 DEF Ref!Computes
<1>7. ASSUME SInt(x) >= 0, SInt(y) >= 0
      PROVE  Ref!Computes("mulh", x, y, q)
  <2>1. Ref!S(y) = y
    BY <1>7, Casts
  <2> QED BY <1>5, <1>7, <2>1 DEF Ref!Computes
<1> QED BY <1>1, <1>3, <1>4, <1>6, <1>7

(* A shift reads the count modulo the width of a word. *)
LEMMA ShiftsComputed ==
  ASSUME NEW x \in Word, NEW y \in Word
  PROVE  /\ Ref!Computes("sll", x, y, Wrap(Shl(x, Count(y))))
         /\ Ref!Computes("srl", x, y, Shr(x, Count(y)))
         /\ Ref!Computes("sra", x, y, Wrap(Shr(SInt(x), Count(y))))
         /\ SInt(x) >= 0 => Ref!Computes("srl", x, y, Wrap(Shr(SInt(x), Count(y))))
<1> DEFINE shift == Pow2[Count(y)]
<1>1. /\ x \in Nat /\ y \in Nat /\ SInt(x) \in Int
      /\ shift \in Nat \ {0} /\ Count(y) \in ShiftCount
  BY Casts, CountRange, Pow2Facts
<1>2. Pow2[y % WordBits] = shift
  BY WidthAssumption DEF Count, LowBits, WordBits
<1>3. /\ Shl(x, Count(y)) = x * shift /\ Shr(x, Count(y)) = x \div shift
      /\ Shr(SInt(x), Count(y)) = SInt(x) \div shift
  BY DEF Shl, Shr
<1> HIDE DEF shift
<1>4. Ref!Computes("sll", x, y, Wrap(x * shift))
  <2>1. x * shift \in Int /\ 0 \in Int /\ x * shift = x * shift + 0 * Pow2[WordBits]
    BY <1>1, WordWidth
  <2>2. Ref!Holds(Wrap(x * shift), x * shift)
    BY <2>1, Cut
  <2> QED BY <1>2, <2>2 DEF Ref!Computes
<1>5. Ref!Computes("srl", x, y, x \div shift)
  BY <1>2 DEF Ref!Computes
<1>6. Ref!Computes("sra", x, y, Wrap(SInt(x) \div shift))
  <2>1. ASSUME NEW h \in Nat, NEW u \in -h .. h - 1, NEW p \in Nat \ {0}
        PROVE  u \div p \in -h .. h - 1
    <3>1. CASE u >= 0
      <4>1. u \div p \in 0 .. u
        BY <2>1, <3>1
      <4> QED BY <2>1, <4>1
    <3>2. CASE u < 0
      <4>1. u \div p \in u .. -1
        BY <2>1, <3>2
      <4> QED BY <2>1, <4>1
    <3> QED BY <2>1, <3>1, <3>2
  <2>2. SInt(x) \div shift \in -Pow2[WordBits - 1] .. Pow2[WordBits - 1] - 1
    BY <1>1, <2>1, SIntRange, WordWidth
  <2>3. Ref!S(Wrap(SInt(x) \div shift)) = SInt(x) \div shift
    BY <2>2, CastBack
  <2> QED BY <1>2, <2>3, Casts DEF Ref!Computes
<1>7. ASSUME SInt(x) >= 0 PROVE Wrap(SInt(x) \div shift) = x \div shift
  <2>1. SInt(x) = x
    BY <1>7, Casts
  <2>2. x \div shift \in Word
    BY <1>1, <1>3, ShrWord
  <2> QED BY <2>1, <2>2, WrapIdentity
<1> QED BY <1>3, <1>4, <1>5, <1>6, <1>7

LEMMA ComparisonsComputed ==
  ASSUME NEW x \in Word, NEW y \in Word
  PROVE  /\ Ref!Computes("slt", x, y, Truth(SInt(x) < SInt(y)))
         /\ Ref!Computes("sltu", x, y, Truth(x < y))
BY Casts DEF Ref!Computes, Ref!Tells, Truth

LEMMA BitsComputed ==
  ASSUME NEW x \in Word, NEW y \in Word
  PROVE  /\ Ref!Computes("xor", x, y, Xor(x, y))
         /\ Ref!Computes("or", x, y, Or(x, y))
         /\ Ref!Computes("and", x, y, And(x, y))
<1>1. ASSUME NEW z \in Word, NEW i \in 0 .. WordBits - 1
      PROVE  BitField(z, i, i) = Ref!Bit(z, i) /\ Ref!Bit(z, i) \in {0, 1}
  <2>1. i - i + 1 = 1 /\ i \in ShiftCount /\ z \in Nat
    BY WordWidth DEF ShiftCount, Word
  <2>2. Pow2[1] = 2
    <3>1. 1 \in ShiftCount /\ 0 \in ShiftCount /\ 1 - 1 = 0 /\ 1 # 0
      BY DEF ShiftCount
    <3>2. Pow2[0] = 1 /\ Pow2[1] = 2 * Pow2[0]
      BY <3>1, Pow2Facts
    <3> QED BY <3>2
  <2>3. BitField(z, i, i) = (z \div Pow2[i]) % 2
    BY <2>1, <2>2 DEF BitField, LowBits, Shr
  <2>4. z \div Pow2[i] \in Nat
    BY <2>1, ShrType DEF Shr
  <2>5. ASSUME NEW n \in Nat PROVE n % 2 \in {0, 1}
    OBVIOUS
  <2> QED BY <2>3, <2>4, <2>5 DEF Ref!Bit
<1>2. /\ Xor(x, y) \in Word /\ Or(x, y) \in Word /\ And(x, y) \in Word
  BY BitOperationsAreWords
<1>3. ASSUME NEW i \in 0 .. WordBits - 1
      PROVE  /\ i \in BitsOf(x) <=> Ref!Bit(x, i) = 1
             /\ i \in BitsOf(y) <=> Ref!Bit(y, i) = 1
             /\ Ref!Bit(Xor(x, y), i) = 1 <=> i \in (BitsOf(x) \cup BitsOf(y)) \ (BitsOf(x) \cap BitsOf(y))
             /\ Ref!Bit(Or(x, y), i) = 1 <=> i \in BitsOf(x) \cup BitsOf(y)
             /\ Ref!Bit(And(x, y), i) = 1 <=> i \in BitsOf(x) \cap BitsOf(y)
  <2>1. /\ i \in BitsOf(x) <=> BitField(x, i, i) = 1
        /\ i \in BitsOf(y) <=> BitField(y, i, i) = 1
    BY DEF BitsOf
  <2>2. \A S : BitField(FromBits(S), i, i) = 1 <=> i \in S
    BY BitOfFromBits
  <2> QED BY <1>1, <1>2, <2>1, <2>2 DEF Xor, Or, And
<1>4. \A i \in 0 .. WordBits - 1 :
         /\ Ref!Bit(Xor(x, y), i) = 1 <=> Ref!Bit(x, i) # Ref!Bit(y, i)
         /\ Ref!Bit(Or(x, y), i) = 1 <=> 1 \in {Ref!Bit(x, i), Ref!Bit(y, i)}
         /\ Ref!Bit(And(x, y), i) = 1 <=> {1} = {Ref!Bit(x, i), Ref!Bit(y, i)}
  <2> TAKE i \in 0 .. WordBits - 1
  <2>1. Ref!Bit(x, i) \in {0, 1} /\ Ref!Bit(y, i) \in {0, 1}
    BY <1>1
  <2>2. {1} = {Ref!Bit(x, i), Ref!Bit(y, i)} <=> Ref!Bit(x, i) = 1 /\ Ref!Bit(y, i) = 1
    <3>1. \A u, v : {1} = {u, v} <=> u = 1 /\ v = 1
      OBVIOUS
    <3> QED BY <3>1
  <2> QED BY <1>3, <2>1, <2>2
<1> QED BY <1>4 DEF Ref!Computes

-----------------------------------------------------------------------------
(***************************************************************************)
(* Division.  The quotient that C truncates, and what it leaves, satisfy   *)
(* the relation of the comments for every divisor but zero.                *)
(***************************************************************************)
LEMMA Truncation ==
  ASSUME NEW x \in Int, NEW y \in Int, y # 0
  PROVE  LET q == Quotient(x, y)  r == Remainder(x, y) IN
         /\ q \in Int /\ r \in Int
         /\ r = x - q * y
         /\ Ref!Divides(x, y, q, r)
         /\ (x - r) % Ref!Magnitude(y) = 0
         /\ Abs(q) = Abs(x) \div Abs(y)
         /\ q > 0 => (x < 0 <=> y < 0)
<1> DEFINE A == Abs(x)
           B == Abs(y)
           n == A \div B
           m == A % B
           q == Quotient(x, y)
           r == Remainder(x, y)
<1>1. A \in Nat /\ B \in Nat \ {0}
  BY DEF Abs
<1>2. n \in Nat /\ m \in 0 .. B - 1 /\ A = B * n + m
  <2> HIDE DEF A, B
  <2> QED BY <1>1
<1>3. q = IF (x < 0) = (y < 0) THEN n ELSE -n
  BY DEF Quotient
<1>4. q \in Int /\ r \in Int
  BY QuotientType
<1>5. r = x - y * q
  BY DEF Remainder
<1>6. /\ A = IF x < 0 THEN -x ELSE x
      /\ B = IF y < 0 THEN -y ELSE y
      /\ Ref!Magnitude(y) = B
  BY DEF Abs, Ref!Magnitude
<1> HIDE DEF A, B, n, m, q, r
<1>7. /\ B * n \in Nat
      /\ y * q = q * y
      /\ y * q = IF x < 0 THEN -(B * n) ELSE B * n
  <2>1. B * n \in Nat
    BY <1>1, <1>2
  <2>2. ASSUME NEW u \in Int, NEW v \in Int
        PROVE  u * v = v * u /\ u * (-v) = -(u * v) /\ (-u) * v = -(u * v)
    OBVIOUS
  <2>3. y * q = q * y
    BY <1>4, <2>2
  <2>4. y = B \/ y = -B
    BY <1>1, <1>6
  <2>5. y * n = B * n \/ y * n = -(B * n)
    BY <1>1, <1>2, <2>2, <2>4
  <2>6. CASE y < 0
    <3>1. y = -B /\ y * n = -(B * n) /\ y * (-n) = B * n
      <4>1. y = -B
        BY <1>1, <1>6, <2>6
      <4>2. y * n = -(B * n) /\ y * (-n) = -(y * n)
        BY <1>1, <1>2, <2>2, <4>1
      <4> QED BY <2>1, <4>1, <4>2
    <3> QED BY <1>3, <2>1, <2>3, <2>6, <3>1
  <2>7. CASE y >= 0
    <3>1. y = B /\ y * n = B * n /\ y * (-n) = -(B * n)
      <4>1. y = B
        BY <1>6, <2>7
      <4> QED BY <1>1, <1>2, <2>2, <4>1
    <3> QED BY <1>3, <2>1, <2>3, <2>7, <3>1
  <2> QED BY <2>6, <2>7
<1>8. r = IF x < 0 THEN -m ELSE m
  BY <1>2, <1>5, <1>6, <1>7
<1>9. Ref!Divides(x, y, q, r)
  <2>1. x = q * y + r
    BY <1>4, <1>5, <1>7
  <2>2. Ref!Magnitude(r) < Ref!Magnitude(y)
    BY <1>1, <1>2, <1>6, <1>8 DEF Ref!Magnitude
  <2>3. (r > 0 => x > 0) /\ (r < 0 => x < 0)
    BY <1>2, <1>6, <1>7, <1>8
  <2> QED BY <2>1, <2>2, <2>3 DEF Ref!Divides
<1>10. (x - r) % Ref!Magnitude(y) = 0
  <2>1. x - r = B * n \/ x - r = B * (-n)
    BY <1>1, <1>2, <1>6, <1>7, <1>8
  <2>2. ASSUME NEW c \in Int PROVE (B * c) % B = 0
    BY <1>1
  <2>3. n \in Int /\ -n \in Int
    BY <1>2
  <2> QED BY <1>6, <2>1, <2>2, <2>3
<1>11. Abs(q) = n
  BY <1>2, <1>3 DEF Abs
<1>12. q > 0 => (x < 0 <=> y < 0)
  BY <1>2, <1>3
<1> QED BY <1>4, <1>5, <1>7, <1>9, <1>10, <1>11, <1>12 DEF A, B, n, q, r

(* Without the one overflow, quotient and remainder are in the signed range. *)
LEMMA SignedDivision ==
  ASSUME NEW x \in Word, NEW y \in Word, y # 0,
         ~(SInt(x) = -Pow2[WordBits - 1] /\ SInt(y) = -1)
  PROVE  /\ Ref!Computes("div", x, y, Wrap(Quotient(SInt(x), SInt(y))))
         /\ Ref!Computes("rem", x, y, Wrap(Remainder(SInt(x), SInt(y))))
<1> DEFINE X == SInt(x)
           Y == SInt(y)
           q == Quotient(X, Y)
           r == Remainder(X, Y)
           H == Pow2[WordBits - 1]
<1>1. /\ X \in Int /\ Y \in Int /\ Y # 0 /\ H \in Nat \ {0}
      /\ X \in -H .. H - 1 /\ Y \in -H .. H - 1
      /\ ~(X = -H /\ Y = -1)
      /\ Ref!S(x) = X /\ Ref!S(y) = Y
  BY SIntRange, SIntZero, WordWidth, Casts
<1> HIDE DEF X, Y
<1>2. /\ q \in Int /\ r \in Int
      /\ r = X - q * Y
      /\ Ref!Divides(X, Y, q, r)
      /\ (X - r) % Ref!Magnitude(Y) = 0
      /\ Abs(q) = Abs(X) \div Abs(Y)
      /\ q > 0 => (X < 0 <=> Y < 0)
  BY <1>1, Truncation
<1> HIDE DEF q, r, H
<1>3. q \in -H .. H - 1
  <2>1. Abs(X) \in 0 .. H /\ Abs(Y) \in Nat \ {0}
    BY <1>1 DEF Abs
  <2>2. ASSUME NEW u \in 0 .. H, NEW v \in Nat \ {0}
        PROVE  u \div v \in 0 .. u /\ (u \div v = H => u = H /\ v = 1)
    <3>1. u \div v \in 0 .. u
      BY <1>1, <2>2
    <3>2. ASSUME u \div v = H, v # 1 PROVE FALSE
      <4>1. u = v * (u \div v) + (u % v) /\ u % v \in 0 .. v - 1
        BY <1>1, <2>2
      <4>2. v * H >= 2 * H
        BY <1>1, <2>2, <3>2
      <4> QED BY <1>1, <2>2, <3>2, <4>1, <4>2
    <3> QED BY <1>1, <2>2, <3>1, <3>2
  <2>3. /\ Abs(q) \in 0 .. Abs(X)
        /\ Abs(q) = H => Abs(X) = H /\ Abs(Y) = 1
    BY <1>2, <2>1, <2>2
  <2>4. CASE q <= 0
    BY <1>1, <1>2, <2>1, <2>3, <2>4 DEF Abs
  <2>5. CASE q > 0
    BY <1>1, <1>2, <2>1, <2>3, <2>5 DEF Abs
  <2> QED BY <1>2, <2>4, <2>5
<1>4. r \in -H .. H - 1
  <2>1. Ref!Magnitude(r) < Ref!Magnitude(Y)
    BY <1>2 DEF Ref!Divides
  <2> QED BY <1>1, <1>2, <2>1 DEF Ref!Magnitude
<1>5. Ref!S(Wrap(q)) = q /\ Ref!S(Wrap(r)) = r
  BY <1>3, <1>4, CastBack DEF H
<1>6. Ref!IsQuotient(X, Y, q) /\ Ref!IsRemainder(X, Y, r)
  BY <1>2 DEF Ref!IsQuotient, Ref!IsRemainder, Ref!Divides
<1>7. Ref!Computes("div", x, y, Wrap(q)) /\ Ref!Computes("rem", x, y, Wrap(r))
  BY <1>1, <1>5, <1>6 DEF Ref!Computes
<1> QED BY <1>7 DEF q, r, X, Y

LEMMA UnsignedDivision ==
  ASSUME NEW x \in Word, NEW y \in Word, y # 0
  PROVE  /\ Ref!Computes("divu", x, y, x \div y)
         /\ Ref!Computes("remu", x, y, x % y)
<1>1. x \in Nat /\ y \in Nat \ {0}
  BY Casts
<1>2. Quotient(x, y) = x \div y
  BY <1>1 DEF Quotient, Abs
<1>3. Remainder(x, y) = x % y
  <2>1. x = y * (x \div y) + (x % y) /\ x % y \in Nat /\ x \div y \in Nat
    BY <1>1
  <2>2. y * (x \div y) \in Nat
    BY <1>1, <2>1
  <2> QED BY <1>1, <1>2, <2>1, <2>2 DEF Remainder
<1>4. /\ Remainder(x, y) = x - Quotient(x, y) * y
      /\ Ref!Divides(x, y, Quotient(x, y), Remainder(x, y))
      /\ (x - Remainder(x, y)) % Ref!Magnitude(y) = 0
  BY <1>1, Truncation
<1>5. Ref!IsQuotient(x, y, Quotient(x, y)) /\ Ref!IsRemainder(x, y, Remainder(x, y))
  BY <1>4 DEF Ref!IsQuotient, Ref!IsRemainder, Ref!Divides
<1> QED BY <1>2, <1>3, <1>5 DEF Ref!Computes

(* An R-type instruction that does not fault computes what its comment says,  *)
(* but for srl and the signed high products of negative operands.             *)
LEMMA RtypeComputed ==
  ASSUME NEW x \in Word, NEW y \in Word, NEW op \in DOMAIN RtypeName,
         ~DivisionFaults(RtypeName[op], x, y)
  PROVE  /\ rtype_value(RtypeName[op], x, y) \in Word
         /\ \/ Departs(RtypeName[op], x, y)
            \/ Ref!Computes(RtypeName[op], x, y, rtype_value(RtypeName[op], x, y))
<1> DEFINE name == RtypeName[op]
<1>1. rtype_value(name, x, y) \in Word
  BY RtypeIsWord
<1>2. name \in {"add", "sub", "mul", "mulh", "mulsu", "mulu", "sll", "srl", "sra",
                "slt", "sltu", "xor", "or", "and", "div", "divu", "rem", "remu"}
  BY RtypeNames
<1>3. ~DivisionFaults(name, x, y)
  OBVIOUS
<1>4. SInt(x) \in Int /\ SInt(y) \in Int
  BY Casts
<1> HIDE DEF name
<1> SUFFICES \/ Departs(name, x, y)
             \/ Ref!Computes(name, x, y, rtype_value(name, x, y))
  BY <1>1 DEF name
<1>5. CASE name \in {"add", "sub", "mul"}
  BY <1>5, SumsComputed DEF rtype_value
<1>6. CASE name \in {"mulh", "mulsu", "mulu"}
  BY <1>4, <1>6, HighProductsComputed DEF rtype_value, Departs
<1>7. CASE name \in {"sll", "srl", "sra"}
  BY <1>4, <1>7, ShiftsComputed DEF rtype_value, Departs
<1>8. CASE name \in {"slt", "sltu"}
  BY <1>8, ComparisonsComputed DEF rtype_value
<1>9. CASE name \in {"xor", "or", "and"}
  BY <1>9, BitsComputed DEF rtype_value
<1>10. CASE name \in {"div", "rem"}
  <2>1. y # 0 /\ ~(SInt(x) = -Pow2[WordBits - 1] /\ SInt(y) = -1)
    BY <1>3, <1>10 DEF DivisionFaults
  <2> QED BY <1>10, <2>1, SignedDivision DEF rtype_value
<1>11. CASE name \in {"divu", "remu"}
  <2>1. y # 0
    BY <1>3, <1>11 DEF DivisionFaults
  <2> QED BY <1>11, <2>1, UnsignedDivision DEF rtype_value
<1> QED BY <1>2, <1>5, <1>6, <1>7, <1>8, <1>9, <1>10, <1>11

(* A division that faults has no word for its quotient.                       *)
LEMMA NoQuotient ==
  ASSUME NEW x \in Word, NEW y \in Word, NEW d \in Word
  PROVE  /\ DivisionFaults("div", x, y) \/ DivisionFaults("rem", x, y) => ~Ref!Computes("div", x, y, d)
         /\ DivisionFaults("divu", x, y) \/ DivisionFaults("remu", x, y) => ~Ref!Computes("divu", x, y, d)
<1>1. ASSUME y = 0
      PROVE  ~Ref!Computes("div", x, y, d) /\ ~Ref!Computes("divu", x, y, d)
  <2>1. Ref!S(y) = 0
    BY <1>1, SIntZero, Casts
  <2>2. ASSUME NEW u, NEW q \in Int, NEW z \in Int PROVE ~Ref!Divides(u, 0, q, z)
    BY <2>2 DEF Ref!Divides, Ref!Magnitude
  <2>3. /\ Ref!S(x) \in Int /\ Ref!S(d) \in Int /\ x \in Int /\ d \in Int
    BY <1>1, Casts
  <2>4. Ref!S(x) - Ref!S(d) * 0 \in Int /\ x - d * 0 \in Int
    BY <2>3
  <2> QED BY <1>1, <2>1, <2>2, <2>3, <2>4 DEF Ref!Computes, Ref!IsQuotient
<1>2. ASSUME SInt(x) = -Pow2[WordBits - 1], SInt(y) = -1
      PROVE  ~Ref!Computes("div", x, y, d)
  <2> DEFINE H == Pow2[WordBits - 1]
             q == SInt(d)
  <2>1. /\ Ref!S(x) = -H /\ Ref!S(y) = -1 /\ Ref!S(d) = q
        /\ q \in -H .. H - 1 /\ H \in Nat \ {0}
    BY <1>2, Casts, SIntRange, WordWidth
  <2> HIDE DEF H, q
  <2>2. -H - q * (-1) = q - H
    BY <2>1
  <2>3. ~Ref!Divides(-H, -1, q, q - H)
    BY <2>1 DEF Ref!Divides, Ref!Magnitude
  <2> QED BY <2>1, <2>2, <2>3 DEF Ref!Computes, Ref!IsQuotient
<1> QED BY <1>1, <1>2 DEF DivisionFaults

(* An immediate form computes what its register form does on the immediate    *)
(* that it extends.                                                           *)
LEMMA ItypeComputed ==
  ASSUME NEW x \in Word, NEW funct3 \in 0 .. 7, NEW imm \in Immediates
  PROVE  LET name    == ItypeName(funct3, imm)
             operand == IF name \in {"sltiu", "slli", "srli", "srai"}
                        THEN imm ELSE Wrap(Signed(imm, immBits))
         IN  name # "invalid" =>
                 /\ itype_value(name, x, imm) \in Word
                 /\ Ref!Computes(Ref!Plain(name), x, operand, itype_value(name, x, imm))
<1> DEFINE name    == ItypeName(funct3, imm)
           simm    == sign_extend_number(imm, immBits)
           operand == IF name \in {"sltiu", "slli", "srli", "srai"}
                      THEN imm ELSE Wrap(Signed(imm, immBits))
<1> SUFFICES ASSUME name # "invalid"
             PROVE  /\ itype_value(name, x, imm) \in Word
                    /\ Ref!Computes(Ref!Plain(name), x, operand, itype_value(name, x, imm))
  OBVIOUS
<1>1. immBits \in 1 .. 63 /\ immBits \in ShiftCount /\ immBits <= WordBits
  BY WidthAssumption DEF ShiftCount, WordBits
<1>2. /\ imm \in Word /\ imm \in Nat
      /\ simm = Signed(imm, immBits) /\ simm \in -Pow2[immBits - 1] .. Pow2[immBits - 1] - 1
  <2>1. imm \in Word /\ imm \in Nat
    BY ImmediateType
  <2>2. ASSUME NEW p \in Nat \ {0}, NEW n \in 0 .. p - 1 PROVE n % p = n
    BY <2>2
  <2>3. LowBits(imm, immBits) = imm
    <3>1. Pow2[immBits] \in Nat \ {0}
      BY <1>1, Pow2Facts
    <3> QED BY <2>2, <3>1 DEF Immediates, LowBits
  <2>4. Signed(imm, immBits) \in -Pow2[immBits - 1] .. Pow2[immBits - 1] - 1
    <3> QED BY <1>1, SignedRange DEF Immediates
  <2> QED BY <2>1, <2>3, <2>4 DEF sign_extend_number
<1>3. simm \in -Pow2[WordBits - 1] .. Pow2[WordBits - 1] - 1
  <2>1. immBits - 1 \in ShiftCount /\ immBits - 1 <= WordBits - 1
    BY <1>1, WordWidth DEF ShiftCount
  <2>2. /\ Pow2[immBits - 1] <= Pow2[WordBits - 1]
        /\ Pow2[immBits - 1] \in Nat /\ Pow2[WordBits - 1] \in Nat
    BY <2>1, WordWidth, Pow2Grows, Pow2Facts
  <2> HIDE DEF simm
  <2> QED BY <1>2, <2>2
<1>4. Wrap(simm) \in Word /\ SInt(Wrap(simm)) = simm
  BY <1>3, CastBack
<1>5. itype_value(name, x, imm) \in Word
  BY ItypeIsWord
<1>6. name \in {"addi", "slli", "slti", "sltiu", "xori", "srli", "srai", "ori", "andi"}
  BY DEF ItypeName
<1>7. operand = IF name \in {"sltiu", "slli", "srli", "srai"} THEN imm ELSE Wrap(simm)
  BY <1>2
<1> HIDE DEF name, operand
<1>8. CASE name = "addi"
  <2>1. Ref!Computes("add", x, Wrap(simm), Wrap(SInt(x) + SInt(Wrap(simm))))
    BY <1>4, SumsComputed
  <2> QED BY <1>4, <1>5, <1>7, <1>8, <2>1 DEF itype_value, Ref!Plain
<1>9. CASE name \in {"slli", "srli", "srai"}
  <2>1. LowBits(imm, shamtBits) = Count(imm)
    BY DEF Count
  <2> QED BY <1>2, <1>5, <1>7, <1>9, <2>1, ShiftsComputed DEF itype_value, Ref!Plain
<1>10. CASE name = "slti"
  <2>1. Ref!Computes("slt", x, Wrap(simm), Truth(SInt(x) < SInt(Wrap(simm))))
    BY <1>4, ComparisonsComputed
  <2> QED BY <1>4, <1>5, <1>7, <1>10, <2>1 DEF itype_value, Ref!Plain
<1>11. CASE name = "sltiu"
  BY <1>2, <1>5, <1>7, <1>11, ComparisonsComputed DEF itype_value, Ref!Plain
<1>12. CASE name \in {"xori", "ori", "andi"}
  BY <1>4, <1>5, <1>7, <1>12, BitsComputed DEF itype_value, Ref!Plain
<1> QED BY <1>6, <1>8, <1>9, <1>10, <1>11, <1>12

(* A branch is decided as its comment says.                                   *)
LEMMA BranchDecided ==
  ASSUME NEW x \in Word, NEW y \in Word, NEW f \in DOMAIN BranchName
  PROVE  branch_taken(BranchName[f], x, y) <=> Ref!Decides(BranchName[f], x, y)
<1>1. /\ x \in Int /\ y \in Int /\ SInt(x) \in Int /\ SInt(y) \in Int
      /\ Ref!S(x) = SInt(x) /\ Ref!S(y) = SInt(y)
  BY Casts
<1>2. BranchName[f] \in {"beq", "bne", "blt", "bge", "bltu", "bgeu"}
  BY BranchNames
<1> QED BY <1>1, <1>2 DEF branch_taken, Ref!Decides

=============================================================================
