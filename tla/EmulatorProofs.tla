--------------------------- MODULE EmulatorProofs ---------------------------
(***************************************************************************)
(* The emulator implements the machine that its comments describe, for     *)
(* every width, memory and program: the theorem about RiscvRefinement.     *)
(***************************************************************************)
EXTENDS RiscvRefinement, RiscvProofs

-----------------------------------------------------------------------------
(* The comments as module RiscvIsa reads them are those of AluReference.     *)
LEMMA SameComments ==
  \A name, x, y, d : /\ Commented!Computes(name, x, y, d) <=> Ref!Computes(name, x, y, d)
                     /\ Commented!Decides(name, x, y) <=> Ref!Decides(name, x, y)
                     /\ Commented!Plain(name) = Ref!Plain(name)
                     /\ Commented!S(x) = Ref!S(x)
                     /\ Commented!IsQuotient(x, y, d) <=> Ref!IsQuotient(x, y, d)
BY DEF Commented!Computes, Ref!Computes, Commented!Decides, Ref!Decides,
   Commented!Plain, Ref!Plain, Commented!S, Ref!S, Commented!Bit, Ref!Bit,
   Commented!Holds, Ref!Holds, Commented!Tells, Ref!Tells,
   Commented!Magnitude, Ref!Magnitude, Commented!Divides, Ref!Divides,
   Commented!IsQuotient, Ref!IsQuotient, Commented!IsRemainder, Ref!IsRemainder

-----------------------------------------------------------------------------
(***************************************************************************)
(* Memory.  Where no sum of an address and a length wraps back into        *)
(* memory, the bytes that the code looks at are those that the comments    *)
(* name.                                                                   *)
(***************************************************************************)
LEMMA AccessesFit ==
  ASSUME MemorySpace < Pow2[WordBits], NEW address \in Word, NEW length \in 1 .. 4
  PROVE  /\ InBounds(address, length) <=> Commented!FitsIn(address, length)
         /\ InBounds(address, length) =>
               \A k \in 0 .. length - 1 : /\ Wrap(address + k) = address + k
                                          /\ address + k \in Addresses
<1> DEFINE W == Pow2[WordBits]
<1>1. W \in Nat \ {0} /\ MemorySpace \in 4 .. W /\ MemorySpace < W
      /\ address \in 0 .. W - 1
  BY WordWidth, MachineAssumption DEF Word
<1>2. \A k \in 0 .. length - 1 : Wrap(address + k) = (address + k) % W
  BY DEF Wrap
<1>3. InBounds(address, length) <=> \A k \in 0 .. length - 1 : (address + k) % W \in Addresses
  BY <1>2 DEF InBounds, Cells
<1> HIDE DEF W
<1>4. ASSUME NEW k \in 0 .. 3, address + k < W PROVE (address + k) % W = address + k
  BY <1>1, <1>4
<1>5. CASE address + length <= MemorySpace
  <2>1. \A k \in 0 .. length - 1 : /\ k \in 0 .. 3 /\ address + k < W
                                   /\ address + k \in Addresses
    BY <1>1, <1>5 DEF Addresses
  <2>2. \A k \in 0 .. length - 1 : (address + k) % W = address + k
    BY <1>4, <2>1
  <2>3. Commented!FitsIn(address, length)
    BY <1>1, <1>5 DEF Commented!FitsIn
  <2> QED BY <1>2, <1>3, <2>1, <2>2, <2>3
<1>6. CASE address + length > MemorySpace
  <2>1. ~Commented!FitsIn(address, length)
    BY <1>1, <1>6 DEF Commented!FitsIn
  <2>2. CASE address >= MemorySpace
    <3>1. (address + 0) % W = address /\ address \notin Addresses /\ 0 \in 0 .. length - 1
      BY <1>1, <1>4, <2>2 DEF Addresses
    <3> QED BY <1>3, <2>1, <3>1
  <2>3. CASE address < MemorySpace
    <3> DEFINE k == MemorySpace - address
    <3>1. k \in 0 .. length - 1 /\ k \in 0 .. 3 /\ address + k = MemorySpace
      BY <1>1, <1>6, <2>3
    <3>2. (address + k) % W = MemorySpace /\ MemorySpace \notin Addresses
      BY <1>1, <1>4, <3>1 DEF Addresses
    <3> QED BY <1>3, <2>1, <3>1, <3>2
  <2> QED BY <1>1, <2>2, <2>3
<1> QED BY <1>1, <1>5, <1>6

(* The powers of a byte. *)
Place(k) == Pow2[byteBits * k]

LEMMA Places ==
  /\ Place(0) = 1
  /\ \A k \in 0 .. 4 : Place(k) \in Nat \ {0} /\ byteBits * k \in ShiftCount
  /\ \A k \in 0 .. 3 : Place(k + 1) = Place(k) * Pow2[byteBits]
  /\ Place(4) = Pow2[WordBits]
  /\ Pow2[byteBits] \in Nat \ {0}
<1>1. \A k \in 0 .. 4 : byteBits * k \in ShiftCount
  BY WidthAssumption DEF ShiftCount
<1>2. \A k \in 0 .. 3 : byteBits * (k + 1) = byteBits * k + byteBits
  BY WidthAssumption
<1>3. byteBits * 0 = 0 /\ byteBits * 4 = WordBits /\ byteBits \in ShiftCount /\ 0 \in ShiftCount
  BY WidthAssumption DEF WordBits, ShiftCount
<1>4. \A k \in 0 .. 3 : Place(k + 1) = Place(k) * Pow2[byteBits]
  <2> SUFFICES ASSUME NEW k \in 0 .. 3 PROVE Place(k + 1) = Place(k) * Pow2[byteBits]
    OBVIOUS
  <2>1. k \in 0 .. 4 /\ k + 1 \in 0 .. 4
    OBVIOUS
  <2>2. byteBits * k + byteBits \in ShiftCount /\ byteBits * k \in ShiftCount
    BY <1>1, <1>2, <2>1
  <2> QED BY <1>2, <1>3, <2>2, Pow2Sum DEF Place
<1> QED BY <1>1, <1>3, <1>4, Pow2Facts DEF Place

(* Numbers by their digits. *)
LEMMA DigitCut ==
  ASSUME NEW v \in Nat, NEW p \in Nat \ {0}, NEW b \in Nat \ {0}
  PROVE  v % (p * b) = (v % p) + ((v \div p) % b) * p
<1> DEFINE q == v \div p
           r == v % p
           q2 == q \div b
           r2 == q % b
<1>1. ASSUME NEW x \in Nat, NEW y \in Nat \ {0}
      PROVE  x = y * (x \div y) + (x % y) /\ x \div y \in Nat /\ x % y \in 0 .. y - 1
  BY <1>1
<1>2. v = p * q + r /\ q \in Nat /\ r \in 0 .. p - 1
  BY <1>1
<1>3. q = b * q2 + r2 /\ q2 \in Nat /\ r2 \in 0 .. b - 1
  BY <1>1, <1>2
<1> HIDE DEF q, r, q2, r2
<1>4. v = (p * b) * q2 + (r + r2 * p)
  <2>1. p * (b * q2 + r2) = (p * b) * q2 + r2 * p
    BY <1>3
  <2> QED BY <1>2, <1>3, <2>1
<1>5. r + r2 * p \in 0 .. p * b - 1 /\ p * b \in Nat \ {0}
  <2>1. r2 * p <= (b - 1) * p
    BY <1>3
  <2>2. (b - 1) * p = p * b - p /\ p * b \in Nat /\ r2 * p \in Nat /\ p * b # 0
    BY <1>3
  <2> QED BY <1>2, <2>1, <2>2
<1>6. ASSUME NEW m \in Nat \ {0}, NEW x \in Nat, NEW y \in 0 .. m - 1
      PROVE  (m * x + y) % m = y
  BY <1>6
<1>7. v % (p * b) = r + r2 * p
  BY <1>3, <1>4, <1>5, <1>6
<1> QED BY <1>7 DEF r, r2, q

HasDigit(v, p, b, low, digit, high) ==
    /\ p \in Nat \ {0} /\ b \in Nat \ {0} /\ high \in Nat
    /\ low \in 0 .. p - 1 /\ digit \in 0 .. b - 1
    /\ v = low + p * (digit + b * high)

LEMMA DigitOf ==
  ASSUME NEW v, NEW p, NEW b, NEW low, NEW digit, NEW high,
         HasDigit(v, p, b, low, digit, high)
  PROVE  (v \div p) % b = digit
<1> USE DEF HasDigit
<1> DEFINE q == digit + b * high
<1>1. q \in Nat /\ q = b * high + digit
  OBVIOUS
<1>2. ASSUME NEW m \in Nat \ {0}, NEW x \in Nat, NEW y \in 0 .. m - 1
      PROVE  (m * x + y) % m = y /\ (m * x + y) \div m = x
  BY <1>2
<1>3. low + p * q = p * q + low
  <2>1. p * q \in Nat
    BY <1>1
  <2> HIDE DEF q
  <2> QED BY <2>1
<1>4. q % b = digit
  BY <1>1, <1>2
<1>5. ((low + p * q) \div p) % b = digit
  <2> HIDE DEF q
  <2> QED BY <1>1, <1>2, <1>3, <1>4
<1>6. v = low + p * q
  OBVIOUS
<1> QED BY <1>5, <1>6

(* What load adds up is the number whose digits are the bytes. *)
Partial(f, a, length) ==
    /\ f[0] = 0
    /\ \A n \in 1 .. length : f[n] = f[n - 1] + memory[a + (n - 1)] * Place(n - 1)

LEMMA LoadSums ==
  ASSUME MemorySpace < Pow2[WordBits], memory \in [Addresses -> Byte],
         NEW a \in Word, NEW length \in 1 .. 4, InBounds(a, length)
  PROVE  \E f : /\ Partial(f, a, length)
                /\ load(a, length) = f[length]
                /\ \A n \in 0 .. length : f[n] \in 0 .. Place(n) - 1
<1>1. PICK f : /\ f[0] = 0
               /\ \A n \in 1 .. length : f[n] = f[n - 1] + Term(a, n)
               /\ load(a, length) = f[length]
  BY LoadTerms
<1>2. a \in Nat
  BY WordWidth DEF Word
<1>3. ASSUME NEW n \in 1 .. length
      PROVE  /\ Term(a, n) = memory[a + (n - 1)] * Place(n - 1)
             /\ memory[a + (n - 1)] \in 0 .. Pow2[byteBits] - 1
  <2>1. n - 1 \in 0 .. length - 1 /\ a + n - 1 = a + (n - 1)
    BY <1>2
  <2>2. Wrap(a + (n - 1)) = a + (n - 1) /\ a + (n - 1) \in Addresses
    BY <2>1, AccessesFit
  <2> QED BY <2>1, <2>2 DEF Term, Shl, Place, Byte
<1>4. Partial(f, a, length)
  BY <1>1, <1>3 DEF Partial
<1>5. ASSUME NEW n \in 1 .. length, f[n - 1] \in 0 .. Place(n - 1) - 1
      PROVE  f[n] \in 0 .. Place(n) - 1
  <2> DEFINE m == memory[a + (n - 1)]
             P == Place(n - 1)
             B == Pow2[byteBits]
  <2>1. m \in 0 .. B - 1 /\ f[n] = f[n - 1] + m * P
    BY <1>1, <1>3
  <2>2. B \in Nat \ {0} /\ P \in Nat \ {0} /\ Place(n) = P * B
    <3>1. n - 1 \in 0 .. 3 /\ n - 1 \in 0 .. 4 /\ (n - 1) + 1 = n
      OBVIOUS
    <3> QED BY <3>1, Places
  <2> HIDE DEF m, P, B
  <2>3. ASSUME NEW x \in 0 .. P - 1, NEW y \in 0 .. B - 1 PROVE x + y * P \in 0 .. P * B - 1
    <3>1. y * P <= (B - 1) * P /\ (B - 1) * P = P * B - P /\ y * P \in Nat /\ P * B \in Nat
      BY <2>2
    <3> QED BY <2>2, <3>1
  <2> QED BY <1>5, <2>1, <2>2, <2>3 DEF P
<1>6. f[0] \in 0 .. Place(0) - 1
  BY <1>1, Places
<1>7. \A n \in 0 .. length : f[n] \in 0 .. Place(n) - 1
  <2> DEFINE Good(n) == f[n] \in 0 .. Place(n) - 1
  <2>1. \A n \in 1 .. length : Good(n - 1) => Good(n)
    BY <1>5
  <2>2. Good(0)
    BY <1>6
  <2> HIDE DEF Good
  <2>3. \A n \in 0 .. length : Good(n)
    <3>1. 1 - 1 = 0 /\ 2 - 1 = 1 /\ 3 - 1 = 2 /\ 4 - 1 = 3
      OBVIOUS
    <3>2. 1 \in 1 .. length => Good(1)
      BY <2>1, <2>2, <3>1
    <3>3. 2 \in 1 .. length => Good(2)
      BY <2>1, <3>1, <3>2
    <3>4. 3 \in 1 .. length => Good(3)
      BY <2>1, <3>1, <3>3
    <3>5. 4 \in 1 .. length => Good(4)
      BY <2>1, <3>1, <3>4
    <3> QED BY <2>2, <3>2, <3>3, <3>4, <3>5
  <2> QED BY <2>3 DEF Good
<1> QED BY <1>1, <1>4, <1>7

(* Read as RiscvIsa reads memory, the bytes from a on are the value of load, *)
(* and no other number of that length.                                       *)
LEMMA LoadReads ==
  ASSUME MemorySpace < Pow2[WordBits], memory \in [Addresses -> Byte],
         NEW a \in Word, NEW length \in 1 .. 4, InBounds(a, length)
  PROVE  /\ load(a, length) \in 0 .. Place(length) - 1
         /\ Commented!Reads(memory, a, length, load(a, length))
<1>1. PICK f : /\ Partial(f, a, length)
               /\ load(a, length) = f[length]
               /\ \A n \in 0 .. length : f[n] \in 0 .. Place(n) - 1
  BY LoadSums
<1> DEFINE B == Pow2[byteBits]
           m(k) == memory[a + k]
<1>2. \A n \in 1 .. length : f[n] = f[n - 1] + m(n - 1) * Place(n - 1)
  BY <1>1 DEF Partial
<1>3. \A k \in 0 .. length - 1 : m(k) \in 0 .. B - 1
  BY AccessesFit DEF Byte
<1>4. B \in Nat \ {0} /\ \A k \in 0 .. 3 : Place(k) \in Nat \ {0} /\ Place(k + 1) = Place(k) * B
  BY Places
<1> HIDE DEF B, m
<1>5. ASSUME NEW n \in 1 .. length, NEW X \in Nat,
             f[length] = f[n] + Place(n) * X
      PROVE  /\ f[length] = f[n - 1] + Place(n - 1) * (m(n - 1) + B * X)
             /\ m(n - 1) + B * X \in Nat
  <2>1. n - 1 \in 0 .. 3 /\ (n - 1) + 1 = n /\ n - 1 \in 0 .. length - 1 /\ n - 1 \in 0 .. length
    OBVIOUS
  <2>2. Place(n - 1) \in Nat \ {0} /\ Place(n) = Place(n - 1) * B
        /\ m(n - 1) \in 0 .. B - 1 /\ f[n - 1] \in Nat
    BY <1>1, <1>3, <1>4, <2>1, Places
  <2>3. f[n] = f[n - 1] + m(n - 1) * Place(n - 1)
    BY <1>2
  <2>4. ASSUME NEW p \in Nat, NEW d \in Nat, NEW x \in Nat
        PROVE  (x + d * p) + (p * B) * X = x + p * (d + B * X) /\ d + B * X \in Nat
    <3>1. (p * B) * X = p * (B * X) /\ B * X \in Nat
      BY <1>4
    <3>2. ASSUME NEW y \in Nat PROVE p * (d + y) = d * p + p * y
      OBVIOUS
    <3>3. d * p \in Nat /\ p * (B * X) \in Nat
      BY <3>1
    <3> QED BY <3>1, <3>2, <3>3
  <2>5. /\ (f[n - 1] + m(n - 1) * Place(n - 1)) + (Place(n - 1) * B) * X
             = f[n - 1] + Place(n - 1) * (m(n - 1) + B * X)
        /\ m(n - 1) + B * X \in Nat
    <3>1. m(n - 1) \in Nat
      BY <1>4, <2>2
    <3>2. Place(n - 1) \in Nat /\ f[n - 1] \in Nat
      BY <2>2
    <3> QED BY <2>4, <3>1, <3>2, Zenon
  <2> QED BY <1>5, <2>2, <2>3, <2>5, Zenon
<1>6. \A n \in 0 .. length : \E X \in Nat : f[length] = f[n] + Place(n) * X
  <2> DEFINE Good(n) == \E X \in Nat : f[length] = f[n] + Place(n) * X
  <2>1. \A n \in 1 .. length : Good(n) => Good(n - 1)
    BY <1>5
  <2>2. Good(length)
    <3>1. f[length] \in Nat /\ Place(length) \in Nat
      BY <1>1, Places
    <3>2. f[length] = f[length] + Place(length) * 0
      BY <3>1
    <3> QED BY <3>2
  <2> HIDE DEF Good
  <2>3. 1 - 1 = 0 /\ 2 - 1 = 1 /\ 3 - 1 = 2 /\ 4 - 1 = 3
    OBVIOUS
  <2>4. ASSUME NEW n \in 0 .. length, n + 1 <= length => Good(n + 1) PROVE Good(n)
    <3>1. CASE n = length
      BY <2>2, <3>1
    <3>2. CASE n # length
      <4>1. n + 1 \in 1 .. length /\ (n + 1) - 1 = n /\ n + 1 <= length
        BY <3>2
      <4> QED BY <2>1, <2>4, <4>1
    <3> QED BY <3>1, <3>2
  <2>5. 4 \in 0 .. length => Good(4)
    BY <2>4
  <2>6. 3 \in 0 .. length => Good(3)
    BY <2>4, <2>5
  <2>7. 2 \in 0 .. length => Good(2)
    BY <2>4, <2>6
  <2>8. 1 \in 0 .. length => Good(1)
    BY <2>4, <2>7
  <2>9. 0 \in 0 .. length => Good(0)
    BY <2>4, <2>8
  <2>10. \A n \in 0 .. length : Good(n)
    BY <2>5, <2>6, <2>7, <2>8, <2>9
  <2> QED BY <2>10 DEF Good
<1>7. ASSUME NEW k \in 0 .. length - 1
      PROVE  memory[a + k] = (load(a, length) \div Place(k)) % Pow2[byteBits]
  <2>1. k + 1 \in 1 .. length /\ (k + 1) - 1 = k /\ k \in 0 .. length /\ k \in 0 .. 3
        /\ k + 1 \in 0 .. length
    OBVIOUS
  <2>2. PICK X \in Nat : f[length] = f[k + 1] + Place(k + 1) * X
    BY <1>6, <2>1
  <2>3. f[length] = f[k] + Place(k) * (m(k) + B * X)
    BY <1>5, <2>1, <2>2
  <2>4. f[k] \in 0 .. Place(k) - 1 /\ m(k) \in 0 .. B - 1 /\ Place(k) \in Nat \ {0}
    BY <1>1, <1>3, <1>4, <2>1
  <2>5. (f[length] \div Place(k)) % B = m(k)
    <3>1. B \in Nat \ {0}
      BY <1>4
    <3>2. f[k] \in 0 .. Place(k) - 1 /\ m(k) \in 0 .. B - 1 /\ Place(k) \in Nat \ {0}
      BY <2>4
    <3>3. HasDigit(f[length], Place(k), B, f[k], m(k), X)
      BY <2>3, <3>1, <3>2, Zenon DEF HasDigit
    <3> QED BY <3>3, DigitOf
  <2> QED BY <1>1, <2>5 DEF m, B
<1>8. load(a, length) \in 0 .. Place(length) - 1
  BY <1>1
<1> QED BY <1>7, <1>8 DEF Commented!Reads, Place

LEMMA ReadsOnce ==
  ASSUME MemorySpace < Pow2[WordBits], memory \in [Addresses -> Byte],
         NEW a \in Word, NEW length \in 1 .. 4, InBounds(a, length),
         NEW v \in 0 .. Place(length) - 1, Commented!Reads(memory, a, length, v)
  PROVE  v = load(a, length)
<1>1. PICK f : /\ Partial(f, a, length)
               /\ load(a, length) = f[length]
               /\ \A n \in 0 .. length : f[n] \in 0 .. Place(n) - 1
  BY LoadSums
<1>2. ASSUME NEW n \in 1 .. length, v % Place(n - 1) = f[n - 1]
      PROVE  v % Place(n) = f[n]
  <2>1. n - 1 \in 0 .. 3 /\ (n - 1) + 1 = n /\ n - 1 \in 0 .. length - 1 /\ n - 1 \in 0 .. 4
    OBVIOUS
  <2>2. Place(n - 1) \in Nat \ {0} /\ Place(n) = Place(n - 1) * Pow2[byteBits]
        /\ Pow2[byteBits] \in Nat \ {0} /\ v \in Nat
    BY <2>1, Places
  <2>3. memory[a + (n - 1)] = (v \div Place(n - 1)) % Pow2[byteBits]
    BY <2>1 DEF Commented!Reads, Place
  <2>4. f[n] = f[n - 1] + memory[a + (n - 1)] * Place(n - 1)
    BY <1>1 DEF Partial
  <2> QED BY <1>2, <2>2, <2>3, <2>4, DigitCut
<1>3. v % Place(0) = f[0]
  BY <1>1, Places DEF Partial
<1>4. v % Place(length) = f[length]
  <2> DEFINE Good(n) == v % Place(n) = f[n]
  <2>1. \A n \in 1 .. length : Good(n - 1) => Good(n)
    BY <1>2
  <2>2. Good(0)
    BY <1>3
  <2> HIDE DEF Good
  <2>3. 1 - 1 = 0 /\ 2 - 1 = 1 /\ 3 - 1 = 2 /\ 4 - 1 = 3
    OBVIOUS
  <2>4. length = 1 \/ length = 2 \/ length = 3 \/ length = 4
    OBVIOUS
  <2>5. Good(length)
    BY <2>1, <2>2, <2>3, <2>4
  <2> QED BY <2>5 DEF Good
<1>5. v % Place(length) = v
  <2>1. Place(length) \in Nat \ {0}
    BY Places
  <2>2. ASSUME NEW q \in Nat \ {0}, NEW x \in 0 .. q - 1 PROVE x % q = x
    BY <2>2
  <2> QED BY <2>1, <2>2
<1> QED BY <1>1, <1>4, <1>5

(* A store puts the digits of its value into the bytes it names. *)
LEMMA StoreReads ==
  ASSUME MemorySpace < Pow2[WordBits], memory \in [Addresses -> Byte],
         NEW a \in Word, NEW length \in 1 .. 4, InBounds(a, length), NEW value \in Word
  PROVE  /\ Commented!Reads(store(a, length, value), a, length, value % Place(length))
         /\ \A m \in Addresses \ (a .. a + length - 1) : store(a, length, value)[m] = memory[m]
<1>1. \A k \in 0 .. length - 1 : Wrap(a + k) = a + k /\ a + k \in Addresses
  BY AccessesFit
<1>2. \A k \in 0 .. length - 1 : Cells(a, length)[k] = a + k
  BY <1>1 DEF Cells
<1>3. a \in Nat /\ value \in Nat
  BY WordWidth DEF Word
<1>4. ASSUME NEW k \in 0 .. length - 1
      PROVE  store(a, length, value)[a + k] = (value \div Place(k)) % Pow2[byteBits]
  <2> DEFINE c == CHOOSE j \in 0 .. length - 1 : Cells(a, length)[j] = a + k
  <2>1. \E j \in 0 .. length - 1 : Cells(a, length)[j] = a + k
    BY <1>2
  <2>2. c \in 0 .. length - 1 /\ Cells(a, length)[c] = a + k
    BY <2>1
  <2>3. c = k
    BY <1>2, <1>3, <2>2
  <2>4. store(a, length, value)[a + k] = LowBits(Shr(value, byteBits * c), byteBits)
    BY <1>1, <2>1 DEF store
  <2> QED BY <2>3, <2>4 DEF LowBits, Shr, Place
<1>5. ASSUME NEW k \in 0 .. length - 1
      PROVE  ((value % Place(length)) \div Place(k)) % Pow2[byteBits]
               = (value \div Place(k)) % Pow2[byteBits]
  <2> DEFINE B == Pow2[byteBits]
             low == value % Place(k)
             digit == (value \div Place(k)) % B
  <2>1. k \in 0 .. 3 /\ k \in 0 .. 4 /\ k + 1 \in 0 .. 4
    OBVIOUS
  <2>2. Place(k) \in Nat \ {0} /\ Place(k + 1) = Place(k) * B /\ B \in Nat \ {0}
    BY <2>1, Places
  <2>3. value % Place(k + 1) = low + digit * Place(k)
    BY <1>3, <2>2, DigitCut
  <2>4. low \in 0 .. Place(k) - 1 /\ digit \in 0 .. B - 1
    <3>1. ASSUME NEW x \in Nat, NEW q \in Nat \ {0} PROVE x % q \in 0 .. q - 1 /\ x \div q \in Nat
      BY <3>1
    <3> QED BY <1>3, <2>2, <3>1
  <2>5. \E X \in Nat : value % Place(length) = (value % Place(k + 1)) + Place(k + 1) * X
    <3>1. byteBits * (k + 1) \in ShiftCount /\ byteBits * (length - (k + 1)) \in ShiftCount
          /\ byteBits * (k + 1) + byteBits * (length - (k + 1)) = byteBits * length
          /\ byteBits * length \in ShiftCount
      BY <2>1, WidthAssumption DEF ShiftCount
    <3> DEFINE Q == Pow2[byteBits * (length - (k + 1))]
    <3>2. Place(length) = Place(k + 1) * Q
      BY <3>1, Pow2Sum DEF Place
    <3>3. Q \in Nat \ {0} /\ Place(k + 1) \in Nat \ {0}
      BY <2>1, <3>1, Pow2Facts, Places
    <3> HIDE DEF Q
    <3>4. value % (Place(k + 1) * Q)
            = (value % Place(k + 1)) + ((value \div Place(k + 1)) % Q) * Place(k + 1)
      BY <1>3, <3>3, DigitCut
    <3>5. (value \div Place(k + 1)) % Q \in Nat
      <4>1. ASSUME NEW x \in Nat, NEW q \in Nat \ {0} PROVE x % q \in Nat /\ x \div q \in Nat
        BY <4>1
      <4> QED BY <1>3, <3>3, <4>1
    <3>6. ASSUME NEW x \in Nat, NEW y \in Nat PROVE x * y = y * x
      OBVIOUS
    <3> QED BY <3>2, <3>3, <3>4, <3>5, <3>6
  <2>6. PICK X \in Nat : value % Place(length) = (value % Place(k + 1)) + Place(k + 1) * X
    BY <2>5
  <2> HIDE DEF low, digit, B
  <2>7. value % Place(length) = low + Place(k) * (digit + B * X)
    <3>1. ASSUME NEW p \in Nat, NEW d \in Nat, NEW x \in Nat
          PROVE  (x + d * p) + (p * B) * X = x + p * (d + B * X)
      <4>1. (p * B) * X = p * (B * X) /\ B * X \in Nat
        BY <2>2
      <4>2. ASSUME NEW y \in Nat PROVE p * (d + y) = d * p + p * y
        OBVIOUS
      <4>3. d * p \in Nat /\ p * (B * X) \in Nat
        BY <4>1
      <4> QED BY <4>1, <4>2, <4>3
    <3> QED BY <2>2, <2>3, <2>4, <2>6, <3>1
  <2>8. ((value % Place(length)) \div Place(k)) % B = digit
    <3>1. HasDigit(value % Place(length), Place(k), B, low, digit, X)
      BY <2>2, <2>4, <2>7, Zenon DEF HasDigit
    <3> QED BY <3>1, DigitOf
  <2> QED BY <2>8 DEF B, digit
<1>6. Commented!Reads(store(a, length, value), a, length, value % Place(length))
  BY <1>4, <1>5 DEF Commented!Reads, Place
<1>7. ASSUME NEW m \in Addresses \ (a .. a + length - 1)
      PROVE  store(a, length, value)[m] = memory[m]
  <2>1. ~\E k \in 0 .. length - 1 : Cells(a, length)[k] = m
    BY <1>2, <1>3
  <2> QED BY <2>1 DEF store
<1> QED BY <1>6, <1>7

-----------------------------------------------------------------------------
(***************************************************************************)
(* What the comments speak of: registers, immediates and the effects that  *)
(* are defined.                                                            *)
(***************************************************************************)

(* A handler's write of a register followed by the reset of R[0].            *)
LEMMA WritesRegister ==
  ASSUME MachineOK, NEW rd \in Regs, NEW value \in Word, NEW pc, NEW mem,
         Retire([R EXCEPT ![rd] = value], pc, mem)
  PROVE  /\ Commented!WriteTo(rd, value)
         /\ Commented!Goto(pc) /\ memory' = mem /\ status' = status
<1>1. R \in [Regs -> Word] /\ R[0] = 0 /\ 0 \in Regs
  BY MachineAssumption DEF MachineOK
<1>2. R' = [[R EXCEPT ![rd] = value] EXCEPT ![0] = 0]
  BY DEF Retire
<1>3. R' = IF rd = 0 THEN R ELSE [R EXCEPT ![rd] = value]
  <2>1. CASE rd = 0
    BY <1>1, <1>2, <2>1
  <2>2. CASE rd # 0
    BY <1>1, <1>2, <2>2
  <2> QED BY <2>1, <2>2
<1>4. Commented!WriteTo(rd, value)
  BY <1>3, Zenon DEF Commented!WriteTo
<1> QED BY <1>4 DEF Retire, Commented!Goto, Commented!InWord, Wrap

LEMMA KeepsRegisters ==
  ASSUME MachineOK, NEW pc, NEW mem, Retire(R, pc, mem)
  PROVE  Commented!Goto(pc) /\ R' = R /\ memory' = mem /\ status' = status
<1>1. R \in [Regs -> Word] /\ R[0] = 0 /\ 0 \in Regs
  BY MachineAssumption DEF MachineOK
<1>2. R' = R
  BY <1>1 DEF Retire
<1> QED BY <1>2 DEF Retire, Commented!Goto, Commented!InWord, Wrap

LEMMA ImmediateSigned ==
  ASSUME NEW imm \in Immediates
  PROVE  /\ sign_extend_number(imm, immBits) = Commented!SignExtended(imm)
         /\ Signed(imm, immBits) = Commented!SignExtended(imm)
         /\ imm < Pow2[immBits - 1] => Commented!SignExtended(imm) = imm
<1>1. immBits \in ShiftCount /\ Pow2[immBits] \in Nat \ {0}
  <2>1. immBits \in ShiftCount
    BY WidthAssumption DEF ShiftCount
  <2> QED BY <2>1, Pow2Facts
<1>2. imm % Pow2[immBits] = imm
  BY <1>1 DEF Immediates
<1>3. immBits - 1 \in ShiftCount
  BY WidthAssumption DEF ShiftCount
<1>4. Pow2[immBits - 1] \in Nat /\ imm \in Nat
  BY <1>1, <1>3, Pow2Facts DEF Immediates
<1> QED BY <1>2, <1>4 DEF sign_extend_number, LowBits, Signed, Commented!SignExtended

(* When the comments promise an effect. *)
LEMMA DefinedBy ==
  ASSUME NEW i
  PROVE  LET name == Mnemonic(i) IN
         /\ name = "invalid" => ~Commented!Defined(i)
         /\ name = "ecall" => (Commented!Defined(i) <=> R[10] \in {1, 4, 11})
         /\ name \in Commented!LoadNames \cup Commented!StoreNames
              => (Commented!Defined(i)
                    <=> Commented!FitsIn(Commented!Address(i), Commented!Width(i.funct3)))
         /\ name \in {"div", "rem"}
              => (Commented!Defined(i)
                    <=> \E q \in Word : R[i.rs2] # 0 /\ Ref!Computes("div", R[i.rs1], R[i.rs2], q))
         /\ name \in {"divu", "remu"} => (Commented!Defined(i) <=> R[i.rs2] # 0)
         /\ name \notin {"invalid", "ecall", "div", "rem", "divu", "remu"}
                          \cup Commented!LoadNames \cup Commented!StoreNames
              => Commented!Defined(i)
<1> DEFINE name == Mnemonic(i)
           fits == Commented!FitsIn(Commented!Address(i), Commented!Width(i.funct3))
           quotient == \E q \in Word : R[i.rs2] # 0 /\ Ref!Computes("div", R[i.rs1], R[i.rs2], q)
<1>1. Commented!LoadNames = {"lb", "lh", "lw", "lbu", "lhu"}
      /\ Commented!StoreNames = {"sb", "sh", "sw"}
  BY DEF Commented!LoadNames, Commented!StoreNames
<1>2. quotient <=> \E q \in Commented!Words :
                      R[i.rs2] # 0 /\ Commented!IsQuotient(Commented!S(R[i.rs1]),
                                                           Commented!S(R[i.rs2]), Commented!S(q))
  <2>1. Commented!Words = Word
    BY DEF Commented!Words, Word
  <2>2. \A q : Ref!Computes("div", R[i.rs1], R[i.rs2], q)
                 <=> Ref!IsQuotient(Ref!S(R[i.rs1]), Ref!S(R[i.rs2]), Ref!S(q))
    BY DEF Ref!Computes
  <2> QED BY <2>1, <2>2, SameComments
<1>3. Commented!Defined(i) <=>
        CASE name = "invalid"                                     -> FALSE
          [] name = "ecall"                                       -> R[10] \in {1, 4, 11}
          [] name \in Commented!LoadNames \cup Commented!StoreNames -> fits
          [] name \in {"div", "rem"}                              -> quotient
          [] name \in {"divu", "remu"}                            -> R[i.rs2] # 0
          [] OTHER                                                -> TRUE
  BY <1>2 DEF Commented!Defined
<1> HIDE DEF name, fits, quotient
<1> QED BY <1>1, <1>3 DEF name, fits, quotient

(* The names and the effects of the instructions, by format. *)
LEMMA NamesByOpcode ==
  ASSUME NEW i
  PROVE  /\ i.opcode = "0x33" => Mnemonic(i) = IF <<i.funct3, i.funct7>> \in DOMAIN RtypeName
                                               THEN RtypeName[<<i.funct3, i.funct7>>] ELSE "invalid"
         /\ i.opcode = "0x13" => Mnemonic(i) = ItypeName(i.funct3, i.imm)
         /\ i.opcode = "0x03" => Mnemonic(i) = IF i.funct3 \in DOMAIN LoadName
                                               THEN LoadName[i.funct3] ELSE "invalid"
         /\ i.opcode = "0x23" => Mnemonic(i) = IF i.funct3 \in DOMAIN StoreName
                                               THEN StoreName[i.funct3] ELSE "invalid"
         /\ i.opcode = "0x63" => Mnemonic(i) = IF i.funct3 \in DOMAIN BranchName
                                               THEN BranchName[i.funct3] ELSE "invalid"
         /\ i.opcode = "0x6F" => Mnemonic(i) = "jal"
         /\ i.opcode = "0x37" => Mnemonic(i) = "lui"
         /\ i.opcode = "0x73" => Mnemonic(i) = "ecall"
<1> DEFINE In(f, table) == IF f \in DOMAIN table THEN table[f] ELSE "invalid"
           rtype == In(<<i.funct3, i.funct7>>, RtypeName)
           itype == ItypeName(i.funct3, i.imm)
           loads == In(i.funct3, LoadName)
           stores == In(i.funct3, StoreName)
           branches == In(i.funct3, BranchName)
<1>1. Mnemonic(i) = CASE i.opcode = "0x33" -> rtype
                      [] i.opcode = "0x13" -> itype
                      [] i.opcode = "0x03" -> loads
                      [] i.opcode = "0x23" -> stores
                      [] i.opcode = "0x63" -> branches
                      [] i.opcode = "0x6F" -> "jal"
                      [] i.opcode = "0x37" -> "lui"
                      [] i.opcode = "0x73" -> "ecall"
  BY Zenon DEF Mnemonic
<1> HIDE DEF rtype, itype, loads, stores, branches
<1>2. /\ i.opcode = "0x33" => Mnemonic(i) = rtype
      /\ i.opcode = "0x13" => Mnemonic(i) = itype
      /\ i.opcode = "0x03" => Mnemonic(i) = loads
      /\ i.opcode = "0x23" => Mnemonic(i) = stores
      /\ i.opcode = "0x63" => Mnemonic(i) = branches
      /\ i.opcode = "0x6F" => Mnemonic(i) = "jal"
      /\ i.opcode = "0x37" => Mnemonic(i) = "lui"
      /\ i.opcode = "0x73" => Mnemonic(i) = "ecall"
  BY <1>1
<1> QED BY <1>2 DEF rtype, itype, loads, stores, branches

LEMMA EffectsByOpcode ==
  ASSUME NEW i
  PROVE  /\ i.opcode = "0x33" => (Commented!Effect(i) <=> Commented!Rtype(i, Mnemonic(i)))
         /\ i.opcode = "0x13" => (Commented!Effect(i) <=> Commented!Itype(i, Mnemonic(i)))
         /\ i.opcode = "0x03" => (Commented!Effect(i) <=> Commented!Load(i))
         /\ i.opcode = "0x23" => (Commented!Effect(i) <=> Commented!Store(i))
         /\ i.opcode = "0x63" => (Commented!Effect(i) <=> Commented!Branch(i, Mnemonic(i)))
         /\ i.opcode = "0x6F" => (Commented!Effect(i) <=> Commented!Jal(i))
         /\ i.opcode = "0x37" => (Commented!Effect(i) <=> Commented!Lui(i))
         /\ i.opcode = "0x73" => (Commented!Effect(i) <=> Commented!Ecall)
BY DEF Commented!Effect

(* No name of an arithmetic instruction is that of a load, store or system call. *)
Arithmetic == {"add", "sub", "mul", "mulh", "mulsu", "mulu", "sll", "srl", "sra", "slt",
               "sltu", "xor", "or", "and"}

-----------------------------------------------------------------------------
(***************************************************************************)
(* What a call of execute_emu that reached instruction i did, in the terms *)
(* of the comments.                                                        *)
(***************************************************************************)
Answers(i) ==
    \/ /\ status' = "running"
       /\ \/ Commented!Defined(i) /\ Commented!Effect(i)
          \/ Commented!Skipped(i) /\ Commented!Goto(PC + 4) /\ UNCHANGED <<R, memory>>
    \/ /\ status' = "exit 0" /\ Commented!Exits(i) /\ UNCHANGED <<R, PC, memory>>
    \/ /\ status' \in Statuses \ {"running", "exit 0"}
       /\ ~Commented!Defined(i) /\ ~Commented!Skipped(i) /\ ~Commented!Exits(i)
       /\ UNCHANGED <<R, PC, memory>>

(* An instruction that ends the process did not have an effect to promise. *)
LEMMA StopAnswers ==
  ASSUME NEW i, NEW how \in Statuses \ {"running", "exit 0"}, Stop(how),
         ~Commented!Defined(i), Mnemonic(i) # "ecall",
         Mnemonic(i) # "invalid" \/ i.opcode # "0x03"
  PROVE  Answers(i)
BY DEF Answers, Stop, Commented!Skipped, Commented!Exits

LEMMA RtypeAnswers ==
  ASSUME MachineOK, status = "running", NEW i \in Instructions, execute_rtype(i),
         ~Departs(Mnemonic(i), R[i.rs1], R[i.rs2])
  PROVE  Answers(i)
<1> DEFINE op == <<i.funct3, i.funct7>>
           a == R[i.rs1]
           b == R[i.rs2]
           name == RtypeName[op]
<1>1. i.opcode = "0x33" /\ i.rd \in Regs /\ a \in Word /\ b \in Word
  BY InstructionFields DEF execute_rtype, MachineOK
<1>2. Mnemonic(i) = IF op \in DOMAIN RtypeName THEN name ELSE "invalid"
  BY <1>1, NamesByOpcode
<1>3. op \in DOMAIN RtypeName =>
        name \in {"add", "sub", "mul", "mulh", "mulsu", "mulu", "sll", "srl", "sra",
                  "slt", "sltu", "xor", "or", "and", "div", "divu", "rem", "remu"}
  BY RtypeNames
<1>4. "exit -1" \in Statuses \ {"running", "exit 0"} /\ "SIGFPE" \in Statuses \ {"running", "exit 0"}
  BY DEF Statuses
<1>5. \/ op \notin DOMAIN RtypeName /\ Stop("exit -1")
      \/ op \in DOMAIN RtypeName /\ DivisionFaults(name, a, b) /\ Stop("SIGFPE")
      \/ /\ op \in DOMAIN RtypeName /\ ~DivisionFaults(name, a, b)
         /\ SetRd(i, rtype_value(name, a, b))
  BY DEF execute_rtype
<1> HIDE DEF op, a, b, name
<1>6. CASE op \notin DOMAIN RtypeName /\ Stop("exit -1")
  <2>1. Mnemonic(i) = "invalid"
    BY <1>2, <1>6
  <2>2. ~Commented!Defined(i)
    BY <2>1, DefinedBy
  <2> QED BY <1>1, <1>4, <1>6, <2>1, <2>2, StopAnswers
<1>7. CASE op \in DOMAIN RtypeName /\ DivisionFaults(name, a, b) /\ Stop("SIGFPE")
  <2>1. Mnemonic(i) = name /\ name \in {"div", "divu", "rem", "remu"}
    BY <1>2, <1>7 DEF DivisionFaults
  <2>2. name \in {"div", "rem"} => ~\E q \in Word : b # 0 /\ Ref!Computes("div", a, b, q)
    BY <1>1, <1>7, <2>1, NoQuotient
  <2>3. name \in {"divu", "remu"} => b = 0
    BY <1>7, <2>1 DEF DivisionFaults
  <2>4. ~Commented!Defined(i)
    BY <2>1, <2>2, <2>3, DefinedBy DEF a, b
  <2> QED BY <1>1, <1>4, <1>7, <2>1, <2>4, StopAnswers
<1>8. CASE /\ op \in DOMAIN RtypeName /\ ~DivisionFaults(name, a, b)
           /\ SetRd(i, rtype_value(name, a, b))
  <2> DEFINE d == rtype_value(name, a, b)
  <2>1. Mnemonic(i) = name
    BY <1>2, <1>8
  <2>2. d \in Word /\ Ref!Computes(name, a, b, d)
    <3>1. ~Departs(name, a, b)
      BY <2>1 DEF a, b
    <3> QED BY <1>1, <1>8, <3>1, RtypeComputed DEF name
  <2>3. /\ Commented!WriteTo(i.rd, d)
        /\ Commented!Goto(PC + 4) /\ memory' = memory /\ status' = status
    BY <1>1, <1>8, <2>2, WritesRegister DEF SetRd
  <2>4. Commented!Defined(i)
    <3>1. CASE name \in {"div", "rem"}
      <4>1. b # 0 /\ ~(SInt(a) = -Pow2[WordBits - 1] /\ SInt(b) = -1)
        BY <1>8, <3>1 DEF DivisionFaults
      <4>2. Ref!Computes("div", a, b, Wrap(Quotient(SInt(a), SInt(b))))
        BY <1>1, <4>1, SignedDivision
      <4>3. SInt(a) \in Int /\ SInt(b) \in Int /\ SInt(b) # 0
        BY <1>1, <4>1, Casts, SIntZero
      <4>4. Wrap(Quotient(SInt(a), SInt(b))) \in Word
        BY <4>3, QuotientType, WrapType
      <4> QED BY <2>1, <3>1, <4>1, <4>2, <4>4, DefinedBy DEF a, b
    <3>2. CASE name \in {"divu", "remu"}
      <4>1. b # 0
        BY <1>8, <3>2 DEF DivisionFaults
      <4> QED BY <2>1, <3>2, <4>1, DefinedBy DEF b
    <3>3. CASE name \in Arithmetic
      <4>1. name \notin {"invalid", "ecall", "div", "rem", "divu", "remu"}
                          \cup Commented!LoadNames \cup Commented!StoreNames
        BY <3>3 DEF Arithmetic, Commented!LoadNames, Commented!StoreNames
      <4> QED BY <2>1, <4>1, DefinedBy
    <3> QED BY <1>3, <1>8, <3>1, <3>2, <3>3 DEF Arithmetic
  <2>5. Commented!Rtype(i, name)
    <3>1. d \in Commented!Words /\ Commented!Computes(name, a, b, d)
      BY <2>2, SameComments DEF Commented!Words, Word
    <3> HIDE DEF d
    <3> QED BY <2>3, <3>1 DEF Commented!Rtype, a, b
  <2>6. Commented!Effect(i)
    BY <1>1, <2>1, <2>5, EffectsByOpcode
  <2> QED BY <2>3, <2>4, <2>6 DEF Answers
<1> QED BY <1>5, <1>6, <1>7, <1>8

LEMMA ItypeAnswers ==
  ASSUME MachineOK, status = "running", NEW i \in Instructions, execute_itype_except_load(i)
  PROVE  Answers(i)
<1> DEFINE name == ItypeName(i.funct3, i.imm)
           a == R[i.rs1]
           d == itype_value(name, a, i.imm)
           operand == IF name \in {"sltiu", "slli", "srli", "srai"}
                      THEN i.imm ELSE Wrap(Signed(i.imm, immBits))
<1>1. /\ i.opcode = "0x13" /\ i.rd \in Regs /\ a \in Word
      /\ i.funct3 \in 0 .. 7 /\ i.imm \in Immediates
  BY InstructionFields DEF execute_itype_except_load, MachineOK
<1>2. Mnemonic(i) = name
  BY <1>1, NamesByOpcode
<1>3. name \in {"invalid", "addi", "slli", "slti", "sltiu", "xori", "srli", "srai", "ori", "andi"}
  BY <1>1 DEF ItypeName
<1>4. \/ name = "invalid" /\ Stop("exit -1")
      \/ name # "invalid" /\ SetRd(i, d)
  BY DEF execute_itype_except_load
<1>5. name # "invalid" => d \in Word /\ Ref!Computes(Ref!Plain(name), a, operand, d)
  BY <1>1, ItypeComputed
<1>6. operand = IF name \in {"sltiu", "slli", "srli", "srai"}
                THEN i.imm ELSE Commented!InWord(Commented!SignExtended(i.imm))
  BY <1>1, ImmediateSigned DEF Wrap, Commented!InWord
<1> HIDE DEF name, a, d, operand
<1>7. CASE name = "invalid" /\ Stop("exit -1")
  <2>1. ~Commented!Defined(i)
    BY <1>2, <1>7, DefinedBy
  <2>2. "exit -1" \in Statuses \ {"running", "exit 0"}
    BY DEF Statuses
  <2> QED BY <1>1, <1>2, <1>7, <2>1, <2>2, StopAnswers
<1>8. CASE name # "invalid" /\ SetRd(i, d)
  <2>1. /\ Commented!WriteTo(i.rd, d)
        /\ Commented!Goto(PC + 4) /\ memory' = memory /\ status' = status
    BY <1>1, <1>5, <1>8, WritesRegister DEF SetRd
  <2>2. Commented!Defined(i)
    <3>1. name \notin {"invalid", "ecall", "div", "rem", "divu", "remu"}
                          \cup Commented!LoadNames \cup Commented!StoreNames
      BY <1>3, <1>8 DEF Commented!LoadNames, Commented!StoreNames
    <3> QED BY <1>2, <3>1, DefinedBy
  <2>3. Commented!Itype(i, name)
    <3>1. d \in Commented!Words /\ Commented!Computes(Commented!Plain(name), a, operand, d)
      BY <1>5, <1>8, SameComments DEF Commented!Words, Word
    <3> QED BY <1>6, <2>1, <3>1 DEF Commented!Itype, a
  <2>4. Commented!Effect(i)
    BY <1>1, <1>2, <2>3, EffectsByOpcode
  <2> QED BY <2>1, <2>2, <2>4 DEF Answers
<1> QED BY <1>4, <1>7, <1>8

LEMMA EcallAnswers ==
  ASSUME MachineOK, status = "running", NEW i \in Instructions, execute_ecall(i)
  PROVE  Answers(i)
<1>1. i.opcode = "0x73" /\ Mnemonic(i) = "ecall" /\ "exit -1" \in Statuses
  BY NamesByOpcode DEF execute_ecall, Statuses
<1>2. Commented!Defined(i) <=> R[10] \in {1, 4, 11}
  BY <1>1, DefinedBy
<1>3. Commented!Exits(i) <=> R[10] = 10
  BY <1>1 DEF Commented!Exits
<1>4. ~Commented!Skipped(i)
  BY <1>1 DEF Commented!Skipped
<1>5. CASE R[10] \in {1, 4, 11} /\ Retire(R, PC + 4, memory)
  <2>1. Commented!Goto(PC + 4) /\ R' = R /\ memory' = memory /\ status' = status
    BY <1>5, KeepsRegisters
  <2>2. Commented!Effect(i)
    BY <1>1, <2>1, EffectsByOpcode DEF Commented!Ecall
  <2> QED BY <1>2, <1>5, <2>1, <2>2 DEF Answers
<1>6. CASE R[10] = 10 /\ Stop("exit 0")
  BY <1>3, <1>6 DEF Answers, Stop
<1>7. CASE R[10] \notin {1, 4, 10, 11} /\ Stop("exit -1")
  BY <1>1, <1>2, <1>3, <1>4, <1>7 DEF Answers, Stop
<1> QED BY <1>5, <1>6, <1>7 DEF execute_ecall

LEMMA BranchAnswers ==
  ASSUME MachineOK, status = "running", NEW i \in Instructions, execute_branch(i)
  PROVE  Answers(i)
<1> DEFINE a == R[i.rs1]
           b == R[i.rs2]
           name == BranchName[i.funct3]
           taken == branch_taken(name, a, b)
<1>1. i.opcode = "0x63" /\ a \in Word /\ b \in Word
  BY InstructionFields DEF execute_branch, MachineOK
<1>2. Mnemonic(i) = IF i.funct3 \in DOMAIN BranchName THEN name ELSE "invalid"
  BY <1>1, NamesByOpcode
<1>3. \/ i.funct3 \notin DOMAIN BranchName /\ Stop("exit -1")
      \/ /\ i.funct3 \in DOMAIN BranchName
         /\ Retire(R, PC + (IF taken THEN i.imm ELSE 4), memory)
  BY DEF execute_branch
<1>4. CASE i.funct3 \notin DOMAIN BranchName /\ Stop("exit -1")
  <2>1. Mnemonic(i) = "invalid"
    BY <1>2, <1>4
  <2>2. ~Commented!Defined(i)
    BY <2>1, DefinedBy
  <2>3. "exit -1" \in Statuses \ {"running", "exit 0"}
    BY DEF Statuses
  <2> QED BY <1>1, <1>4, <2>1, <2>2, <2>3, StopAnswers
<1>5. CASE /\ i.funct3 \in DOMAIN BranchName
           /\ Retire(R, PC + (IF taken THEN i.imm ELSE 4), memory)
  <2>1. taken <=> Commented!Decides(name, a, b)
    BY <1>1, <1>5, BranchDecided, SameComments
  <2>2. Mnemonic(i) = name /\ name \in {"beq", "bne", "blt", "bge", "bltu", "bgeu"}
    BY <1>2, <1>5, BranchNames
  <2> HIDE DEF taken
  <2>3. /\ Commented!Goto(PC + (IF taken THEN i.imm ELSE 4))
        /\ R' = R /\ memory' = memory /\ status' = status
    BY <1>5, KeepsRegisters
  <2>4. Commented!Branch(i, name)
    <3>1. (IF taken THEN i.imm ELSE 4) = IF Commented!Decides(name, a, b) THEN i.imm ELSE 4
      BY <2>1
    <3> QED BY <2>3, <3>1 DEF Commented!Branch
  <2> HIDE DEF name
  <2>5. Commented!Defined(i)
    <3>1. name \notin {"invalid", "ecall", "div", "rem", "divu", "remu"}
                          \cup Commented!LoadNames \cup Commented!StoreNames
      BY <2>2 DEF Commented!LoadNames, Commented!StoreNames
    <3> QED BY <2>2, <3>1, DefinedBy
  <2>6. Commented!Effect(i)
    BY <1>1, <2>2, <2>4, EffectsByOpcode
  <2> QED BY <2>3, <2>5, <2>6 DEF Answers
<1> HIDE DEF taken
<1> QED BY <1>3, <1>4, <1>5

LEMMA JalAnswers ==
  ASSUME MachineOK, status = "running", NEW i \in Instructions, execute_jal(i)
  PROVE  Answers(i)
<1>1. i.opcode = "0x6F" /\ i.rd \in Regs /\ Mnemonic(i) = "jal"
  BY InstructionFields, NamesByOpcode DEF execute_jal
<1>2. Wrap(PC + 4) \in Word
  <2>1. PC + 4 \in Int
    BY WordWidth DEF MachineOK, Word
  <2> QED BY <2>1, WrapType
<1>3. /\ Commented!WriteTo(i.rd, Wrap(PC + 4))
      /\ Commented!Goto(PC + i.imm) /\ memory' = memory /\ status' = status
  BY <1>1, <1>2, WritesRegister DEF execute_jal
<1>4. Commented!Defined(i)
  BY <1>1, DefinedBy DEF Commented!LoadNames, Commented!StoreNames
<1>5. Commented!Effect(i)
  BY <1>1, <1>3, EffectsByOpcode DEF Commented!Jal, Wrap, Commented!InWord
<1> QED BY <1>3, <1>4, <1>5 DEF Answers

LEMMA LuiAnswers ==
  ASSUME MachineOK, status = "running", NEW i \in Instructions, execute_lui(i)
  PROVE  Answers(i)
<1> DEFINE d == Wrap(Shl(i.imm, immBits))
<1>1. i.opcode = "0x37" /\ i.rd \in Regs /\ Mnemonic(i) = "lui"
      /\ i.imm \in 0 .. Pow2[WordBits - immBits] - 1
  BY InstructionFields, NamesByOpcode DEF execute_lui
<1>2. d \in Word
  <2>1. immBits \in ShiftCount /\ WordBits - immBits \in ShiftCount
    BY WidthAssumption DEF ShiftCount, WordBits
  <2>2. Shl(i.imm, immBits) \in Int
    BY <1>1, <2>1, Pow2Facts, ShlType
  <2> QED BY <2>2, WrapType
<1>3. /\ Commented!WriteTo(i.rd, d)
      /\ Commented!Goto(PC + 4) /\ memory' = memory /\ status' = status
  BY <1>1, <1>2, WritesRegister DEF execute_lui, SetRd
<1>4. Commented!Defined(i)
  BY <1>1, DefinedBy DEF Commented!LoadNames, Commented!StoreNames
<1>5. d = Commented!InWord(i.imm * Pow2[immBits])
  BY DEF Wrap, Shl, Commented!InWord
<1>6. Commented!Effect(i)
  BY <1>1, <1>3, <1>5, EffectsByOpcode DEF Commented!Lui
<1> QED BY <1>3, <1>4, <1>6 DEF Answers

(* The lengths of the accesses. *)
LEMMA LoadLengths ==
  ASSUME NEW funct3 \in DOMAIN LoadName
  PROVE  LET name   == LoadName[funct3]
             length == CASE name \in {"lb", "lbu"} -> LENGTH_BYTE
                         [] name \in {"lh", "lhu"} -> LENGTH_HALF_WORD
                         [] name = "lw" -> LENGTH_WORD
         IN  /\ length = Commented!Width(funct3) /\ length \in {1, 2, 4}
             /\ name \in {"lb", "lh"} => funct3 < 4
             /\ name \in {"lbu", "lhu"} => funct3 >= 4
             /\ name = "lw" => length = 4
             /\ name \in {"lb", "lh", "lw", "lbu", "lhu"}
<1>1. funct3 \in {0, 1, 2, 4, 5}
  BY DEF LoadName
<1>2. /\ LoadName[0] = "lb" /\ LoadName[1] = "lh" /\ LoadName[2] = "lw"
      /\ LoadName[4] = "lbu" /\ LoadName[5] = "lhu"
  BY DEF LoadName
<1>3. /\ Commented!Width(0) = 1 /\ Commented!Width(1) = 2 /\ Commented!Width(2) = 4
      /\ Commented!Width(4) = 1 /\ Commented!Width(5) = 2
  BY DEF Commented!Width
<1>4. CASE funct3 = 0
  BY <1>2, <1>3, <1>4 DEF LENGTH_BYTE
<1>5. CASE funct3 = 1
  BY <1>2, <1>3, <1>5 DEF LENGTH_HALF_WORD
<1>6. CASE funct3 = 2
  BY <1>2, <1>3, <1>6 DEF LENGTH_WORD
<1>7. CASE funct3 = 4
  BY <1>2, <1>3, <1>7 DEF LENGTH_BYTE
<1>8. CASE funct3 = 5
  BY <1>2, <1>3, <1>8 DEF LENGTH_HALF_WORD
<1> QED BY <1>1, <1>4, <1>5, <1>6, <1>7, <1>8

LEMMA StoreLengths ==
  ASSUME NEW funct3 \in DOMAIN StoreName
  PROVE  LET name   == StoreName[funct3]
             length == CASE name = "sb" -> LENGTH_BYTE
                         [] name = "sh" -> LENGTH_HALF_WORD
                         [] name = "sw" -> LENGTH_WORD
         IN  /\ length = Commented!Width(funct3) /\ length \in {1, 2, 4}
             /\ name \in {"sb", "sh", "sw"}
<1>1. funct3 \in {0, 1, 2}
  BY DEF StoreName
<1>2. StoreName[0] = "sb" /\ StoreName[1] = "sh" /\ StoreName[2] = "sw"
  BY DEF StoreName
<1>3. Commented!Width(0) = 1 /\ Commented!Width(1) = 2 /\ Commented!Width(2) = 4
  BY DEF Commented!Width
<1>4. CASE funct3 = 0
  BY <1>2, <1>3, <1>4 DEF LENGTH_BYTE
<1>5. CASE funct3 = 1
  BY <1>2, <1>3, <1>5 DEF LENGTH_HALF_WORD
<1>6. CASE funct3 = 2
  BY <1>2, <1>3, <1>6 DEF LENGTH_WORD
<1> QED BY <1>1, <1>4, <1>5, <1>6

(* A load writes what the comment says: the number read, with its sign       *)
(* extended but for the unsigned loads.                                      *)
LEMMA LoadedValue ==
  ASSUME NEW length \in {1, 2, 4}, NEW raw \in 0 .. Place(length) - 1
  PROVE  LET bits == byteBits * length
             extended == IF raw < Pow2[bits - 1] THEN raw ELSE Wrap(raw - Pow2[bits])
         IN  /\ raw \in Word /\ Wrap(sign_extend_number(raw, bits)) \in Word
             /\ Wrap(sign_extend_number(raw, bits)) = extended
             /\ length = 4 => raw = extended
<1> DEFINE bits == byteBits * length
           H == Pow2[bits - 1]
           P == Pow2[bits]
           W == Pow2[WordBits]
<1>1. length \in 1 .. 4 /\ length \in 0 .. 4
  OBVIOUS
<1>2. /\ bits \in 1 .. 63 /\ bits \in ShiftCount /\ bits - 1 \in ShiftCount /\ bits <= WordBits
      /\ length = 4 => bits = WordBits
  BY WidthAssumption DEF ShiftCount, WordBits
<1>3. H \in Nat \ {0} /\ P \in Nat \ {0} /\ W \in Nat \ {0} /\ P <= W /\ raw \in 0 .. P - 1
      /\ W \in Nat
  BY <1>1, <1>2, Pow2Facts, WordWidth, Pow2Grows DEF Place
<1>4. raw \in Word /\ raw \in Int /\ Wrap(raw) = raw
  BY <1>3, WrapIdentity DEF Word
<1>5. raw % P = raw
  <2> HIDE DEF P
  <2> QED BY <1>3
<1>6. sign_extend_number(raw, bits) = IF raw < H THEN raw ELSE raw - P
  <2>1. sign_extend_number(raw, bits) = IF raw >= H THEN raw - P ELSE raw
    BY <1>5 DEF sign_extend_number, LowBits, Signed
  <2> HIDE DEF H, P
  <2> QED BY <1>3, <1>4, <2>1
<1>7. sign_extend_number(raw, bits) \in Int
  BY <1>3, <1>6
<1>8. length = 4 => Wrap(raw - P) = raw
  <2> SUFFICES ASSUME length = 4 PROVE (raw - W) % W = raw
    BY <1>2 DEF Wrap
  <2>1. raw \in 0 .. W - 1
    BY <1>3
  <2>2. ASSUME NEW w \in Nat \ {0}, NEW x \in 0 .. w - 1 PROVE (x - w) % w = x
    <3>1. x - w = w * (-1) + x
      BY <2>2
    <3> QED BY <2>2, <3>1
  <2> HIDE DEF W
  <2> QED BY <1>3, <2>1, <2>2
<1>9. Wrap(sign_extend_number(raw, bits)) \in Word
  BY <1>7, WrapType
<1> QED BY <1>4, <1>6, <1>8, <1>9

LEMMA LoadAnswers ==
  ASSUME MemorySpace < Pow2[WordBits], MachineOK, status = "running",
         NEW i \in Instructions, execute_load(i)
  PROVE  Answers(i)
<1> DEFINE address == Wrap(R[i.rs1] + sign_extend_number(i.imm, immBits))
           name    == LoadName[i.funct3]
           length  == CASE name \in {"lb", "lbu"} -> LENGTH_BYTE
                        [] name \in {"lh", "lhu"} -> LENGTH_HALF_WORD
                        [] name = "lw" -> LENGTH_WORD
           raw     == load(address, length)
           value   == IF name \in {"lb", "lh"}
                      THEN Wrap(sign_extend_number(raw, byteBits * length))
                      ELSE raw
<1>1. /\ i.opcode = "0x03" /\ i.rd \in Regs /\ R[i.rs1] \in Word /\ i.imm \in Immediates
      /\ i.funct3 \in Int
      /\ memory \in [Addresses -> Byte]
  BY InstructionFields DEF execute_load, MachineOK
<1>2. Mnemonic(i) = IF i.funct3 \in DOMAIN LoadName THEN name ELSE "invalid"
  BY <1>1, NamesByOpcode
<1>3. \/ i.funct3 \notin DOMAIN LoadName /\ Retire(R, PC + 4, memory)
      \/ i.funct3 \in DOMAIN LoadName /\ InBounds(address, length) /\ SetRd(i, value)
      \/ i.funct3 \in DOMAIN LoadName /\ ~InBounds(address, length) /\ Stop("undefined")
  BY DEF execute_load
<1>4. address \in Word /\ address = Commented!Address(i)
  <2>1. R[i.rs1] + sign_extend_number(i.imm, immBits) \in Int
    BY <1>1, ImmediateType, WordWidth DEF Word
  <2> QED BY <1>1, <2>1, WrapType, ImmediateSigned DEF Commented!Address, Commented!InWord, Wrap
<1>5. i.funct3 \in DOMAIN LoadName =>
        /\ length = Commented!Width(i.funct3) /\ length \in {1, 2, 4}
        /\ name \in {"lb", "lh"} => i.funct3 < 4
        /\ name \in {"lbu", "lhu"} => i.funct3 >= 4
        /\ name = "lw" => length = 4
        /\ name \in {"lb", "lh", "lw", "lbu", "lhu"}
        /\ name = "lw" => i.funct3 < 4
  <2>1. LoadName[5] = "lhu" /\ LoadName[4] = "lbu" /\ DOMAIN LoadName = {0, 1, 2, 4, 5}
    BY DEF LoadName
  <2> QED BY <2>1, LoadLengths
<1> HIDE DEF address, name, length
<1>6. i.funct3 \in DOMAIN LoadName =>
         (Commented!Defined(i) <=> InBounds(address, length))
  <2> SUFFICES ASSUME i.funct3 \in DOMAIN LoadName
               PROVE  Commented!Defined(i) <=> InBounds(address, length)
    OBVIOUS
  <2>1. Mnemonic(i) \in Commented!LoadNames \cup Commented!StoreNames
    BY <1>2, <1>5 DEF Commented!LoadNames
  <2>2. length \in 1 .. 4
    BY <1>5
  <2>3. InBounds(address, length) <=> Commented!FitsIn(address, length)
    BY <1>4, <2>2, AccessesFit
  <2> QED BY <1>4, <1>5, <2>1, <2>3, DefinedBy
<1>7. CASE i.funct3 \notin DOMAIN LoadName /\ Retire(R, PC + 4, memory)
  <2>1. Commented!Goto(PC + 4) /\ R' = R /\ memory' = memory /\ status' = status
    BY <1>7, KeepsRegisters
  <2>2. Commented!Skipped(i)
    BY <1>1, <1>2, <1>7 DEF Commented!Skipped
  <2> QED BY <2>1, <2>2 DEF Answers
<1>8. CASE i.funct3 \in DOMAIN LoadName /\ InBounds(address, length) /\ SetRd(i, value)
  <2>1. length \in {1, 2, 4} /\ length \in 1 .. 4 /\ length = Commented!Width(i.funct3)
    BY <1>5, <1>8
  <2>2. raw \in 0 .. Place(length) - 1 /\ Commented!Reads(memory, address, length, raw)
    BY <1>1, <1>4, <1>8, <2>1, LoadReads
  <2> DEFINE bits == byteBits * length
             extended == IF raw < Pow2[bits - 1] THEN raw ELSE Wrap(raw - Pow2[bits])
  <2>3. /\ raw \in Word /\ Wrap(sign_extend_number(raw, bits)) \in Word
        /\ Wrap(sign_extend_number(raw, bits)) = extended
        /\ length = 4 => raw = extended
    BY <2>1, <2>2, LoadedValue
  <2>4. value \in Word
    BY <2>3
  <2>5. value = IF i.funct3 >= 4 THEN raw ELSE extended
    <3> HIDE DEF extended, raw
    <3>1. name \in {"lb", "lh"} => value = extended /\ ~(i.funct3 >= 4)
      BY <1>1, <1>5, <1>8, <2>3
    <3>2. name \in {"lbu", "lhu"} => value = raw /\ i.funct3 >= 4
      BY <1>5, <1>8
    <3>3. name = "lw" => value = extended /\ ~(i.funct3 >= 4)
      BY <1>1, <1>5, <1>8, <2>3
    <3> QED BY <1>5, <1>8, <3>1, <3>2, <3>3
  <2>6. /\ Commented!WriteTo(i.rd, value)
        /\ Commented!Goto(PC + 4) /\ memory' = memory /\ status' = status
    BY <1>1, <1>8, <2>4, WritesRegister DEF SetRd
  <2>7. value = IF i.funct3 >= 4 \/ raw < Pow2[bits - 1]
                THEN raw ELSE Commented!InWord(raw - Pow2[bits])
    <3> HIDE DEF value, raw
    <3> QED BY <2>5 DEF Wrap, Commented!InWord
  <2>8. raw \in 0 .. Pow2[bits] - 1
    BY <2>2 DEF Place
  <2> HIDE DEF value, raw
  <2>9. Commented!Load(i)
    <3>1. /\ raw \in 0 .. Pow2[byteBits * Commented!Width(i.funct3)] - 1
          /\ Commented!Reads(memory, Commented!Address(i), Commented!Width(i.funct3), raw)
          /\ Commented!WriteTo(i.rd, IF i.funct3 >= 4
                                        \/ raw < Pow2[byteBits * Commented!Width(i.funct3) - 1]
                                     THEN raw
                                     ELSE Commented!InWord(raw - Pow2[byteBits * Commented!Width(i.funct3)]))
      BY <1>4, <2>1, <2>2, <2>6, <2>7, <2>8
    <3> QED BY <2>6, <3>1 DEF Commented!Load
  <2>10. Commented!Effect(i) /\ Commented!Defined(i)
    BY <1>1, <1>6, <1>8, <2>9, EffectsByOpcode
  <2> QED BY <2>6, <2>10 DEF Answers
<1>9. CASE i.funct3 \in DOMAIN LoadName /\ ~InBounds(address, length) /\ Stop("undefined")
  <2>1. ~Commented!Defined(i)
    BY <1>6, <1>9
  <2>2. Mnemonic(i) \notin {"ecall", "invalid"}
    BY <1>2, <1>5, <1>9
  <2>3. "undefined" \in Statuses \ {"running", "exit 0"}
    BY DEF Statuses
  <2> QED BY <1>9, <2>1, <2>2, <2>3, StopAnswers
<1> HIDE DEF value
<1> QED BY <1>3, <1>7, <1>8, <1>9

LEMMA StoreAnswers ==
  ASSUME MemorySpace < Pow2[WordBits], MachineOK, status = "running",
         NEW i \in Instructions, execute_store(i),
         Mnemonic(i) \in {"sb", "sh", "sw"} => i.imm < Pow2[immBits - 1]
  PROVE  Answers(i)
<1> DEFINE address == Wrap(R[i.rs1] + get_store_offset(i))
           name    == StoreName[i.funct3]
           length  == CASE name = "sb" -> LENGTH_BYTE
                        [] name = "sh" -> LENGTH_HALF_WORD
                        [] name = "sw" -> LENGTH_WORD
<1>1. /\ i.opcode = "0x23" /\ R[i.rs1] \in Word /\ R[i.rs2] \in Word /\ i.imm \in Immediates
      /\ memory \in [Addresses -> Byte]
  BY InstructionFields DEF execute_store, MachineOK
<1>2. Mnemonic(i) = IF i.funct3 \in DOMAIN StoreName THEN name ELSE "invalid"
  BY <1>1, NamesByOpcode
<1>3. \/ i.funct3 \notin DOMAIN StoreName /\ Stop("exit -1")
      \/ /\ i.funct3 \in DOMAIN StoreName /\ InBounds(address, length)
         /\ Retire(R, PC + 4, store(address, length, R[i.rs2]))
      \/ i.funct3 \in DOMAIN StoreName /\ ~InBounds(address, length) /\ Stop("undefined")
  BY DEF execute_store
<1>4. i.funct3 \in DOMAIN StoreName =>
        /\ length = Commented!Width(i.funct3) /\ length \in {1, 2, 4} /\ length \in 1 .. 4
        /\ name \in {"sb", "sh", "sw"}
  BY StoreLengths
<1>5. address \in Word /\ (i.funct3 \in DOMAIN StoreName => address = Commented!Address(i))
  <2>1. R[i.rs1] + i.imm \in Int
    BY <1>1, ImmediateType, WordWidth DEF Word
  <2>2. i.funct3 \in DOMAIN StoreName => Commented!SignExtended(i.imm) = i.imm
    BY <1>1, <1>2, <1>4, ImmediateSigned
  <2> QED BY <2>1, <2>2, WrapType DEF get_store_offset, Commented!Address, Commented!InWord, Wrap
<1> HIDE DEF address, name, length
<1>6. i.funct3 \in DOMAIN StoreName =>
         (Commented!Defined(i) <=> InBounds(address, length))
  <2> SUFFICES ASSUME i.funct3 \in DOMAIN StoreName
               PROVE  Commented!Defined(i) <=> InBounds(address, length)
    OBVIOUS
  <2>1. Mnemonic(i) \in Commented!LoadNames \cup Commented!StoreNames
    BY <1>2, <1>4 DEF Commented!StoreNames
  <2>2. InBounds(address, length) <=> Commented!FitsIn(address, length)
    BY <1>4, <1>5, AccessesFit
  <2> QED BY <1>4, <1>5, <2>1, <2>2, DefinedBy
<1>7. CASE i.funct3 \notin DOMAIN StoreName /\ Stop("exit -1")
  <2>1. ~Commented!Defined(i)
    BY <1>2, <1>7, DefinedBy
  <2>2. "exit -1" \in Statuses \ {"running", "exit 0"}
    BY DEF Statuses
  <2> QED BY <1>1, <1>2, <1>7, <2>1, <2>2, StopAnswers
<1>8. CASE /\ i.funct3 \in DOMAIN StoreName /\ InBounds(address, length)
           /\ Retire(R, PC + 4, store(address, length, R[i.rs2]))
  <2> DEFINE mem    == store(address, length, R[i.rs2])
             others == Addresses \ (address .. address + length - 1)
  <2>1. length \in 1 .. 4 /\ length = Commented!Width(i.funct3) /\ address = Commented!Address(i)
    BY <1>4, <1>5, <1>8
  <2>2. /\ Commented!Reads(mem, address, length, R[i.rs2] % Place(length))
        /\ \A m \in others : mem[m] = memory[m]
    <3>1. /\ address \in Word /\ length \in 1 .. 4 /\ InBounds(address, length)
          /\ R[i.rs2] \in Word /\ memory \in [Addresses -> Byte]
      BY <1>1, <1>5, <1>8, <2>1
    <3> HIDE DEF mem
    <3>2. mem = store(address, length, R[i.rs2])
      BY DEF mem
    <3> QED BY <3>1, <3>2, StoreReads
  <2> HIDE DEF mem
  <2>3. Commented!Goto(PC + 4) /\ R' = R /\ memory' = mem /\ status' = status
    BY <1>8, KeepsRegisters DEF mem
  <2>4. Commented!Restrict(mem, others) = Commented!Restrict(memory, others)
    BY <2>2 DEF Commented!Restrict
  <2>5. Commented!Bytes = Addresses
    BY DEF Commented!Bytes, Addresses
  <2>6. Commented!Store(i)
    BY <2>1, <2>2, <2>3, <2>4, <2>5 DEF Commented!Store, Place
  <2>7. Commented!Effect(i) /\ Commented!Defined(i)
    BY <1>1, <1>6, <1>8, <2>6, EffectsByOpcode
  <2> QED BY <2>3, <2>7 DEF Answers
<1>9. CASE i.funct3 \in DOMAIN StoreName /\ ~InBounds(address, length) /\ Stop("undefined")
  <2>1. ~Commented!Defined(i)
    BY <1>6, <1>9
  <2>2. Mnemonic(i) \notin {"ecall", "invalid"}
    BY <1>2, <1>4, <1>9
  <2>3. "undefined" \in Statuses \ {"running", "exit 0"}
    BY DEF Statuses
  <2> QED BY <1>9, <2>1, <2>2, <2>3, StopAnswers
<1> QED BY <1>3, <1>7, <1>8, <1>9

(* Every handler answers for its instruction. *)
LEMMA InstructionAnswers ==
  ASSUME MemorySpace < Pow2[WordBits], MachineOK, status = "running",
         NEW i \in Instructions, execute_instruction(i),
         ~Departs(Mnemonic(i), R[i.rs1], R[i.rs2]),
         Mnemonic(i) \in {"sb", "sh", "sw"} => i.imm < Pow2[immBits - 1]
  PROVE  Answers(i)
BY RtypeAnswers, ItypeAnswers, EcallAnswers, BranchAnswers, JalAnswers, StoreAnswers,
   LoadAnswers, LuiAnswers DEF execute_instruction

(* The instruction that the comments fetch is the one that execute_emu decodes. *)
LEMMA FetchesSame ==
  ASSUME MemorySpace < Pow2[WordBits], MachineOK
  PROVE  /\ ~InBounds(PC, LENGTH_WORD) => Commented!Fetched = {}
         /\ InBounds(PC, LENGTH_WORD) =>
              LET word == load(PC, LENGTH_WORD) IN
              Commented!Fetched = IF word \in DOMAIN InstructionOf
                                  THEN {InstructionOf[word]} ELSE {}
<1>1. PC \in Word /\ memory \in [Addresses -> Byte] /\ 4 \in 1 .. 4 /\ LENGTH_WORD = 4
  BY DEF MachineOK, LENGTH_WORD
<1>2. InBounds(PC, 4) <=> Commented!FitsIn(PC, 4)
  BY <1>1, AccessesFit
<1>3. CASE ~InBounds(PC, 4)
  <2>1. Commented!Fetched = {}
    BY <1>2, <1>3 DEF Commented!Fetched
  <2> QED BY <1>1, <1>3, <2>1
<1>4. CASE InBounds(PC, 4)
  <2> DEFINE word == load(PC, 4)
  <2>1. Commented!Reads(memory, PC, 4, word)
    BY <1>1, <1>4, LoadReads
  <2>2. \A v \in DOMAIN InstructionOf : v \in 0 .. Place(4) - 1
    BY MachineAssumption, Places DEF Word
  <2>3. \A v \in DOMAIN InstructionOf : Commented!Reads(memory, PC, 4, v) => v = word
    BY <1>1, <1>4, <2>2, ReadsOnce
  <2> HIDE DEF word
  <2>4. Commented!Fetched = IF word \in DOMAIN InstructionOf
                            THEN {InstructionOf[word]} ELSE {}
    BY <1>2, <1>4, <2>1, <2>3 DEF Commented!Fetched
  <2> QED BY <1>1, <1>4, <2>4 DEF word
<1> QED BY <1>1, <1>3, <1>4

(* The states of the commented machine. *)
LEMMA StateWhileRunning ==
  status = "running" /\ phase \in {"load", "emulate"} => State = IF phase = "load" THEN "loading" ELSE "running"
BY DEF State

LEMMA EmulateRefines ==
  ASSUME MemorySpace < Pow2[WordBits], TypeOK, ~Departing, emulate
  PROVE  Commented!Next
<1>1. MachineOK /\ status = "running" /\ phase = "emulate" /\ Continues /\ execute_emu
      /\ phase' = phase /\ opt' = opt /\ programsize' = programsize /\ simins' = Counted
  BY DEF TypeOK, MachineOK, emulate, execute_emu
<1>2. State = "running"
  BY <1>1, StateWhileRunning
<1>3. status' = "running" => State' = "running"
  BY <1>1 DEF State
<1>4. status' = "exit 0" => State' = "exited"
  BY <1>1 DEF State
<1>5. ASSUME status' \in Statuses \ {"running", "exit 0"} PROVE State' = "failed"
  <2>1. simins' = simins
    BY <1>1, <1>5 DEF Counted
  <2>2. Continues'
    BY <1>1, <2>1 DEF Continues
  <2>3. ~Finished'
    BY <2>2 DEF Finished
  <2>4. status' \in {"exit -1", "EXIT_FAILURE", "SIGFPE", "undefined"}
    BY <1>5 DEF Statuses
  <2> QED BY <1>1, <2>3, <2>4 DEF State
<1>6. ASSUME Commented!Fetched = {}, NEW how \in {"undefined", "EXIT_FAILURE"}, Stop(how)
      PROVE  Commented!Next
  <2>1. State' = "failed"
    BY <1>5, <1>6 DEF Stop, Statuses
  <2> QED BY <1>2, <1>6, <2>1 DEF Stop, Commented!Next, Commented!Fail
<1>7. CASE ~InBounds(PC, LENGTH_WORD) /\ Stop("undefined")
  BY <1>1, <1>6, <1>7, FetchesSame
<1>8. CASE /\ InBounds(PC, LENGTH_WORD)
           /\ load(PC, LENGTH_WORD) \notin DOMAIN InstructionOf /\ Stop("EXIT_FAILURE")
  BY <1>1, <1>6, <1>8, FetchesSame
<1>9. CASE /\ InBounds(PC, LENGTH_WORD)
           /\ load(PC, LENGTH_WORD) \in DOMAIN InstructionOf
           /\ execute_instruction(InstructionOf[load(PC, LENGTH_WORD)])
  <2> DEFINE i == InstructionOf[load(PC, LENGTH_WORD)]
  <2>1. i \in Instructions
    BY <1>9, MachineAssumption
  <2>2. Commented!Fetched = {i}
    BY <1>1, <1>9, FetchesSame
  <2>3. i = Current /\ Executing
    BY <1>1, <1>9 DEF Current, Executing
  <2>4. /\ ~Departs(Mnemonic(i), R[i.rs1], R[i.rs2])
        /\ Mnemonic(i) \in {"sb", "sh", "sw"} => ~(i.imm >= Pow2[immBits - 1])
    BY <2>3 DEF Departing
  <2> HIDE DEF i
  <2>5. Mnemonic(i) \in {"sb", "sh", "sw"} => i.imm < Pow2[immBits - 1]
    <3>1. Mnemonic(i) \in {"sb", "sh", "sw"} => i.imm \in Immediates
      <4>1. i.opcode \in {"0x33", "0x13", "0x03", "0x23", "0x63", "0x6F", "0x37", "0x73"}
        BY <2>1 DEF Instructions
      <4>2. Mnemonic(i) \in {"sb", "sh", "sw"} => i.opcode = "0x23"
        <5>1. CASE i.opcode = "0x33"
          BY <5>1, NamesByOpcode, RtypeNames
        <5>2. CASE i.opcode = "0x13"
          <6>1. i.funct3 \in 0 .. 7
            BY <2>1, <5>2, InstructionFields
          <6>2. ItypeName(i.funct3, i.imm) \in {"invalid", "addi", "slli", "slti", "sltiu",
                                               "xori", "srli", "srai", "ori", "andi"}
            BY <6>1 DEF ItypeName
          <6> QED BY <5>2, <6>2, NamesByOpcode
        <5>3. CASE i.opcode = "0x03"
          BY <5>3, NamesByOpcode, LoadNames
        <5>4. CASE i.opcode = "0x63"
          BY <5>4, NamesByOpcode, BranchNames
        <5>5. CASE i.opcode \in {"0x6F", "0x37", "0x73"}
          BY <5>5, NamesByOpcode
        <5> QED BY <4>1, <5>1, <5>2, <5>3, <5>4, <5>5
      <4> QED BY <2>1, <4>2, InstructionFields
    <3>2. Pow2[immBits - 1] \in Nat
      <4>1. immBits - 1 \in ShiftCount
        BY WidthAssumption DEF ShiftCount
      <4> QED BY <4>1, Pow2Facts
    <3> QED BY <2>4, <3>1, <3>2 DEF Immediates
  <2>6. execute_instruction(i)
    BY <1>9 DEF i
  <2>7. Answers(i)
    BY <1>1, <2>1, <2>4, <2>5, <2>6, InstructionAnswers
  <2>8. CASE /\ status' = "running"
             /\ \/ Commented!Defined(i) /\ Commented!Effect(i)
                \/ Commented!Skipped(i) /\ Commented!Goto(PC + 4) /\ UNCHANGED <<R, memory>>
    <3>1. State' = State
      BY <1>2, <1>3, <2>8
    <3> QED BY <1>2, <2>2, <2>8, <3>1 DEF Commented!Next, Commented!Step
  <2>9. CASE status' = "exit 0" /\ Commented!Exits(i) /\ UNCHANGED <<R, PC, memory>>
    <3>1. State' = "exited"
      BY <1>4, <2>9
    <3> QED BY <1>2, <2>2, <2>9, <3>1 DEF Commented!Next, Commented!Exit
  <2>10. CASE /\ status' \in Statuses \ {"running", "exit 0"}
              /\ ~Commented!Defined(i) /\ ~Commented!Skipped(i) /\ ~Commented!Exits(i)
              /\ UNCHANGED <<R, PC, memory>>
    <3>1. State' = "failed"
      BY <1>5, <2>10
    <3> QED BY <1>2, <2>2, <2>10, <3>1 DEF Commented!Next, Commented!Fail
  <2> QED BY <2>7, <2>8, <2>9, <2>10 DEF Answers
<1> QED BY <1>1, <1>7, <1>8, <1>9 DEF execute_emu

LEMMA StepRefines ==
  ASSUME MemorySpace < Pow2[WordBits], TypeOK, ~Departing, [Next]_vars
  PROVE  [Commented!Next]_(Commented!vars)
<1>1. CASE load_line
  <2>1. State = "loading"
    BY <1>1, StateWhileRunning DEF load_line
  <2>2. status' \in {"running", "undefined", "EXIT_FAILURE"} /\ phase' = "load"
    BY <1>1 DEF load_line
  <2>3. State' \in {"loading", "failed"}
    BY <2>2 DEF State, Finished
  <2> QED BY <2>1, <2>3 DEF Commented!Next, Commented!Loading
<1>2. CASE load_missing_file
  <2>1. State = "loading"
    BY <1>2, StateWhileRunning DEF load_missing_file
  <2>2. State' = "failed"
    BY <1>2 DEF load_missing_file, State, Finished
  <2> QED BY <2>1, <2>2 DEF Commented!Next, Commented!Loading
<1>3. CASE initialize_cpu
  <2>1. State = "loading" /\ phase' \in {"load", "emulate"}
    BY <1>3, StateWhileRunning DEF initialize_cpu
  <2>2. CASE opt.disasm
    <3>1. State' = "off"
      BY <1>3, <2>2 DEF initialize_cpu, State
    <3> QED BY <2>1, <3>1 DEF Commented!Next, Commented!Loading
  <2>3. CASE ~opt.disasm
    <3>1. State' = "running"
      BY <1>3, <2>3 DEF initialize_cpu, State
    <3>2. R'[0] = 0
      BY <1>3, <2>3, MachineAssumption DEF initialize_cpu
    <3> QED BY <2>1, <3>1, <3>2 DEF Commented!Next, Commented!Start
  <2> QED BY <2>2, <2>3
<1>4. CASE emulate
  BY <1>4, EmulateRefines
<1>5. CASE return
  <2>1. State = "running"
    BY <1>5, StateWhileRunning DEF return
  <2>2. ~Continues' /\ phase' = "emulate" /\ status' \in {"returned", "undefined"}
    BY <1>5 DEF return, Continues, DumpAndReturn
  <2>3. State' = "off"
    BY <2>2 DEF State, Finished
  <2> QED BY <1>5, <2>1, <2>3 DEF return, Commented!Next, Commented!SwitchOff
<1>6. CASE UNCHANGED vars
  <2>1. State' = State
    BY <1>6 DEF vars, State, Finished, Continues
  <2> QED BY <1>6, <2>1 DEF vars, Commented!vars
<1> QED BY <1>1, <1>2, <1>3, <1>4, <1>5, <1>6 DEF Next, ended

(* The emulator implements the machine of its comments, for every width,      *)
(* memory, program and input, as long as it executes none of the instructions *)
(* that are known to do something else; MEMORY_SPACE is less than the words   *)
(* can address (2^20 of 2^32, types.h:46).                              *)
THEOREM ImplementsCommentsHolds ==
  ASSUME MemorySpace < Pow2[WordBits]
  PROVE  Spec /\ [](~Departing) => ImplementsComments
<1>1. Init => Commented!Init
  BY DEF Init, Commented!Init, State
<1>2. TypeOK /\ ~Departing /\ [Next]_vars => [Commented!Next]_(Commented!vars)
  BY StepRefines
<1> QED BY <1>1, <1>2, TypeInit, TypeNext, PTL DEF Spec, ImplementsComments, Commented!Spec

=============================================================================
