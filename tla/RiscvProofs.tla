---------------------------- MODULE RiscvProofs -----------------------------
(***************************************************************************)
(* Theorems about module Riscv, for every width of the machine, every      *)
(* memory and every input file.                                            *)
(***************************************************************************)
EXTENDS Riscv, AluProofs

-----------------------------------------------------------------------------
(* The four assignments of a word to memory, and the fetch that undoes them. *)

\* Byte j of a word, the lowest first: what load_program stores at offset + j.
ByteOf(word, j) == LowBits(Shr(word, byteBits * j), byteBits)

(* The recursion of load, unrolled.                                          *)
Term(address, n) == Shl(memory[Wrap(address + n - 1)], byteBits * (n - 1))

LEMMA LoadTerms ==
  ASSUME NEW address, NEW length \in 1 .. 4
  PROVE  \E f : /\ f[0] = 0
                /\ \A n \in 1 .. length : f[n] = f[n - 1] + Term(address, n)
                /\ load(address, length) = f[length]
<1> DEFINE term(n) == Term(address, n)
           Sum(f) == f = [n \in 0 .. length |-> IF n = 0 THEN 0 ELSE f[n - 1] + term(n)]
<1> HIDE DEF term
<1>1. \E f : Sum(f)
  <2> DEFINE g == [n \in 0 .. length |->
                     CASE n = 0 -> 0
                       [] n = 1 -> 0 + term(1)
                       [] n = 2 -> 0 + term(1) + term(2)
                       [] n = 3 -> 0 + term(1) + term(2) + term(3)
                       [] OTHER -> 0 + term(1) + term(2) + term(3) + term(4)]
  <2>1. ASSUME NEW n \in 0 .. length PROVE g[n] = IF n = 0 THEN 0 ELSE g[n - 1] + term(n)
    <3>1. CASE n = 0
      BY <3>1
    <3>2. CASE n = 1
      BY <3>2
    <3>3. CASE n = 2
      BY <3>3
    <3>4. CASE n = 3
      BY <3>4
    <3>5. CASE n = 4
      BY <3>5
    <3> QED BY <3>1, <3>2, <3>3, <3>4, <3>5
  <2>2. Sum(g)
    BY <2>1
  <2> HIDE DEF g
  <2> QED BY <2>2
<1>2. load(address, length) = (CHOOSE f : Sum(f))[length]
  BY DEF load, term, Term
<1>3. Sum(CHOOSE f : Sum(f))
  <2> HIDE DEF Sum
  <2> QED BY <1>1
<1>4. ASSUME NEW f, Sum(f)
      PROVE  f[0] = 0 /\ \A n \in 1 .. length : f[n] = f[n - 1] + Term(address, n)
  <2>1. \A n \in 0 .. length : f[n] = IF n = 0 THEN 0 ELSE f[n - 1] + term(n)
    BY <1>4
  <2> QED BY <2>1 DEF term
<1> HIDE DEF Sum
<1> QED BY <1>2, <1>3, <1>4

(* A load of bytes that are there returns a number of its length.            *)
LEMMA LoadType ==
  ASSUME NEW address \in Int, NEW length \in 1 .. 4, memory \in [Addresses -> Byte],
         InBounds(address, length)
  PROVE  /\ load(address, length) \in 0 .. Pow2[byteBits * length] - 1
         /\ load(address, length) \in Word
<1>1. PICK f : /\ f[0] = 0
               /\ \A n \in 1 .. length : f[n] = f[n - 1] + Term(address, n)
               /\ load(address, length) = f[length]
  BY LoadTerms
<1>2. ASSUME NEW n \in 0 .. 4
      PROVE  byteBits * n \in ShiftCount /\ byteBits * n \in Nat /\ Pow2[byteBits * n] \in Nat \ {0}
  BY WidthAssumption, Pow2Facts DEF ShiftCount
<1>3. ASSUME NEW n \in 1 .. length, f[n - 1] \in 0 .. Pow2[byteBits * (n - 1)] - 1
      PROVE  f[n] \in 0 .. Pow2[byteBits * n] - 1
  <2> DEFINE m == memory[Wrap(address + n - 1)]
             P == Pow2[byteBits * (n - 1)]
             B == Pow2[byteBits]
  <2>1. m \in 0 .. B - 1
    <3>1. n - 1 \in 0 .. length - 1 /\ address + n - 1 = address + (n - 1)
      OBVIOUS
    <3>2. Cells(address, length)[n - 1] \in Addresses
      BY <3>1 DEF InBounds
    <3> QED BY <3>1, <3>2 DEF Cells, Byte
  <2>2. B \in Nat \ {0} /\ P \in Nat \ {0} /\ Pow2[byteBits * n] = B * P
    <3>1. n - 1 \in 0 .. 4 /\ byteBits * n = byteBits + byteBits * (n - 1) /\ n \in 0 .. 4
      BY WidthAssumption
    <3> QED BY <1>2, <3>1, Widths, Pow2Sum
  <2>3. f[n] = f[n - 1] + m * P
    BY <1>1 DEF Term, Shl
  <2> HIDE DEF m, P, B
  <2>4. ASSUME NEW x \in 0 .. P - 1, NEW y \in 0 .. B - 1 PROVE x + y * P \in 0 .. B * P - 1
    <3>1. y * P <= (B - 1) * P /\ (B - 1) * P = B * P - P /\ y * P \in Nat /\ B * P \in Nat
      BY <2>2
    <3> QED BY <2>2, <3>1
  <2> QED BY <1>3, <2>1, <2>2, <2>3, <2>4 DEF P
<1>4. f[0] \in 0 .. Pow2[byteBits * 0] - 1
  BY <1>1, <1>2
<1>5. f[length] \in 0 .. Pow2[byteBits * length] - 1
  <2> DEFINE Good(n) == f[n] \in 0 .. Pow2[byteBits * n] - 1
  <2>1. \A n \in 1 .. length : Good(n - 1) => Good(n)
    BY <1>3
  <2>2. Good(0)
    BY <1>4
  <2> HIDE DEF Good
  <2>3. length = 1 \/ length = 2 \/ length = 3 \/ length = 4
    OBVIOUS
  <2>4. Good(length)
    BY <2>1, <2>2, <2>3
  <2> QED BY <2>4 DEF Good
<1>6. Pow2[byteBits * length] <= Pow2[WordBits]
  BY <1>2, WidthAssumption, WordWidth, Pow2Grows DEF WordBits
<1> QED BY <1>1, <1>2, <1>5, <1>6, WordWidth DEF Word

(* A fetch adds up the four bytes, each weighted by its place.               *)
LEMMA LoadWord ==
  ASSUME NEW address \in Nat, memory \in [Addresses -> Nat],
         address + 3 < MemorySpace
  PROVE  load(address, LENGTH_WORD) =
           memory[address] + memory[address + 1] * Pow2[byteBits]
             + memory[address + 2] * Pow2[byteBits * 2]
             + memory[address + 3] * Pow2[byteBits * 3]
<1> DEFINE term(n) == Term(address, n)
<1>1. /\ term(1) = memory[address]
      /\ term(2) = memory[address + 1] * Pow2[byteBits]
      /\ term(3) = memory[address + 2] * Pow2[byteBits * 2]
      /\ term(4) = memory[address + 3] * Pow2[byteBits * 3]
  <2>1. \A k \in 0 .. 3 : Wrap(address + (k + 1) - 1) = address + k
    <3>1. MemorySpace \in 4 .. Pow2[WordBits] /\ Pow2[WordBits] \in Nat \ {0}
      BY MachineAssumption, Widths
    <3>2. ASSUME NEW x \in Nat, NEW p \in Nat \ {0}, x < p PROVE x % p = x
      BY <3>2
    <3>3. ASSUME NEW k \in 0 .. 3 PROVE Wrap(address + (k + 1) - 1) = address + k
      <4>1. address + (k + 1) - 1 = address + k /\ address + k \in Nat
            /\ address + k < Pow2[WordBits]
        BY <3>1
      <4> QED BY <3>1, <3>2, <4>1 DEF Wrap
    <3> QED BY <3>3
  <2>2. byteBits * (1 - 1) = 0 /\ byteBits * (2 - 1) = byteBits
        /\ byteBits * (3 - 1) = byteBits * 2 /\ byteBits * (4 - 1) = byteBits * 3
    BY WidthAssumption
  <2>3. Pow2[0] = 1 /\ memory[address] * 1 = memory[address]
    <3>1. memory[address] \in Nat
      BY MachineAssumption DEF Addresses
    <3>2. 0 \in ShiftCount
      BY DEF ShiftCount
    <3> QED BY <3>1, <3>2, Pow2Facts
  <2>4. /\ Wrap(address + 1 - 1) = address
        /\ Wrap(address + 2 - 1) = address + 1
        /\ Wrap(address + 3 - 1) = address + 2
        /\ Wrap(address + 4 - 1) = address + 3
    BY <2>1
  <2> QED BY <2>2, <2>3, <2>4 DEF Shl, Term
<1> HIDE DEF term
<1>4. PICK f : /\ f[0] = 0
               /\ \A n \in 1 .. 4 : f[n] = f[n - 1] + term(n)
               /\ load(address, LENGTH_WORD) = f[4]
  BY LoadTerms DEF LENGTH_WORD, term
<1>5. /\ memory[address] \in Nat /\ term(2) \in Nat /\ term(3) \in Nat /\ term(4) \in Nat
  <2>1. \A k \in 0 .. 3 : memory[address + k] \in Nat
    BY MachineAssumption DEF Addresses
  <2>2. Pow2[byteBits] \in Nat /\ Pow2[byteBits * 2] \in Nat /\ Pow2[byteBits * 3] \in Nat
    BY Widths, Pow2Facts
  <2>3. memory[address + 0] = memory[address]
    OBVIOUS
  <2>4. ASSUME NEW x \in Nat, NEW y \in Nat PROVE x * y \in Nat
    OBVIOUS
  <2> QED BY <1>1, <2>1, <2>2, <2>3, <2>4
<1>6. f[1] = f[0] + term(1) /\ f[2] = f[1] + term(2)
      /\ f[3] = f[2] + term(3) /\ f[4] = f[3] + term(4)
  BY <1>4
<1> QED BY <1>1, <1>4, <1>5, <1>6

(* Four bytes, each weighted by its place, make up the word they came from. *)
LEMMA BytesMakeWord ==
  ASSUME NEW word \in Word
  PROVE  word = ByteOf(word, 0) + ByteOf(word, 1) * Pow2[byteBits]
                  + ByteOf(word, 2) * Pow2[byteBits * 2]
                  + ByteOf(word, 3) * Pow2[byteBits * 3]
<1> DEFINE p  == Pow2[byteBits]
           x1 == word \div p
           x2 == x1 \div p
           x3 == x2 \div p
<1>1. p \in Nat \ {0} /\ word \in Nat
  BY Widths, Pow2Facts DEF Word
<1>2. /\ ByteOf(word, 0) = word % p /\ ByteOf(word, 1) = x1 % p
      /\ ByteOf(word, 2) = x2 % p /\ ByteOf(word, 3) = x3 % p
  <2>1. Pow2[0] = 1 /\ word \div 1 = word
    BY <1>1, Pow2Facts DEF ShiftCount
  <2>2. byteBits * 0 = 0 /\ byteBits * 1 = byteBits
    BY WidthAssumption
  <2>3. word \div (p * p) = x2
    <3> HIDE DEF p
    <3> QED BY <1>1, DivTwice
  <2>4. word \div (p * (p * p)) = x3
    <3> HIDE DEF p
    <3>1. x1 \in Nat /\ p * p \in Nat \ {0}
      BY <1>1
    <3>2. word \div (p * (p * p)) = x1 \div (p * p)
      BY <1>1, <3>1, DivTwice
    <3> HIDE DEF x1
    <3>3. x1 \div (p * p) = (x1 \div p) \div p
      BY <1>1, <3>1, DivTwice
    <3> QED BY <3>2, <3>3
  <2> QED BY <2>1, <2>2, <2>3, <2>4, Widths DEF ByteOf, LowBits, Shr
<1>3. word < p * (p * (p * p))
  BY <1>1, Widths DEF Word
<1> HIDE DEF p
<1>4. x1 \in Nat /\ word % p \in Nat /\ word = p * x1 + (word % p)
  BY <1>1
<1>5. x2 \in Nat /\ x1 % p \in Nat /\ x1 = p * x2 + (x1 % p)
  <2> HIDE DEF x1
  <2> QED BY <1>1, <1>4
<1>6. x3 \in Nat /\ x2 % p \in Nat /\ x2 = p * x3 + (x2 % p)
  <2> HIDE DEF x1, x2
  <2> QED BY <1>1, <1>5
<1> DEFINE b0 == word % p
           b1 == x1 % p
           b2 == x2 % p
<1>7. word = b0 + b1 * p + b2 * (p * p) + x3 * (p * (p * p))
  <2>1. b0 \in Nat /\ b1 \in Nat /\ b2 \in Nat
        /\ word = p * x1 + b0 /\ x1 = p * x2 + b1 /\ x2 = p * x3 + b2
    BY <1>4, <1>5, <1>6
  <2> HIDE DEF b0, b1, b2, x1, x2, x3
  <2>2. word = p * (p * (p * x3 + b2) + b1) + b0
    BY <2>1
  <2>3. p * (p * (p * x3 + b2) + b1) = b1 * p + b2 * (p * p) + x3 * (p * (p * p))
    BY <1>1, <1>6, <2>1
  <2> QED BY <1>1, <1>6, <2>1, <2>2, <2>3
<1>8. x3 % p = x3
  <2>1. x3 < p
    <3>1. b0 + b1 * p + b2 * (p * p) \in Nat
      <4>1. b0 \in Nat /\ b1 \in Nat /\ b2 \in Nat
        BY <1>4, <1>5, <1>6
      <4> HIDE DEF b0, b1, b2
      <4> QED BY <1>1, <4>1
    <3>2. ASSUME NEW c \in Nat \ {0}, NEW r \in Nat, NEW x \in Nat,
                 r + x * c < p * c
          PROVE  x < p
      BY <1>1, <3>2
    <3>3. p * (p * p) \in Nat \ {0}
      BY <1>1
    <3> HIDE DEF b0, b1, b2, x1, x2, x3
    <3> QED BY <1>3, <1>6, <1>7, <3>1, <3>2, <3>3
  <2> HIDE DEF x3
  <2> QED BY <1>1, <1>6, <2>1
<1> HIDE DEF x1, x2, x3
<1> QED BY <1>2, <1>7, <1>8, Widths DEF p

-----------------------------------------------------------------------------
(* What a word of the program leaves in memory stays there while the words *)
(* behind it are loaded.                                                   *)

LoadInv ==
    phase = "load" =>
        /\ file \in Seq(Word)
        /\ memory \in [Addresses -> Nat]
        /\ programsize \in 0 .. Len(file)
        /\ StartAddress + 4 * programsize <= MemorySpace
        /\ \A k \in 1 .. programsize : \A j \in 0 .. 3 :
              memory[StartAddress + 4 * (k - 1) + j] = ByteOf(file[k], j)

(* Before anything is loaded the invariant says nothing of memory. *)
LEMMA LoadInvInit == Init => LoadInv
<1> SUFFICES ASSUME Init PROVE LoadInv
  OBVIOUS
<1>1. file \in Seq(Word) /\ Len(file) \in Nat
  <2>1. PICK command \in Commands : file = command.file
    BY DEF Init
  <2> QED BY <2>1, DriverAssumption
<1>2. StartAddress + 4 * 0 <= MemorySpace
  BY DriverAssumption, MachineAssumption DEF Addresses
<1> QED BY <1>1, <1>2 DEF Init, LoadInv

(* The step that loads a line, the only one that writes while phase = "load". *)
LEMMA LoadInvLine == LoadInv /\ load_line => LoadInv'
<1> SUFFICES ASSUME LoadInv, load_line PROVE LoadInv'
  OBVIOUS
<1> DEFINE word == file[programsize + 1]
<1>1. /\ phase = "load" /\ UNCHANGED <<file, phase>>
      /\ programsize < Len(file)
  BY DEF load_line
<1>2. /\ file \in Seq(Word) /\ memory \in [Addresses -> Nat]
      /\ programsize \in 0 .. Len(file) /\ Len(file) \in Nat
      /\ StartAddress + 4 * programsize <= MemorySpace
      /\ \A k \in 1 .. programsize : \A j \in 0 .. 3 :
            memory[StartAddress + 4 * (k - 1) + j] = ByteOf(file[k], j)
  BY <1>1 DEF LoadInv
<1>3. StartAddress \in Nat /\ MemorySpace \in Nat
  BY DriverAssumption, MachineAssumption DEF Addresses
<1>4. CASE offset + 3 \notin Addresses
  <2>1. UNCHANGED <<memory, programsize>>
    BY <1>4 DEF load_line
  <2> QED BY <1>1, <1>2, <2>1 DEF LoadInv
<1>5. CASE offset + 3 \in Addresses
  <2>1. memory' = StoredLine(offset, word) /\ programsize' = programsize + 1
    BY <1>5 DEF load_line
  <2>2. offset = StartAddress + 4 * programsize /\ offset \in Nat
        /\ offset + 3 < MemorySpace
    BY <1>2, <1>3, <1>5 DEF offset, LENGTH_WORD, Addresses
  <2>3. word \in Word
    BY <1>1, <1>2
  <2>4. ASSUME NEW m \in Addresses
        PROVE  memory'[m] = IF m - offset \in 0 .. 3
                            THEN ByteOf(word, m - offset) ELSE memory[m]
    BY <2>1 DEF StoredLine, ByteOf
  <2>5. \A j \in 0 .. 3 : ByteOf(word, j) \in Nat
    <3>1. ASSUME NEW j \in 0 .. 3 PROVE ByteOf(word, j) \in Nat
      <4>1. byteBits * j \in ShiftCount /\ byteBits \in ShiftCount
        BY Widths, WidthAssumption DEF ShiftCount
      <4>2. Shr(word, byteBits * j) \in Nat
        <5>1. word \in Nat
          BY <2>3, Widths, Pow2Facts DEF Word
        <5> QED BY <4>1, <5>1, ShrType
      <4>3. LowBits(Shr(word, byteBits * j), byteBits) \in 0 .. Pow2[byteBits] - 1
        BY <4>1, <4>2, LowBitsType
      <4> QED BY <4>3, Widths DEF ByteOf
    <3> QED BY <3>1
  <2>6. memory' \in [Addresses -> Nat]
    <3>1. \A m \in Addresses : memory'[m] \in Nat
      BY <1>2, <2>4, <2>5
    <3>2. memory' = [m \in Addresses |-> memory'[m]]
      BY <2>1 DEF StoredLine
    <3> QED BY <3>1, <3>2
  <2>7. programsize' \in 0 .. Len(file) /\ StartAddress + 4 * programsize' <= MemorySpace
    BY <1>1, <1>2, <1>3, <2>1, <2>2
  <2>8. ASSUME NEW k \in 1 .. programsize', NEW j \in 0 .. 3
        PROVE  memory'[StartAddress + 4 * (k - 1) + j] = ByteOf(file[k], j)
    <3> DEFINE m == StartAddress + 4 * (k - 1) + j
    <3>1. m \in Addresses
      BY <1>2, <1>3, <2>1, <2>2 DEF Addresses
    <3>2. CASE k = programsize + 1
      <4>1. m - offset = j
        BY <1>2, <1>3, <2>2, <3>2
      <4> QED BY <2>4, <3>1, <3>2, <4>1
    <3>3. CASE k \in 1 .. programsize
      <4>1. m - offset \notin 0 .. 3
        BY <1>2, <1>3, <2>2, <3>3
      <4> QED BY <1>2, <2>4, <3>1, <3>3, <4>1
    <3> QED BY <1>2, <2>1, <3>2, <3>3
  <2> QED BY <1>1, <1>2, <2>6, <2>7, <2>8 DEF LoadInv
<1> QED BY <1>4, <1>5

(* Every other step leaves the loading phase or leaves its state alone. *)
LEMMA LoadInvNext == LoadInv /\ [Next]_vars => LoadInv'
<1> SUFFICES ASSUME LoadInv, [Next]_vars PROVE LoadInv'
  OBVIOUS
<1>1. CASE load_line
  BY <1>1, LoadInvLine
<1>2. CASE load_missing_file
  BY <1>2 DEF load_missing_file, LoadInv
<1>3. CASE initialize_cpu
  BY <1>3 DEF initialize_cpu, LoadInv
<1>4. CASE emulate
  BY <1>4 DEF emulate, LoadInv
<1>5. CASE return
  BY <1>5 DEF return, LoadInv
<1>6. CASE UNCHANGED vars
  BY <1>6 DEF vars, LoadInv
<1> QED BY <1>1, <1>2, <1>3, <1>4, <1>5, <1>6 DEF Next, ended

(* The memory that the invariant describes is fetched as the file was written. *)
LEMMA BytesAreFetched ==
  ASSUME memory \in [Addresses -> Nat], NEW address \in Nat, address + 3 < MemorySpace,
         NEW word \in Word, \A j \in 0 .. 3 : memory[address + j] = ByteOf(word, j)
  PROVE  load(address, LENGTH_WORD) = word
<1>1. /\ memory[address] = ByteOf(word, 0)
      /\ memory[address + 1] = ByteOf(word, 1)
      /\ memory[address + 2] = ByteOf(word, 2)
      /\ memory[address + 3] = ByteOf(word, 3)
  <2>1. address + 0 = address
    OBVIOUS
  <2> QED BY <2>1
<1> QED BY <1>1, LoadWord, BytesMakeWord

LEMMA LoadInvFetches == LoadInv => FetchFindsFile
<1> SUFFICES ASSUME LoadInv, phase = "load", NEW k \in 1 .. programsize
             PROVE  load(StartAddress + LENGTH_WORD * (k - 1), LENGTH_WORD) = file[k]
  BY DEF FetchFindsFile
<1> DEFINE address == StartAddress + 4 * (k - 1)
<1>1. /\ file \in Seq(Word) /\ Len(file) \in Nat /\ programsize \in 0 .. Len(file)
      /\ memory \in [Addresses -> Nat]
      /\ StartAddress + 4 * programsize <= MemorySpace
      /\ \A j \in 0 .. 3 : memory[address + j] = ByteOf(file[k], j)
  BY DEF LoadInv
<1>2. StartAddress \in Nat /\ MemorySpace \in Nat
  BY DriverAssumption, MachineAssumption DEF Addresses
<1>3. address \in Nat /\ address + 3 < MemorySpace /\ file[k] \in Word
  BY <1>1, <1>2
<1> HIDE DEF address
<1>4. load(address, LENGTH_WORD) = file[k]
  BY <1>1, <1>3, BytesAreFetched
<1> QED BY <1>4 DEF address, LENGTH_WORD

(* load_program lays out the file as execute_emu fetches it, whatever the     *)
(* file and the width of the machine: before the first instruction, the fetch *)
(* at the address of a line that was loaded returns that line.                *)
THEOREM ProgramIsFetched == Spec => []FetchFindsFile
<1>1. LoadInv /\ [Next]_vars => LoadInv'
  BY LoadInvNext
<1> QED BY LoadInvInit, <1>1, LoadInvFetches, PTL DEF Spec

-----------------------------------------------------------------------------
(***************************************************************************)
(* The machine stays a machine: registers hold words and R[0] zero, PC is  *)
(* a word, memory holds bytes.                                             *)
(***************************************************************************)
MachineOK ==
    /\ R \in [Regs -> Word] /\ R[0] = 0
    /\ PC \in Word
    /\ memory \in [Addresses -> Byte]
    /\ status \in Statuses \cup {"returned"}

(* What a word decodes to has the fields of its format. *)
LEMMA InstructionFields ==
  ASSUME NEW i \in Instructions
  PROVE  /\ i.opcode = "0x33" => i.rd \in Regs /\ i.rs1 \in Regs /\ i.rs2 \in Regs
         /\ i.opcode \in {"0x13", "0x03"} =>
               i.rd \in Regs /\ i.funct3 \in 0 .. 7 /\ i.rs1 \in Regs /\ i.imm \in Immediates
         /\ i.opcode = "0x23" => i.rs1 \in Regs /\ i.rs2 \in Regs /\ i.imm \in Immediates
         /\ i.opcode = "0x63" => i.rs1 \in Regs /\ i.rs2 \in Regs /\ i.imm \in Int
         /\ i.opcode = "0x6F" => i.rd \in Regs /\ i.imm \in Int
         /\ i.opcode = "0x37" => i.rd \in Regs /\ i.imm \in 0 .. Pow2[WordBits - immBits] - 1
BY DEF Instructions, Immediates

LEMMA RetireKeepsMachine ==
  ASSUME MachineOK, NEW regs \in [Regs -> Word], NEW pc \in Int,
         NEW mem \in [Addresses -> Byte], Retire(regs, pc, mem)
  PROVE  MachineOK'
<1>1. 0 \in Regs /\ 0 \in Word
  BY MachineAssumption, WordWidth
<1>2. Wrap(pc) \in Word
  BY WrapType
<1> QED BY <1>1, <1>2 DEF MachineOK, Retire

LEMMA SetRdKeepsMachine ==
  ASSUME MachineOK, NEW i, i.rd \in Regs, NEW value \in Word, SetRd(i, value)
  PROVE  MachineOK'
<1>1. [R EXCEPT ![i.rd] = value] \in [Regs -> Word]
  BY DEF MachineOK
<1>2. PC + 4 \in Int /\ memory \in [Addresses -> Byte]
  BY WordWidth DEF MachineOK, Word
<1> QED BY <1>1, <1>2, RetireKeepsMachine DEF SetRd

LEMMA StopKeepsMachine ==
  ASSUME MachineOK, NEW how \in Statuses, Stop(how)
  PROVE  MachineOK'
BY DEF MachineOK, Stop

(* A store writes bytes. *)
LEMMA StoreIsMemory ==
  ASSUME memory \in [Addresses -> Byte], NEW address, NEW length \in 1 .. 4, NEW value \in Word
  PROVE  store(address, length, value) \in [Addresses -> Byte]
<1>1. ASSUME NEW k \in 0 .. length - 1
      PROVE  LowBits(Shr(value, byteBits * k), byteBits) \in Byte
  <2>1. byteBits * k \in ShiftCount /\ byteBits \in ShiftCount /\ value \in Nat
    BY WidthAssumption, WordWidth DEF ShiftCount, Word
  <2> QED BY <2>1, ShrType, LowBitsType DEF Byte
<1>2. ASSUME NEW m \in Addresses,
             \E k \in 0 .. length - 1 : Cells(address, length)[k] = m
      PROVE  (CHOOSE k \in 0 .. length - 1 : Cells(address, length)[k] = m) \in 0 .. length - 1
  BY <1>2
<1> QED BY <1>1, <1>2 DEF store

(* Every handler keeps the machine. *)
LEMMA InstructionKeepsMachine ==
  ASSUME MachineOK, NEW i \in Instructions, execute_instruction(i)
  PROVE  MachineOK'
<1>1. /\ R \in [Regs -> Word] /\ PC \in Word /\ PC \in Int /\ PC + 4 \in Int
      /\ memory \in [Addresses -> Byte] /\ {0, 10, 11} \subseteq Regs
  BY WordWidth, MachineAssumption DEF MachineOK, Word
<1>2. {"exit 0", "exit -1", "EXIT_FAILURE", "SIGFPE", "undefined"} \subseteq Statuses
  BY DEF Statuses
<1>3. CASE execute_rtype(i)
  <2>1. i.rd \in Regs /\ R[i.rs1] \in Word /\ R[i.rs2] \in Word
    BY <1>1, <1>3, InstructionFields DEF execute_rtype
  <2> DEFINE op == <<i.funct3, i.funct7>>
  <2>2. CASE Stop("exit -1") \/ Stop("SIGFPE")
    BY <1>2, <2>2, StopKeepsMachine
  <2>3. CASE /\ op \in DOMAIN RtypeName
             /\ ~DivisionFaults(RtypeName[op], R[i.rs1], R[i.rs2])
             /\ SetRd(i, rtype_value(RtypeName[op], R[i.rs1], R[i.rs2]))
    <3> HIDE DEF op
    <3> QED BY <2>1, <2>3, RtypeIsWord, SetRdKeepsMachine
  <2> QED BY <1>3, <2>2, <2>3 DEF execute_rtype
<1>4. CASE execute_itype_except_load(i)
  <2>1. i.rd \in Regs /\ R[i.rs1] \in Word /\ i.funct3 \in 0 .. 7 /\ i.imm \in Immediates
    BY <1>1, <1>4, InstructionFields DEF execute_itype_except_load
  <2>2. CASE Stop("exit -1")
    BY <1>2, <2>2, StopKeepsMachine
  <2>3. CASE /\ ItypeName(i.funct3, i.imm) # "invalid"
             /\ SetRd(i, itype_value(ItypeName(i.funct3, i.imm), R[i.rs1], i.imm))
    BY <2>1, <2>3, ItypeIsWord, SetRdKeepsMachine
  <2> QED BY <1>4, <2>2, <2>3 DEF execute_itype_except_load
<1>5. CASE execute_ecall(i)
  BY <1>1, <1>2, <1>5, StopKeepsMachine, RetireKeepsMachine DEF execute_ecall
<1>6. CASE execute_branch(i)
  <2>1. i.imm \in Int
    BY <1>6, InstructionFields DEF execute_branch
  <2>2. \A p \in BOOLEAN : PC + (IF p THEN i.imm ELSE 4) \in Int
    BY <1>1, <2>1
  <2>3. ASSUME NEW taken, Retire(R, PC + (IF taken THEN i.imm ELSE 4), memory) PROVE MachineOK'
    <3>1. PC + (IF taken THEN i.imm ELSE 4) \in Int
      BY <1>1, <2>1
    <3> QED BY <1>1, <2>3, <3>1, RetireKeepsMachine
  <2> QED BY <1>2, <1>6, <2>3, StopKeepsMachine DEF execute_branch
<1>7. CASE execute_jal(i)
  <2>1. i.rd \in Regs /\ PC + i.imm \in Int
    BY <1>1, <1>7, InstructionFields DEF execute_jal
  <2>2. [R EXCEPT ![i.rd] = Wrap(PC + 4)] \in [Regs -> Word]
    <3>1. Wrap(PC + 4) \in Word
      BY <1>1, WrapType
    <3> QED BY <1>1, <2>1, <3>1
  <2> QED BY <1>1, <1>7, <2>1, <2>2, RetireKeepsMachine DEF execute_jal
<1>8. CASE execute_store(i)
  <2>1. R[i.rs2] \in Word
    BY <1>1, <1>8, InstructionFields DEF execute_store
  <2>2. ASSUME NEW address, NEW length \in {LENGTH_BYTE, LENGTH_HALF_WORD, LENGTH_WORD},
               Retire(R, PC + 4, store(address, length, R[i.rs2]))
        PROVE  MachineOK'
    <3>1. store(address, length, R[i.rs2]) \in [Addresses -> Byte]
      <4>1. length \in 1 .. 4
        BY DEF LENGTH_BYTE, LENGTH_HALF_WORD, LENGTH_WORD
      <4> QED BY <1>1, <2>1, <4>1, StoreIsMemory
    <3> QED BY <1>1, <2>2, <3>1, RetireKeepsMachine
  <2>3. CASE /\ i.funct3 \in DOMAIN StoreName
             /\ \E length \in {LENGTH_BYTE, LENGTH_HALF_WORD, LENGTH_WORD} :
                   Retire(R, PC + 4, store(Wrap(R[i.rs1] + get_store_offset(i)), length, R[i.rs2]))
    BY <2>2, <2>3
  <2>4. CASE Stop("exit -1") \/ Stop("undefined")
    BY <1>2, <2>4, StopKeepsMachine
  <2> QED BY <1>8, <2>3, <2>4, StoreNames DEF execute_store
<1>9. CASE execute_load(i)
  <2>1. i.rd \in Regs /\ R[i.rs1] \in Word /\ i.imm \in Immediates
    BY <1>1, <1>9, InstructionFields DEF execute_load
  <2> DEFINE address == Wrap(R[i.rs1] + sign_extend_number(i.imm, immBits))
  <2>2. address \in Int
    <3>1. R[i.rs1] + sign_extend_number(i.imm, immBits) \in Int
      BY <2>1, ImmediateType, WordWidth DEF Word
    <3> QED BY <3>1, WrapType, WordWidth DEF Word
  <2> HIDE DEF address
  <2>3. ASSUME NEW length \in {LENGTH_BYTE, LENGTH_HALF_WORD, LENGTH_WORD}, InBounds(address, length)
        PROVE  /\ load(address, length) \in Word
               /\ Wrap(sign_extend_number(load(address, length), byteBits * length)) \in Word
    <3>1. length \in 1 .. 4
      BY DEF LENGTH_BYTE, LENGTH_HALF_WORD, LENGTH_WORD
    <3>2. load(address, length) \in Word
      BY <1>1, <2>2, <2>3, <3>1, LoadType
    <3>3. byteBits * length \in 1 .. 63 /\ byteBits * length \in ShiftCount
      BY <3>1, WidthAssumption DEF ShiftCount
    <3>4. sign_extend_number(load(address, length), byteBits * length) \in Int
      <4>1. LowBits(load(address, length), byteBits * length)
              \in 0 .. Pow2[byteBits * length] - 1
        <5>1. load(address, length) \in Nat
          BY <3>2, WordWidth DEF Word
        <5> QED BY <3>3, <5>1, LowBitsType
      <4> QED BY <3>3, <4>1, SignedRange DEF sign_extend_number
    <3> QED BY <3>2, <3>4, WrapType
  <2>4. CASE Retire(R, PC + 4, memory)
    BY <1>1, <2>4, RetireKeepsMachine
  <2>5. CASE Stop("undefined")
    BY <1>2, <2>5, StopKeepsMachine
  <2>6. CASE \E length \in {LENGTH_BYTE, LENGTH_HALF_WORD, LENGTH_WORD} :
                /\ InBounds(address, length)
                /\ \/ SetRd(i, load(address, length))
                   \/ SetRd(i, Wrap(sign_extend_number(load(address, length), byteBits * length)))
    BY <2>1, <2>3, <2>6, SetRdKeepsMachine
  <2> QED BY <1>9, <2>4, <2>5, <2>6, LoadNames DEF execute_load, address
<1>10. CASE execute_lui(i)
  <2>1. i.rd \in Regs /\ i.imm \in 0 .. Pow2[WordBits - immBits] - 1
    BY <1>10, InstructionFields DEF execute_lui
  <2>2. immBits \in ShiftCount /\ WordBits - immBits \in ShiftCount
    BY WidthAssumption DEF ShiftCount, WordBits
  <2>3. Shl(i.imm, immBits) \in Int
    BY <2>1, <2>2, Pow2Facts, ShlType
  <2> QED BY <1>10, <2>1, <2>3, WrapType, SetRdKeepsMachine DEF execute_lui
<1> QED BY <1>3, <1>4, <1>5, <1>6, <1>7, <1>8, <1>9, <1>10 DEF execute_instruction

LEMMA EmulatorKeepsMachine ==
  ASSUME MachineOK, execute_emu
  PROVE  MachineOK'
<1>1. {"exit 0", "exit -1", "EXIT_FAILURE", "SIGFPE", "undefined"} \subseteq Statuses
  BY DEF Statuses
<1>2. ASSUME NEW word \in DOMAIN InstructionOf, execute_instruction(InstructionOf[word])
      PROVE  MachineOK'
  BY <1>2, MachineAssumption, InstructionKeepsMachine
<1> QED BY <1>1, <1>2, StopKeepsMachine DEF execute_emu

(* The bytes of a line are put into memory as bytes. *)
LEMMA ByteOfIsByte ==
  ASSUME NEW word \in Word, NEW j \in 0 .. 3
  PROVE  ByteOf(word, j) \in Byte
<1>1. byteBits * j \in ShiftCount /\ byteBits \in ShiftCount /\ word \in Nat
  BY WidthAssumption, WordWidth DEF ShiftCount, Word
<1> QED BY <1>1, ShrType, LowBitsType DEF Byte, ByteOf

LEMMA StoredLineIsMemory ==
  ASSUME memory \in [Addresses -> Byte], NEW address \in Int, NEW word \in Word
  PROVE  StoredLine(address, word) \in [Addresses -> Byte]
<1>1. StoredLine(address, word) =
        [m \in Addresses |-> IF m - address \in 0 .. 3
                             THEN ByteOf(word, m - address) ELSE memory[m]]
  BY DEF StoredLine, ByteOf
<1> HIDE DEF StoredLine
<1> QED BY <1>1, ByteOfIsByte

(* The steps of main keep the machine too. *)
LEMMA LoadLineKeepsMachine == ASSUME MachineOK, file \in Seq(Word), programsize \in Nat, load_line
                              PROVE  MachineOK'
<1>1. file[programsize + 1] \in Word /\ offset \in Int
  BY DriverAssumption DEF load_line, offset, Addresses, LENGTH_WORD
<1>2. memory' \in [Addresses -> Byte]
  BY <1>1, StoredLineIsMemory DEF load_line, MachineOK
<1> QED BY <1>2 DEF load_line, MachineOK, Statuses

LEMMA InitializeKeepsMachine == ASSUME MachineOK, initialize_cpu PROVE MachineOK'
<1>1. {0, 4, StackPointer, GlobalPointer} \subseteq Word /\ 0 \in Regs
  <2>1. 4 \in Word
    BY MachineAssumption, WordWidth, FourIsWord DEF Word
  <2> QED BY <2>1, DriverAssumption, MachineAssumption, WordWidth
<1>2. R' \in [Regs -> Word] /\ R'[0] = 0
  BY <1>1 DEF initialize_cpu, MachineOK
<1> QED BY <1>2 DEF initialize_cpu, MachineOK, Statuses

LEMMA TypeInit == Init => TypeOK
<1> SUFFICES ASSUME Init PROVE TypeOK
  OBVIOUS
<1>1. PICK command \in Commands : file = command.file /\ opt = command.opt
  BY DEF Init
<1>2. file \in Seq(Word) /\ opt \in Options /\ 0 \in 0 .. Len(file)
  BY <1>1, DriverAssumption
<1>3. StartAddress \in Word
  BY DriverAssumption, MachineAssumption, WordWidth DEF Addresses, Word
<1>4. 0 \in Word /\ 0 \in Byte /\ 0 \in Regs
  BY MachineAssumption, WordWidth, Widths DEF Byte
<1> QED BY <1>2, <1>3, <1>4 DEF Init, TypeOK, Statuses

LEMMA TypeNext == TypeOK /\ [Next]_vars => TypeOK'
<1> SUFFICES ASSUME TypeOK, [Next]_vars PROVE TypeOK'
  OBVIOUS
<1>1. MachineOK /\ programsize \in Nat /\ simins \in Nat /\ Len(file) \in Nat
  BY DEF TypeOK, MachineOK
<1>2. ASSUME MachineOK', UNCHANGED <<file, opt, phase>>,
             programsize' \in 0 .. Len(file), simins' \in 0 .. Len(file)
      PROVE  TypeOK'
  BY <1>2 DEF TypeOK, MachineOK
<1>3. CASE load_line
  <2>1. MachineOK'
    BY <1>1, <1>3, LoadLineKeepsMachine DEF TypeOK
  <2>2. programsize' \in 0 .. Len(file)
    BY <1>1, <1>3 DEF load_line, TypeOK
  <2> QED BY <1>2, <1>3, <2>1, <2>2 DEF load_line, TypeOK
<1>4. CASE load_missing_file
  BY <1>4 DEF load_missing_file, TypeOK, Statuses
<1>5. CASE initialize_cpu
  <2>1. MachineOK'
    BY <1>1, <1>5, InitializeKeepsMachine
  <2> QED BY <1>5, <2>1 DEF initialize_cpu, TypeOK, MachineOK
<1>6. CASE emulate
  <2>1. MachineOK'
    BY <1>1, <1>6, EmulatorKeepsMachine DEF emulate
  <2>2. simins' \in 0 .. Len(file)
    BY <1>1, <1>6 DEF emulate, Continues, Counted, TypeOK
  <2> QED BY <1>2, <1>6, <2>1, <2>2 DEF emulate, TypeOK
<1>7. CASE return
  BY <1>7 DEF return, DumpAndReturn, TypeOK, Statuses
<1>8. CASE UNCHANGED vars
  BY <1>8 DEF vars, TypeOK
<1> QED BY <1>3, <1>4, <1>5, <1>6, <1>7, <1>8 DEF Next, ended

(* Whatever the program does, registers stay words and x0 zero, memory stays  *)
(* bytes, and main never counts more calls of execute_emu than there are      *)
(* lines (riscv.c:203).                                                       *)
THEOREM TypeOKHolds == Spec => []TypeOK
BY TypeInit, TypeNext, PTL DEF Spec

-----------------------------------------------------------------------------
(***************************************************************************)
(* The dump.  The largest element that it reads is the last of the last    *)
(* line of 16 addresses; it leaves memory exactly if that one does.        *)
(***************************************************************************)
LEMMA DumpLeavesMemory ==
  ASSUME MemorySpace + 12 <= Pow2[WordBits], NEW start \in Word, NEW stop \in Word,
         start <= stop, stop <= MemorySpace
  PROVE  DumpIndices(start, stop) \subseteq Addresses
           <=> start + 16 * ((stop - start + 15) \div 16) - 4 < MemorySpace
<1> DEFINE W == Pow2[WordBits]
           n == (stop - start + 15) \div 16
           Offsets == {i \in 0 .. stop - start - 1 : i % 16 = 0}
<1>1. W \in Nat \ {0} /\ start \in 0 .. W - 1 /\ stop \in 0 .. W - 1
      /\ MemorySpace \in Nat /\ MemorySpace + 12 <= W
  BY WordWidth, MachineAssumption DEF Word
<1>2. Wrap(stop - start) = stop - start
  <2>1. stop - start \in Word
    BY <1>1 DEF Word
  <2> QED BY <2>1, WrapIdentity
<1>3. DumpIndices(start, stop) = {Wrap(start + i + j) : i \in Offsets, j \in {0, 4, 8, 12}}
  BY <1>2 DEF DumpIndices
<1> HIDE DEF W
<1>4. n \in Nat /\ 16 * n <= stop - start + 15 /\ stop - start <= 16 * n
  BY <1>1
<1>5. \A i \in Offsets : i \in Nat /\ i <= 16 * n - 16
  <2>1. ASSUME NEW i \in Nat, i % 16 = 0, i < 16 * n PROVE i <= 16 * n - 16
    BY <1>4, <2>1
  <2>2. \A i \in Offsets : i \in Nat /\ i % 16 = 0 /\ i < 16 * n
    BY <1>1, <1>4
  <2> HIDE DEF n, Offsets
  <2> QED BY <2>1, <2>2
<1>6. n > 0 => 16 * n - 16 \in Offsets
  <2>1. n > 0 => 16 * n - 16 \in 0 .. stop - start - 1
    BY <1>1, <1>4
  <2>2. n > 0 => (16 * n - 16) % 16 = 0
    BY <1>4
  <2> QED BY <2>1, <2>2
<1> HIDE DEF n, Offsets
<1>7. ASSUME NEW i \in Offsets, NEW j \in {0, 4, 8, 12}
      PROVE  Wrap(start + i + j) = start + i + j /\ start + i + j <= start + 16 * n - 4
  <2>1. start + i + j \in 0 .. W - 1 /\ start + i + j <= start + 16 * n - 4
    BY <1>1, <1>4, <1>5
  <2>2. Wrap(start + i + j) = start + i + j
    <3>1. start + i + j \in Word
      BY <2>1 DEF W, Word
    <3> QED BY <3>1, WrapIdentity
  <2> QED BY <2>1, <2>2
<1>8. ASSUME start + 16 * n - 4 < MemorySpace PROVE DumpIndices(start, stop) \subseteq Addresses
  <2>1. ASSUME NEW i \in Offsets, NEW j \in {0, 4, 8, 12} PROVE Wrap(start + i + j) \in Addresses
    BY <1>1, <1>4, <1>5, <1>7, <1>8 DEF Addresses
  <2> QED BY <1>3, <2>1
<1>9. ASSUME start + 16 * n - 4 >= MemorySpace PROVE ~(DumpIndices(start, stop) \subseteq Addresses)
  <2>1. n > 0 /\ 16 * n - 16 \in Offsets
    BY <1>1, <1>4, <1>6, <1>9
  <2>2. start + (16 * n - 16) + 12 = start + 16 * n - 4
    BY <1>1, <1>4
  <2>3. start + 16 * n - 4 \in DumpIndices(start, stop)
    BY <1>3, <1>7, <2>1, <2>2
  <2>4. start + 16 * n - 4 \notin Addresses
    BY <1>1, <1>4, <1>9 DEF Addresses
  <2> QED BY <2>3, <2>4
<1>10. start + 16 * n - 4 \in Int /\ MemorySpace \in Int
  BY <1>1, <1>4
<1> QED BY <1>8, <1>9, <1>10 DEF n

(* The last address a dump reads is an integer, whatever the division.        *)
LEMMA LastDumpedIsInteger ==
  ASSUME NEW a \in Int, NEW b \in Int
  PROVE  a + 16 * ((b - a + 15) \div 16) - 4 \in Int
<1>1. (b - a + 15) \div 16 \in Int
  OBVIOUS
<1> QED BY <1>1

(* The dump of a range within memory reads past the end of memory exactly if  *)
(* its last line of 16 addresses does (riscv.c:264-268); MEMORY_SPACE is far  *)
(* less than the words can address (types.h:46).                              *)
THEOREM DumpReadsWholeLinesHolds ==
  ASSUME MemorySpace + 12 <= Pow2[WordBits]
  PROVE  Spec => DumpReadsWholeLines
<1> DEFINE Start == opt.dump[1]
           Stopped == opt.dump[2]
           Dumped ==
             phase = "emulate" /\ status = "running" /\ ~Continues /\ ~opt.sim /\ opt.dump # <<>>
               => (Start <= Stopped /\ Stopped <= MemorySpace
                     => (status' = "undefined"
                           <=> Start + 16 * ((Stopped - Start + 15) \div 16) - 4 >= MemorySpace))
<1>1. TypeOK /\ [Next]_vars => [Dumped]_vars
  <2> SUFFICES ASSUME TypeOK, Next, phase = "emulate", status = "running", ~Continues,
                      ~opt.sim, opt.dump # <<>>, Start <= Stopped, Stopped <= MemorySpace
               PROVE  status' = "undefined"
                        <=> Start + 16 * ((Stopped - Start + 15) \div 16) - 4 >= MemorySpace
    OBVIOUS
  <2>1. return
    BY DEF Next, load_line, load_missing_file, initialize_cpu, emulate, ended
  <2>2. opt.dump \in Word \X Word
    BY DEF TypeOK, Options
  <2>3. Start \in Word /\ Stopped \in Word
    BY <2>2
  <2>4. status' = IF DumpIndices(Start, Stopped) \subseteq Addresses
                  THEN "returned" ELSE "undefined"
    BY <2>1 DEF return, DumpAndReturn
  <2>5. DumpIndices(Start, Stopped) \subseteq Addresses
          <=> Start + 16 * ((Stopped - Start + 15) \div 16) - 4 < MemorySpace
    BY <2>3, DumpLeavesMemory
  <2>6. Start + 16 * ((Stopped - Start + 15) \div 16) - 4 \in Int /\ MemorySpace \in Int
    <3>1. Start \in Int /\ Stopped \in Int
      BY <2>3, WordWidth DEF Word
    <3>2. MemorySpace \in Int
      BY MachineAssumption
    <3> HIDE DEF Start, Stopped
    <3> QED BY <3>1, <3>2, LastDumpedIsInteger
  <2> HIDE DEF Start, Stopped
  <2> QED BY <2>4, <2>5, <2>6
<1>2. DumpReadsWholeLines <=> [][Dumped]_vars
  BY DEF DumpReadsWholeLines
<1> QED BY <1>1, <1>2, TypeInit, TypeNext, PTL DEF Spec

-----------------------------------------------------------------------------
(***************************************************************************)
(* The end of the run.  Without -e every step of main brings the end       *)
(* nearer, whatever the program does.                                      *)
(***************************************************************************)

\* An upper bound on the steps of main that are left.
StepsLeft ==
  IF status # "running" THEN 0
  ELSE IF phase = "load" THEN 2 + Len(file) + (Len(file) - programsize)
  ELSE 1 + (Len(file) - simins)

(* Without -e every step of main, whatever the emulator executes in it,       *)
(* brings the end of the process nearer (riscv.c:203): a run takes at most    *)
(* 2 * Len(file) + 2 steps.                                                   *)
THEOREM EmulatorRunsDown ==
  Spec => /\ [](StepsLeft \in 0 .. 2 * Len(file) + 2)
          /\ [][~opt.exit => StepsLeft' < StepsLeft]_vars
<1> DEFINE Counts == /\ Len(file) \in Nat /\ phase \in {"load", "emulate"}
                     /\ programsize \in 0 .. Len(file) /\ simins \in 0 .. Len(file)
<1>1. TypeOK => Counts
  BY DEF TypeOK
<1>2. Counts => StepsLeft \in 0 .. 2 * Len(file) + 2
  BY DEF StepsLeft
<1>3. Counts /\ Counts' /\ [Next]_vars => [~opt.exit => StepsLeft' < StepsLeft]_vars
  <2> SUFFICES ASSUME Counts, Counts', Next, ~opt.exit, ~ended
               PROVE  StepsLeft' < StepsLeft
    <3>1. ended => UNCHANGED vars
      BY DEF ended
    <3> HIDE DEF Counts
    <3> QED BY <3>1
  <2>1. /\ Len(file) \in Nat /\ programsize \in 0 .. Len(file) /\ simins \in 0 .. Len(file)
        /\ simins' \in 0 .. Len(file') /\ phase \in {"load", "emulate"}
    OBVIOUS
  <2> HIDE DEF Counts
  <2>2. status = "running" /\ file' = file
    BY DEF Next, load_line, load_missing_file, initialize_cpu, emulate, execute_emu, return
  <2>3. StepsLeft > 0
    BY <2>1, <2>2 DEF StepsLeft
  <2>4. CASE status' # "running"
    BY <2>3, <2>4 DEF StepsLeft
  <2>5. CASE status' = "running"
    <3>1. CASE load_line
      BY <2>1, <2>2, <2>5, <3>1 DEF load_line, StepsLeft
    <3>2. CASE initialize_cpu
      BY <2>1, <2>2, <2>5, <3>2 DEF initialize_cpu, StepsLeft
    <3>3. CASE emulate
      BY <2>1, <2>2, <2>5, <3>3 DEF emulate, Counted, StepsLeft
    <3>4. CASE load_missing_file \/ return
      BY <2>5, <3>4 DEF load_missing_file, return, DumpAndReturn
    <3> QED BY <2>2, <3>1, <3>2, <3>3, <3>4 DEF Next
  <2> QED BY <2>4, <2>5
<1> HIDE DEF Counts
<1> QED BY <1>1, <1>2, <1>3, TypeOKHolds, PTL DEF Spec

=============================================================================
