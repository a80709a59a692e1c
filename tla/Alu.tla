-------------------------------- MODULE Alu ---------------------------------
(***************************************************************************)
(* What the instructions of emulator.c compute.  The widths of the machine *)
(* are constants: the program has byteBits = 8, immBits = 12 and           *)
(* shamtBits = 5, and the runs scale the three together.  A register holds *)
(* an unsigned word; SInt is the cast (sWord), Wrap the conversion back.   *)
(***************************************************************************)
EXTENDS Bits

CONSTANTS
    byteBits,       \* bits of a Byte; a Word has four bytes
    immBits,        \* bits of the immediate of an I-type or S-type instruction
    shamtBits       \* bits of a shift amount: a Word has 2^shamtBits bits

ASSUME WidthAssumption ==
    /\ byteBits \in 1 .. 8
    /\ shamtBits \in 1 .. 5
    /\ Pow2[shamtBits] = 4 * byteBits
    /\ immBits \in shamtBits + 2 .. 4 * byteBits

WordBits == 4 * byteBits

Byte == 0 .. Pow2[byteBits] - 1
Word == 0 .. Pow2[WordBits] - 1

Wrap(x) == x % Pow2[WordBits]
\* Fault: the cast to sWord forgotten.
SInt_NoCast(a) == a

SInt(a) == Signed(a, WordBits)

\* Fault: the shift back to the right on an unsigned word brings in zeros.
sign_extend_number_Logical(field, n) == LowBits(field, n)

\* sign_extend_number, cut to the n bits of the field and widened to an int.
sign_extend_number(field, n) == Signed(LowBits(field, n), n)

\* The bits of a word as a set of positions, and the word of such a set.
BitsOf(a) == {i \in 0 .. WordBits - 1 : BitField(a, i, i) = 1}

FromBits(S) ==
    LET sum[n \in 0 .. WordBits] ==
            IF n = 0 THEN 0
            ELSE sum[n - 1] + IF n - 1 \in S THEN Pow2[n - 1] ELSE 0
    IN  sum[WordBits]

And(a, b) == FromBits(BitsOf(a) \cap BitsOf(b))
Or(a, b)  == FromBits(BitsOf(a) \cup BitsOf(b))
Xor(a, b) == FromBits((BitsOf(a) \cup BitsOf(b)) \ (BitsOf(a) \cap BitsOf(b)))

\* C division truncates towards zero, and the remainder has the sign of x.
Abs(x) == IF x < 0 THEN -x ELSE x
Quotient(x, y)  == LET q == Abs(x) \div Abs(y)
                   IN  IF (x < 0) = (y < 0) THEN q ELSE -q

\* Fault: the remainder of a division that rounds down.
Remainder_Floor(x, y) == x % Abs(y)

Remainder(x, y) == x - y * Quotient(x, y)

Truth(p) == IF p THEN 1 ELSE 0

\* A shift by a register: the compiled shift reads the low bits of the count.
Count(b) == LowBits(b, shamtBits)

-----------------------------------------------------------------------------
(* The instructions emulator.c knows, by funct3 and, where it matters,     *)
(* funct7.  Any other combination is an invalid instruction.               *)
RtypeName ==
    [op \in (0 .. 7) \X {0, 1} \cup {<<0, 32>>, <<5, 32>>} |->
        CASE op[2] = 0 -> <<"add", "sll", "slt", "sltu", "xor", "srl", "or", "and">>[op[1] + 1]
          [] op[2] = 1 -> <<"mul", "mulh", "mulsu", "mulu",
                            "div", "divu", "rem", "remu">>[op[1] + 1]
          [] op = <<0, 32>> -> "sub"
          [] op = <<5, 32>> -> "sra"]

\* The shifts are told apart by the bits above the shift amount.
ArithmeticShift == Pow2[immBits - shamtBits - 2]

ItypeName(funct3, imm) ==
    LET high == Shr(imm, shamtBits) IN
    CASE funct3 = 0 -> "addi"
      [] funct3 = 1 -> IF high = 0 THEN "slli" ELSE "invalid"
      [] funct3 = 2 -> "slti"
      [] funct3 = 3 -> "sltiu"
      [] funct3 = 4 -> "xori"
      [] funct3 = 5 -> IF high = 0 THEN "srli"
                       ELSE IF high = ArithmeticShift THEN "srai" ELSE "invalid"
      [] funct3 = 6 -> "ori"
      [] funct3 = 7 -> "andi"

BranchName ==
    [funct3 \in {0, 1, 4, 5, 6, 7} |->
        CASE funct3 = 0 -> "beq"  [] funct3 = 1 -> "bne"
          [] funct3 = 4 -> "blt"  [] funct3 = 5 -> "bge"
          [] funct3 = 6 -> "bltu" [] funct3 = 7 -> "bgeu"]

LoadName ==
    [funct3 \in {0, 1, 2, 4, 5} |->
        CASE funct3 = 0 -> "lb"  [] funct3 = 1 -> "lh"  [] funct3 = 2 -> "lw"
          [] funct3 = 4 -> "lbu" [] funct3 = 5 -> "lhu"]

StoreName == [funct3 \in 0 .. 2 |-> <<"sb", "sh", "sw">>[funct3 + 1]]

-----------------------------------------------------------------------------
\* Fault: the overflow looked for in the unsigned divisions too.
DivisionFaults_Unsigned(name, a, b) ==
    \/ b = 0
    \/ SInt(a) = -Pow2[WordBits - 1] /\ SInt(b) = -1

\* The divisions that raise SIGFPE: by zero, and the one that overflows.
DivisionFaults(name, a, b) ==
    \/ name \in {"div", "divu", "rem", "remu"} /\ b = 0
    \/ /\ name \in {"div", "rem"}
       /\ SInt(a) = -Pow2[WordBits - 1] /\ SInt(b) = -1

\* What an R-type instruction writes to rd, for a in rs1 and b in rs2.  The
\* high products cast the unsigned register to a double word, which does not
\* extend the sign; srl shifts a signed word, which does.
rtype_value(name, a, b) ==
    CASE name = "add"   -> Wrap(SInt(a) + SInt(b))
      [] name = "sub"   -> Wrap(SInt(a) - SInt(b))
      [] name = "mul"   -> Wrap(SInt(a) * SInt(b))
      [] name = "mulh"  -> Wrap(Shr(a * b, WordBits))
      [] name = "mulsu" -> Wrap(Shr(a * b, WordBits))
      [] name = "mulu"  -> Wrap(Shr(a * b, WordBits))
      [] name = "sll"   -> Wrap(Shl(a, Count(b)))
      [] name = "srl"   -> Wrap(Shr(SInt(a), Count(b)))
      [] name = "sra"   -> Wrap(Shr(SInt(a), Count(b)))
      [] name = "slt"   -> Truth(SInt(a) < SInt(b))
      [] name = "sltu"  -> Truth(a < b)
      [] name = "xor"   -> Xor(a, b)
      [] name = "or"    -> Or(a, b)
      [] name = "and"   -> And(a, b)
      [] name = "div"   -> Wrap(Quotient(SInt(a), SInt(b)))
      [] name = "rem"   -> Wrap(Remainder(SInt(a), SInt(b)))
      [] name = "divu"  -> a \div b
      [] name = "remu"  -> a % b

\* What an I-type instruction writes to rd; sltiu does not extend the sign of
\* the immediate, srai shifts by the whole immediate.
itype_value(name, a, imm) ==
    LET simm == sign_extend_number(imm, immBits) IN
    CASE name = "addi"  -> Wrap(SInt(a) + simm)
      [] name = "slli"  -> Wrap(Shl(a, LowBits(imm, shamtBits)))
      [] name = "slti"  -> Truth(SInt(a) < simm)
      [] name = "sltiu" -> Truth(a < imm)
      [] name = "xori"  -> Xor(a, Wrap(simm))
      [] name = "srli"  -> Shr(a, LowBits(imm, shamtBits))
      [] name = "srai"  -> Wrap(Shr(SInt(a), Count(imm)))
      [] name = "ori"   -> Or(a, Wrap(simm))
      [] name = "andi"  -> And(a, Wrap(simm))

branch_taken(name, a, b) ==
    CASE name = "beq"  -> a = b
      [] name = "bne"  -> a # b
      [] name = "blt"  -> SInt(a) < SInt(b)
      [] name = "bge"  -> SInt(a) >= SInt(b)
      [] name = "bltu" -> a < b
      [] name = "bgeu" -> a >= b

=============================================================================
