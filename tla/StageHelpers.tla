---------------------------- MODULE StageHelpers ----------------------------
(***************************************************************************)
(* The functions of stage_helpers.h that the stages of the pipeline call,  *)
(* but for gen_forward, whose wires nothing reads.  They keep no state.  An instruction is the record of its fields, as in  *)
(* module Decode, with its opcode beside it; the control signals are those *)
(* of idex_reg_t that the ALU control reads.  ErrorCode is 0xBADCAFFE.     *)
(***************************************************************************)
EXTENDS Decode, Sequences

CONSTANT ErrorCode

\* It is none of the control codes of the ALU.
ASSUME ErrorAssumption == ErrorCode \in Nat \ (0 .. 19)

-----------------------------------------------------------------------------
(* Decode stage.                                                           *)

\* Fault: the immediate of lui moved to its place in the word.
gen_imm_Shifted(opcode, i) ==
    CASE opcode = "0x63" -> get_branch_offset(i)
      [] opcode = "0x13" -> i.imm
      [] opcode = "0x23" -> get_store_offset(i)
      [] opcode = "0x6F" -> get_jump_offset(i)
      [] opcode = "0x37" -> i.imm * Pow2[8]
      [] OTHER           -> 0

\* The int imm_val; neither I-type nor jal immediates are sign extended, and a
\* load has none.
gen_imm(opcode, i) ==
    CASE opcode = "0x63" -> get_branch_offset(i)
      [] opcode = "0x13" -> i.imm
      [] opcode = "0x23" -> get_store_offset(i)
      [] opcode = "0x6F" -> get_jump_offset(i)
      [] opcode = "0x37" -> i.imm
      [] OTHER           -> 0

\* The signals start as zero, read_opcode too, and the opcodes of loads, lui,
\* jal and ecall leave them so.
gen_control(opcode, i) ==
    LET Control(o, f3, f7) == [read_opcode |-> o, read_funct3 |-> f3, read_funct7 |-> f7] IN
    CASE opcode = "0x33"                     -> Control(opcode, i.funct3, i.funct7)
      [] opcode \in {"0x23", "0x13", "0x63"} -> Control(opcode, i.funct3, 0)
      [] OTHER                               -> Control("0x00", 0, 0)

-----------------------------------------------------------------------------
(* Execute stage: the control code of the ALU.                             *)

\* The code that the case of funct3 and funct7 assigns; div and rem are looked
\* for at 0x12 and 0x13, which are their codes and not their funct7.
RtypeCode ==
    [op \in (0 .. 7) \X {0} \cup {0, 1, 2, 3, 5, 7} \X {1}
             \cup {<<0, 32>>, <<5, 32>>, <<4, 18>>, <<6, 19>>} |->
        CASE op[2] = 0     -> <<0, 7, 17, 9, 6, 8, 3, 2>>[op[1] + 1]
          [] op = <<0, 1>> -> 12  [] op = <<1, 1>> -> 11  [] op = <<2, 1>> -> 15
          [] op = <<3, 1>> -> 16  [] op = <<5, 1>> -> 5   [] op = <<7, 1>> -> 10
          [] op = <<0, 32>> -> 1  [] op = <<5, 32>> -> 14
          [] op = <<4, 18>> -> 18 [] op = <<6, 19>> -> 10]

\* What alu_control is after each case of the R-type switch: no case of funct3
\* has a break, so that it goes on with the next, down to the default.  Case 0
\* is the one that leaves the initial 0 for a funct7 it does not know.
RtypeAssigned(funct3, funct7) ==
    [k \in 1 .. 9 - funct3 |->
        LET op == <<funct3 + k - 1, funct7>> IN
        CASE op \in DOMAIN RtypeCode -> RtypeCode[op]
          [] op \notin DOMAIN RtypeCode /\ op[1] = 0 -> 0
          [] OTHER -> ErrorCode]

\* What the I-type switch leaves in alu_control.  The shifts, cases 1 and 5,
\* fall into case 2, whatever code their immediate chose.
ItypeCode == [funct3 \in 0 .. 7 |-> <<0, 9, 9, 9, 6, 9, 3, 2>>[funct3 + 1]]

\* The assignments to alu_control, case by case up to the first break.
Assigned(c) ==
    CASE c.read_opcode = "0x33" -> RtypeAssigned(c.read_funct3, c.read_funct7)
                                       \o <<ItypeCode[c.read_funct3], 0>>
      [] c.read_opcode = "0x13" -> <<ItypeCode[c.read_funct3], 0>>
      [] c.read_opcode \in {"0x03", "0x6F", "0x67", "0x23"} -> <<0>>
      [] c.read_opcode = "0x63" -> <<1>>
      [] OTHER                  -> <<ErrorCode>>

\* The other assignments, to alu_src, are made in a copy of the register and
\* lost.
gen_alu_control(c) == Assigned(c)[Len(Assigned(c))]

-----------------------------------------------------------------------------
(* Execute stage: the ALU.                                                 *)

\* The quotient that overflows raises SIGFPE; a divisor of zero is tested for.
AluFaults(x, y, alu_control) ==
    alu_control \in {18, 19} /\ SInt(x) = -Pow2[WordBits - 1] /\ SInt(y) = -1

\* Fault: the right shifts with their casts exchanged.
Shifted_Swapped(x, y, alu_control) ==
    IF alu_control = 14 THEN Shr(x, Count(y)) ELSE Wrap(Shr(SInt(x), Count(y)))

\* The right shifts: only sra, code 0xE, casts to sWord.
Shifted(x, y, alu_control) ==
    IF alu_control = 14 THEN Wrap(Shr(SInt(x), Count(y))) ELSE Shr(x, Count(y))

\* The products are cast down to a word before they are formed, and a word
\* shifted by its whole width is compiled to a shift by 0: mulh, mulsu and mulu
\* return the low word.
execute_alu(x, y, alu_control) ==
    CASE alu_control = 0                -> Wrap(x + y)
      [] alu_control = 1                -> Wrap(x - y)
      [] alu_control = 2                -> And(x, y)
      [] alu_control = 3                -> Or(x, y)
      [] alu_control \in {4, 7}         -> Wrap(Shl(x, Count(y)))
      [] alu_control = 5 /\ y # 0       -> x \div y
      [] alu_control = 6                -> Xor(x, y)
      [] alu_control \in {8, 13, 14}    -> Shifted(x, y, alu_control)
      [] alu_control = 9                -> Truth(x < y)
      [] alu_control = 10 /\ y # 0      -> x % y
      [] alu_control \in {11, 12, 15, 16} -> Wrap(SInt(x) * SInt(y))
      [] alu_control = 17               -> Truth(SInt(x) < SInt(y))
      [] alu_control = 18 /\ y # 0      -> Wrap(Quotient(SInt(x), SInt(y)))
      [] alu_control = 19 /\ y # 0      -> Wrap(Remainder(SInt(x), SInt(y)))
      [] OTHER                          -> ErrorCode

-----------------------------------------------------------------------------
(* Branches.                                                               *)

\* Fault: bge and bgeu not taken for equal registers.
gen_branch_Strict(opcode, funct3, read_rs1, read_rs2) ==
    /\ opcode = "0x63"
    /\ \/ funct3 = 0 /\ read_rs1 = read_rs2
       \/ funct3 = 1 /\ read_rs1 # read_rs2
       \/ funct3 \in {4, 6} /\ read_rs1 < read_rs2
       \/ funct3 \in {5, 7} /\ read_rs1 > read_rs2

\* Whether a branch is taken; blt and bge compare the registers unsigned.
gen_branch(opcode, funct3, read_rs1, read_rs2) ==
    /\ opcode = "0x63"
    /\ \/ funct3 = 0 /\ read_rs1 = read_rs2
       \/ funct3 = 1 /\ read_rs1 # read_rs2
       \/ funct3 \in {4, 6} /\ read_rs1 < read_rs2
       \/ funct3 \in {5, 7} /\ read_rs1 >= read_rs2

=============================================================================
