--------------------------- MODULE InstructionSet ---------------------------
(***************************************************************************)
(* The union Instruction of types.h as the emulator sees it: a record for  *)
(* each format, its fields named as in the struct.                         *)
(***************************************************************************)
EXTENDS Alu

CONSTANT Regs       \* the register numbers in use, a part of 0 .. 31

\* The fields of each format; the offsets of branches and jumps are what
\* get_branch_offset and get_jump_offset made of them.
Instructions ==
    LET Imm == 0 .. Pow2[immBits] - 1 IN
    [opcode : {"0x33"}, rd : Regs, funct3 : 0 .. 7, rs1 : Regs, rs2 : Regs,
     funct7 : 0 .. 127]
    \cup [opcode : {"0x13", "0x03"}, rd : Regs, funct3 : 0 .. 7, rs1 : Regs, imm : Imm]
    \cup [opcode : {"0x23"}, funct3 : 0 .. 7, rs1 : Regs, rs2 : Regs, imm : Imm]
    \cup [opcode : {"0x63"}, funct3 : 0 .. 7, rs1 : Regs, rs2 : Regs, imm : Int]
    \cup [opcode : {"0x6F"}, rd : Regs, imm : Int]
    \cup [opcode : {"0x37"}, rd : Regs, imm : 0 .. Pow2[WordBits - immBits] - 1]
    \cup [opcode : {"0x73"}]

=============================================================================
