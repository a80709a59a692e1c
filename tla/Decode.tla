------------------------------- MODULE Decode -------------------------------
(***************************************************************************)
(* utils.c: how an instruction word is taken apart, and how the pieces of  *)
(* an immediate are put together.  A word is a record of the opcode, its   *)
(* bits 0 .. 6, and the rest, its bits 7 .. 31, as in the first struct of  *)
(* the union Instruction; an instruction is the record of the fields that  *)
(* parse_instruction fills in.                                             *)
(***************************************************************************)
EXTENDS Alu

Opcodes == {"0x33", "0x13", "0x03", "0x73", "0x23", "0x63", "0x37", "0x6F"}

\* The fields of each format, from the rest of the word.
rtype(rest) == [rd     |-> BitField(rest, 4, 0),   funct3 |-> BitField(rest, 7, 5),
                rs1    |-> BitField(rest, 12, 8),  rs2    |-> BitField(rest, 17, 13),
                funct7 |-> BitField(rest, 24, 18)]

itype(rest) == [rd     |-> BitField(rest, 4, 0),   funct3 |-> BitField(rest, 7, 5),
                rs1    |-> BitField(rest, 12, 8),  imm    |-> BitField(rest, 24, 13)]

\* Fault: the two halves of the immediate taken in the order of rtype.
stype_Swapped(rest) ==
               [imm5   |-> BitField(rest, 17, 13), funct3 |-> BitField(rest, 7, 5),
                rs1    |-> BitField(rest, 12, 8),  rs2    |-> BitField(rest, 4, 0),
                imm7   |-> BitField(rest, 24, 18)]

\* Also sbtype, which has the same layout.
stype(rest) == [imm5   |-> BitField(rest, 4, 0),   funct3 |-> BitField(rest, 7, 5),
                rs1    |-> BitField(rest, 12, 8),  rs2    |-> BitField(rest, 17, 13),
                imm7   |-> BitField(rest, 24, 18)]

\* Also ujtype, which has the same layout.
utype(rest) == [rd     |-> BitField(rest, 4, 0),   imm    |-> BitField(rest, 24, 5)]

\* parse_instruction, for an opcode it knows; on any other the process ends.
parse_instruction(word) ==
    CASE word.opcode = "0x33"                     -> rtype(word.rest)
      [] word.opcode \in {"0x13", "0x03", "0x73"} -> itype(word.rest)
      [] word.opcode \in {"0x23", "0x63"}         -> stype(word.rest)
      [] word.opcode \in {"0x37", "0x6F"}         -> utype(word.rest)

-----------------------------------------------------------------------------
\* Fault: the bits 11 and 12 of the offset exchanged.
get_branch_offset_Swapped(i) ==
    sign_extend_number(BitField(i.imm7, 6, 6) * Pow2[11] + BitField(i.imm5, 0, 0) * Pow2[12]
                       + BitField(i.imm7, 5, 0) * Pow2[5] + BitField(i.imm5, 4, 1) * 2, 13)

get_branch_offset(i) ==
    sign_extend_number(BitField(i.imm7, 6, 6) * Pow2[12] + BitField(i.imm5, 0, 0) * Pow2[11]
                       + BitField(i.imm7, 5, 0) * Pow2[5] + BitField(i.imm5, 4, 1) * 2, 13)

\* Fault: the ten bits masked to nine, as if they did not reach bit 20.
get_jump_offset_NineBits(i) ==
    2 * (BitField(i.imm, 19, 19) * Pow2[20] + BitField(i.imm, 7, 0) * Pow2[12]
         + BitField(i.imm, 8, 8) * Pow2[11] + BitField(i.imm, 18, 10) * 2)

\* The ten bits taken from bit 10 hold the offset's bits 2 .. 10 and 20, one
\* place above bits 1 .. 10; the shift at the end moves all of it up again.
get_jump_offset(i) ==
    2 * (BitField(i.imm, 19, 19) * Pow2[20] + BitField(i.imm, 7, 0) * Pow2[12]
         + BitField(i.imm, 8, 8) * Pow2[11] + BitField(i.imm, 19, 10) * 2)

\* What jal adds to the program counter, and the disassembler prints.
jump_distance(i) == sign_extend_number(get_jump_offset(i), 20)

\* Fault: the halves of the immediate put together the wrong way round.
get_store_offset_Swapped(i) == i.imm5 * Pow2[7] + i.imm7

get_store_offset(i) == i.imm7 * Pow2[5] + i.imm5

-----------------------------------------------------------------------------
(* The words of the RISC-V base formats, as an assembler makes them.       *)

EncodeR(rd, funct3, rs1, rs2, funct7) ==
    rd + funct3 * Pow2[5] + rs1 * Pow2[8] + rs2 * Pow2[13] + funct7 * Pow2[18]

EncodeI(rd, funct3, rs1, imm) == rd + funct3 * Pow2[5] + rs1 * Pow2[8] + imm * Pow2[13]

EncodeS(imm, funct3, rs1, rs2) ==
    EncodeR(BitField(imm, 4, 0), funct3, rs1, rs2, BitField(imm, 11, 5))

EncodeB(offset, funct3, rs1, rs2) ==
    LET o == LowBits(offset, 13) IN
    EncodeR(BitField(o, 4, 1) * 2 + BitField(o, 11, 11), funct3, rs1, rs2,
            BitField(o, 12, 12) * Pow2[6] + BitField(o, 10, 5))

EncodeU(rd, imm) == rd + imm * Pow2[5]

EncodeJ(rd, offset) ==
    LET o == LowBits(offset, 21) IN
    EncodeU(rd, BitField(o, 20, 20) * Pow2[19] + BitField(o, 10, 1) * Pow2[9]
                + BitField(o, 11, 11) * Pow2[8] + BitField(o, 19, 12))

=============================================================================
