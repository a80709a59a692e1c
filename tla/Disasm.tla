------------------------------- MODULE Disasm -------------------------------
(***************************************************************************)
(* disasm.c: what decode_instruction prints of an instruction.  A line is  *)
(* a record of the mnemonic and the operands in the order of the format,   *)
(* or Invalid, the line of handle_invalid_instruction.                     *)
(***************************************************************************)
EXTENDS Decode, Sequences

Line(name, args) == [name |-> name, args |-> args]
Invalid == Line("Invalid", <<>>)

\* A mnemonic of a table and the operands that go with it, or the invalid line.
One(table, key, args) ==
    IF key \in DOMAIN table THEN <<Line(table[key], args)>> ELSE <<Invalid>>

-----------------------------------------------------------------------------
\* An inner switch on funct7: the cases 0 and 1, and in some of them 32.
Two(at0, at1) == [funct7 \in {0, 1} |-> IF funct7 = 0 THEN at0 ELSE at1]
Three(at0, at1, at32) ==
    [funct7 \in {0, 1, 32} |-> IF funct7 = 32 THEN at32 ELSE Two(at0, at1)[funct7]]

\* The inner switches of write_rtype, by funct3.
rtype_inner ==
    [funct3 \in 0 .. 7 |->
        CASE funct3 = 0 -> Three("add", "mul", "sub")
          [] funct3 = 1 -> Two("sll", "mulh")
          [] funct3 = 2 -> Two("slt", "mulsu")
          [] funct3 = 3 -> Two("sltu", "mulu")
          [] funct3 = 4 -> Two("xor", "div")
          [] funct3 = 5 -> Three("srl", "divu", "sra")
          [] funct3 = 6 -> Two("or", "rem")
          [] funct3 = 7 -> Two("and", "remu")]

\* Case 3 has no break and falls into the default case.
FallsThrough == {3}

print_rtype(i) == <<i.rd, i.rs1, i.rs2>>

write_rtype(i) ==
    One(rtype_inner[i.funct3], i.funct7, print_rtype(i))
        \o IF i.funct3 \in FallsThrough THEN <<Invalid>> ELSE <<>>

print_itype(i, imm) == <<i.rd, i.rs1, sign_extend_number(imm, 12)>>

itype_names ==
    [funct3 \in {0, 2, 3, 4, 6, 7} |->
        CASE funct3 = 0 -> "addi" [] funct3 = 2 -> "slti" [] funct3 = 3 -> "sltiu"
          [] funct3 = 4 -> "xori" [] funct3 = 6 -> "ori"  [] funct3 = 7 -> "andi"]

\* The inner switches on the bits above the shift amount.
left_shifts  == [extracted_imm \in {0} |-> "slli"]
right_shifts == [extracted_imm \in {0, 32} |-> IF extracted_imm = 0 THEN "srli" ELSE "srai"]

write_itype_except_load(i) ==
    LET extracted_imm == Shr(i.imm, 5)
        shamt         == LowBits(i.imm, 5)
    IN  CASE i.funct3 = 1 -> One(left_shifts, extracted_imm, print_itype(i, i.imm))
          [] i.funct3 = 5 -> One(right_shifts, extracted_imm, print_itype(i, shamt))
          [] OTHER        -> One(itype_names, i.funct3, print_itype(i, i.imm))

load_names ==
    [funct3 \in {0, 1, 2, 4, 5} |->
        CASE funct3 = 0 -> "lb"  [] funct3 = 1 -> "lh"  [] funct3 = 2 -> "lw"
          [] funct3 = 4 -> "lbu" [] funct3 = 5 -> "lhu"]

\* The offset of a load is printed without its sign.
write_load(i) == One(load_names, i.funct3, <<i.rd, i.imm, i.rs1>>)

store_names ==
    [funct3 \in 0 .. 2 |->
        CASE funct3 = 0 -> "sb" [] funct3 = 1 -> "sh" [] funct3 = 2 -> "sw"]

\* Fault: the registers of a store printed in the order of the word.
write_store_Swapped(i) == One(store_names, i.funct3, <<i.rs1, get_store_offset(i), i.rs2>>)

write_store(i) == One(store_names, i.funct3, <<i.rs2, get_store_offset(i), i.rs1>>)

\* Fault: the unsigned branches in each other's place.
branch_names_Swapped ==
    [funct3 \in {0, 1, 4, 5, 6, 7} |->
        CASE funct3 = 0 -> "beq"  [] funct3 = 1 -> "bne"
          [] funct3 = 4 -> "blt"  [] funct3 = 5 -> "bge"
          [] funct3 = 6 -> "bgeu" [] funct3 = 7 -> "bltu"]

branch_names ==
    [funct3 \in {0, 1, 4, 5, 6, 7} |->
        CASE funct3 = 0 -> "beq"  [] funct3 = 1 -> "bne"
          [] funct3 = 4 -> "blt"  [] funct3 = 5 -> "bge"
          [] funct3 = 6 -> "bltu" [] funct3 = 7 -> "bgeu"]

write_branch(i) == One(branch_names, i.funct3, <<i.rs1, i.rs2, get_branch_offset(i)>>)

print_jal(i) == <<i.rd, jump_distance(i)>>

print_lui(i) == <<i.rd, i.imm>>

-----------------------------------------------------------------------------
\* The lines of decode_instruction.  The zero word has an opcode that
\* parse_instruction does not know, and prints an empty line.
decode_instruction(word) ==
    LET i == parse_instruction(word) IN
    CASE word.opcode = "0x33" -> write_rtype(i)
      [] word.opcode = "0x13" -> write_itype_except_load(i)
      [] word.opcode = "0x03" -> write_load(i)
      [] word.opcode = "0x23" -> write_store(i)
      [] word.opcode = "0x63" -> write_branch(i)
      [] word.opcode = "0x37" -> <<Line("lui", print_lui(i))>>
      [] word.opcode = "0x6F" -> <<Line("jal", print_jal(i))>>
      [] word.opcode = "0x73" -> <<Line("ecall", <<>>)>>

=============================================================================
