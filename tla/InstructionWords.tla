-------------------------- MODULE InstructionWords --------------------------
(***************************************************************************)
(* From the word that execute_emu fetches to the record that module        *)
(* Emulator executes: parse_instruction with the offset helpers of         *)
(* utils.c, as a table of the words that it accepts.  The table is the     *)
(* InstructionOf of the program, where a word has 32 bits; the runs of the *)
(* emulator take smaller ones.                                             *)
(***************************************************************************)
EXTENDS Decode, InstructionSet

OpcodeNumber ==
    [opcode \in Opcodes |->
        CASE opcode = "0x33" -> 51  [] opcode = "0x13" -> 19  [] opcode = "0x03" -> 3
          [] opcode = "0x73" -> 115 [] opcode = "0x23" -> 35  [] opcode = "0x63" -> 99
          [] opcode = "0x37" -> 55  [] opcode = "0x6F" -> 111]

Decodable == {n \in Word : \E opcode \in Opcodes : LowBits(n, 7) = OpcodeNumber[opcode]}

\* The record that module Decode takes for the word n.
WordOfNumber(n) ==
    [opcode |-> CHOOSE opcode \in Opcodes : LowBits(n, 7) = OpcodeNumber[opcode],
     rest   |-> Shr(n, 7)]

\* What the handlers of emulator.c read from a word: the fields of its format,
\* and the offset that the helper called by the handler makes of them.
Decoded(word) ==
    LET i == parse_instruction(word)
        o == word.opcode
    IN  CASE o = "0x33" ->
                [opcode |-> o, rd |-> i.rd, funct3 |-> i.funct3, rs1 |-> i.rs1,
                 rs2 |-> i.rs2, funct7 |-> i.funct7]
          [] o \in {"0x13", "0x03"} ->
                [opcode |-> o, rd |-> i.rd, funct3 |-> i.funct3, rs1 |-> i.rs1, imm |-> i.imm]
          [] o = "0x23" ->
                [opcode |-> o, funct3 |-> i.funct3, rs1 |-> i.rs1, rs2 |-> i.rs2,
                 imm |-> get_store_offset(i)]
          [] o = "0x63" ->
                [opcode |-> o, funct3 |-> i.funct3, rs1 |-> i.rs1, rs2 |-> i.rs2,
                 imm |-> get_branch_offset(i)]
          [] o = "0x6F" -> [opcode |-> o, rd |-> i.rd, imm |-> jump_distance(i)]
          [] o = "0x37" -> [opcode |-> o, rd |-> i.rd, imm |-> i.imm]
          [] o = "0x73" -> [opcode |-> o]

InstructionTable == [n \in Decodable |-> Decoded(WordOfNumber(n))]

-----------------------------------------------------------------------------
\* The word that an assembler makes of an instruction; ecall has one word.
AssembledRest(i) ==
    CASE i.opcode = "0x33" -> EncodeR(i.rd, i.funct3, i.rs1, i.rs2, i.funct7)
      [] i.opcode \in {"0x13", "0x03"} -> EncodeI(i.rd, i.funct3, i.rs1, i.imm)
      [] i.opcode = "0x23" -> EncodeS(i.imm, i.funct3, i.rs1, i.rs2)
      [] i.opcode = "0x63" -> EncodeB(i.imm, i.funct3, i.rs1, i.rs2)
      [] i.opcode = "0x37" -> EncodeU(i.rd, i.imm)
      [] i.opcode = "0x6F" -> EncodeJ(i.rd, i.imm)
      [] i.opcode = "0x73" -> 0

Assembled(i) == OpcodeNumber[i.opcode] + Pow2[7] * AssembledRest(i)

=============================================================================
