---------------------------- MODULE DecodeCheck ----------------------------
(***************************************************************************)
(* Instruction words, made by an assembler, given to utils.c, disasm.c and *)
(* stage_helpers.h: a walk over every value of funct3 and of a 12-bit      *)
(* field.  The field is the immediate of a load, a store or an I-type      *)
(* instruction, funct7 and rs2 of an R-type one, and with funct3 the       *)
(* distance of a branch or jump.                                           *)
(***************************************************************************)
EXTENDS Disasm, StageHelpers, TLC

VARIABLES funct3, field

walk == <<funct3, field>>

WalkInit == funct3 = 0 /\ field = 0

NextField  == field < Pow2[12] - 1 /\ field' = field + 1 /\ UNCHANGED funct3
NextFunct3 == field = 0 /\ funct3 < 7 /\ funct3' = funct3 + 1 /\ UNCHANGED field

WalkNext == NextField \/ NextFunct3

WalkSpec == WalkInit /\ [][WalkNext]_walk

\* Registers that differ from each other and from the field.
rd     == (field + 3) % 32
rs1    == (field \div 32 + 11) % 32
rs2    == LowBits(field, 5)
funct7 == Shr(field, 5)

\* Every even distance a branch can have, and those of a jump within 32 KB.
BranchDistance == 2 * Signed(field, 12)
JumpDistance   == 16 * Signed(field, 12) + 2 * funct3

RestOf(opcode) ==
    CASE opcode = "0x33"                     -> EncodeR(rd, funct3, rs1, rs2, funct7)
      [] opcode \in {"0x13", "0x03", "0x73"} -> EncodeI(rd, funct3, rs1, field)
      [] opcode = "0x23"                     -> EncodeS(field, funct3, rs1, rd)
      [] opcode = "0x63"                     -> EncodeB(BranchDistance, funct3, rs1, rd)
      [] opcode = "0x37"                     -> EncodeU(rd, field * 8 + funct3)
      [] opcode = "0x6F"                     -> EncodeJ(rd, JumpDistance)

WordOf(opcode) == [opcode |-> opcode, rest |-> RestOf(opcode)]
Parsed(opcode) == parse_instruction(WordOf(opcode))
Printed(opcode) == decode_instruction(WordOf(opcode))

\* The mnemonic under which emulator.c executes the word, or "invalid".
Executed(opcode) ==
    LET In(key, table) == IF key \in DOMAIN table THEN table[key] ELSE "invalid"
        i == Parsed(opcode)
    IN  CASE opcode = "0x33" -> In(<<i.funct3, i.funct7>>, RtypeName)
          [] opcode = "0x13" -> ItypeName(i.funct3, i.imm)
          [] opcode = "0x03" -> In(i.funct3, LoadName)
          [] opcode = "0x23" -> In(i.funct3, StoreName)
          [] opcode = "0x63" -> In(i.funct3, BranchName)
          [] opcode = "0x37" -> "lui"
          [] opcode = "0x6F" -> "jal"
          [] opcode = "0x73" -> "ecall"

-----------------------------------------------------------------------------
\* parse_instruction recovers what the assembler put into the word: the
\* registers, the function codes and the immediate, in all formats.
FieldsRecovered ==
    /\ Parsed("0x33") = [rd |-> rd, funct3 |-> funct3, rs1 |-> rs1, rs2 |-> rs2,
                         funct7 |-> funct7]
    /\ Parsed("0x13") = [rd |-> rd, funct3 |-> funct3, rs1 |-> rs1, imm |-> field]
    /\ Parsed("0x23").rs1 = rs1 /\ Parsed("0x23").rs2 = rd
    /\ Parsed("0x23").funct3 = funct3
    /\ Parsed("0x37") = [rd |-> rd, imm |-> field * 8 + funct3]

\* get_branch_offset returns the distance the assembler encoded (utils.c:209).
BranchReachesLabel == get_branch_offset(Parsed("0x63")) = BranchDistance

\* A jump to a label on a word boundary less than 2 KB away goes there.
NearJumpReachesLabel ==
    JumpDistance \in -2048 .. 2047 /\ JumpDistance % 4 = 0
        => jump_distance(Parsed("0x6F")) = JumpDistance

\* utils.c:224 says of get_jump_offset that it returns "the number of bytes
\* (from the current PC) to the jump label"; labels are on word boundaries.
JumpReachesLabel ==
    JumpDistance % 4 = 0 => jump_distance(Parsed("0x6F")) = JumpDistance

\* A store whose immediate is not negative gets it back; one below its base
\* gets 4096 bytes too many.
StoreOffsetRecovered ==
    get_store_offset(Parsed("0x23"))
        = Signed(field, 12) + IF Signed(field, 12) < 0 THEN 4096 ELSE 0

\* The tables of disasm.c and of emulator.c know the same instructions by the
\* same names: the mnemonic printed is the one executed, and none is printed
\* for what the emulator calls invalid.
PrintsWhatRuns ==
    \A opcode \in Opcodes :
        {line.name : line \in {Printed(opcode)[k] : k \in 1 .. Len(Printed(opcode))} \ {Invalid}}
            = {Executed(opcode)} \ {"invalid"}

\* The word, but for its opcode, that an assembler makes of a printed line: the
\* operands as they stand, the codes those of the tables of emulator.c.
Assembles(opcode, line) ==
    LET At(k)      == line.args[k]
        Key(table) == CHOOSE key \in DOMAIN table : table[key] = line.name
        imm        == LowBits(At(3), 12) + IF line.name = "srai" THEN 1024 ELSE 0
        f          == CHOOSE code \in 0 .. 7 : ItypeName(code, imm) = line.name
    IN  CASE opcode = "0x33" -> EncodeR(At(1), Key(RtypeName)[1], At(2), At(3), Key(RtypeName)[2])
          [] opcode = "0x13" -> EncodeI(At(1), f, At(2), imm)
          [] opcode = "0x03" -> EncodeI(At(1), Key(LoadName), At(3), At(2))
          [] opcode = "0x23" -> EncodeS(At(2), Key(StoreName), At(3), At(1))
          [] opcode = "0x63" -> EncodeB(At(3), Key(BranchName), At(1), At(2))
          [] opcode = "0x37" -> EncodeU(At(1), At(2))
          [] opcode = "0x6F" -> EncodeJ(At(1), At(2))

\* What the disassembler prints of an instruction that the emulator executes is
\* enough to make its word again: no operand is lost, printed in the place of
\* another or with a distance that is not the one encoded, as it is for a jump
\* of 2 KB or more (JumpReachesLabel).  A negative offset of a load or a store is
\* printed as its twelve bits, which is enough too.
LineAssemblesBack ==
    \A opcode \in Opcodes \ {"0x73"} :
        /\ Executed(opcode) # "invalid"
        /\ opcode = "0x6F" => JumpDistance \in -2048 .. 2047 /\ JumpDistance % 4 = 0
        => Assembles(opcode, Head(Printed(opcode))) = RestOf(opcode)

\* gen_imm gives the execute stage the immediate that the assembler put into the
\* word: that of lui in its lower bits, that of a load not at all, and negative
\* ones only for branches (emulator.c extends the sign for I-type too).
ImmediatesReachExecute ==
    LET Imm(opcode) == gen_imm(opcode, Parsed(opcode))
        lifted == Signed(field, 12) + IF Signed(field, 12) < 0 THEN 4096 ELSE 0
    IN  /\ Imm("0x63") = BranchDistance
        /\ Imm("0x13") = lifted /\ Imm("0x23") = lifted
        /\ Imm("0x37") = field * 8 + funct3
        /\ JumpDistance \in 0 .. 2047 /\ JumpDistance % 4 = 0 => Imm("0x6F") = JumpDistance
        /\ \A opcode \in {"0x33", "0x03", "0x73"} : Imm(opcode) = 0

\* The operations that the comments of gen_alu_control name at its R-type cases
\* (stage_helpers.h:24-131), and the codes at which those of execute_alu name
\* them (stage_helpers.h:225-302).  Operations that only one side names are left
\* out, and the two cases whose funct7 no instruction has.
CaseComment ==
    <<0, 0>> :> "add" @@ <<0, 32>> :> "sub"   @@ <<0, 1>> :> "mul"
    @@ <<1, 0>> :> "sll" @@ <<1, 1>> :> "mulh"  @@ <<2, 0>> :> "slt"
    @@ <<2, 1>> :> "mulsu" @@ <<4, 0>> :> "xor" @@ <<5, 0>> :> "srl"
    @@ <<5, 32>> :> "sra" @@ <<5, 1>> :> "divu" @@ <<6, 0>> :> "or"
    @@ <<7, 1>> :> "remu"

AluComment ==
    0 :> "add" @@ 1 :> "sub" @@ 2 :> "and" @@ 3 :> "or" @@ 4 :> "sll" @@ 5 :> "divu" @@ 6 :> "xor"
    @@ 7 :> "sll" @@ 8 :> "srl" @@ 10 :> "remu" @@ 11 :> "mulh" @@ 12 :> "mul" @@ 14 :> "sra"
    @@ 15 :> "mulsu" @@ 17 :> "slt"

\* An R-type word whose case has a comment, "// sub" for one (stage_helpers.h:28),
\* gets a code at which execute_alu does what the comment says.
ChoosesCommentedOperation ==
    <<funct3, funct7>> \in DOMAIN CaseComment =>
        LET code == gen_alu_control(gen_control("0x33", Parsed("0x33")))
        IN  code \in DOMAIN AluComment /\ AluComment[code] = CaseComment[<<funct3, funct7>>]

\* emulator_tester.py:25-28 takes a line with "Invalid" for "an invalid
\* instruction": only what the emulator rejects is printed so.
InvalidOnlyIfInvalid ==
    \A opcode \in Opcodes :
        Invalid \in {Printed(opcode)[k] : k \in 1 .. Len(Printed(opcode))}
            => Executed(opcode) = "invalid"

=============================================================================
