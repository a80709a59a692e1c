------------------------------ MODULE AluCheck ------------------------------
(***************************************************************************)
(* The arithmetic of emulator.c and of stage_helpers.h against the         *)
(* comments of emulator.c, for every pair of operands of a machine with    *)
(* narrow words: a walk over all of them.                                  *)
(***************************************************************************)
EXTENDS StageHelpers, AluReference

VARIABLES a, b      \* the operands: two registers, or a register and an immediate

vars == <<a, b>>

Init == a = 0 /\ b = 0

NextA == a < Pow2[WordBits] - 1 /\ a' = a + 1 /\ UNCHANGED b
NextB == a = 0 /\ b < Pow2[WordBits] - 1 /\ b' = b + 1 /\ UNCHANGED a

Next == NextA \/ NextB

Spec == Init /\ [][Next]_vars

Rtypes == {RtypeName[op] : op \in DOMAIN RtypeName}
Itypes == {ItypeName(funct3, imm) : funct3 \in 0 .. 7,
                                    imm \in 0 .. Pow2[immBits] - 1} \ {"invalid"}

-----------------------------------------------------------------------------
\* Every R-type instruction that does not fault writes a word, the one its
\* comment in execute_rtype describes; srl and the signed high products do so
\* for operands that are not negative.
RtypeAsCommented ==
    \A name \in Rtypes :
        \/ DivisionFaults(name, a, b)
        \/ /\ rtype_value(name, a, b) \in Word
           /\ \/ Departs(name, a, b)
              \/ Ref!Computes(name, a, b, rtype_value(name, a, b))

\* A division, or a remainder, faults only when the quotient that its comment
\* divides by does not exist in a register.
FaultsOnlyWithoutQuotient ==
    \A name \in {"div", "divu", "rem", "remu"} :
        LET quotient == IF name \in {"div", "rem"} THEN "div" ELSE "divu"
        IN  DivisionFaults(name, a, b)
                => \A d \in Word : ~Ref!Computes(quotient, a, b, d)

\* The immediate forms agree with the register forms on the immediate they
\* extend: the logical shifts of an immediate do bring in zeros.
ItypeAsCommented ==
    \A funct3 \in 0 .. 7 :
        LET imm     == LowBits(b, immBits)
            name    == ItypeName(funct3, imm)
            operand == IF name \in {"sltiu", "slli", "srli", "srai"}
                       THEN imm ELSE Wrap(Signed(imm, immBits))
        IN  name # "invalid" =>
                /\ itype_value(name, a, imm) \in Word
                /\ Ref!Computes(Ref!Plain(name), a, operand, itype_value(name, a, imm))

\* The branch conditions are three pairs of opposites, and compare as the
\* comments of execute_branch say.
BranchAsCommented ==
    \A f \in {0, 4, 6} :
        /\ branch_taken(BranchName[f], a, b) <=> Ref!Decides(BranchName[f], a, b)
        /\ branch_taken(BranchName[f], a, b) # branch_taken(BranchName[f + 1], a, b)

\* sign_extend_number keeps the field and gives it the value its top bit says.
SignExtensionKeepsField ==
    \A n \in 1 .. WordBits :
        LET x == sign_extend_number(a, n) IN
        /\ LowBits(Wrap(x), n) = LowBits(a, n)
        /\ x \in -Pow2[n - 1] .. Pow2[n - 1] - 1

\* The ALU of the pipeline, given the code that the case of the instruction
\* assigns, computes what the emulator's comment says of the instruction, srl
\* too: but for the high products, which return the low word, and a division by
\* zero, which returns the error code.  Codes 18 and 19 are div and rem.
PipelineAluAsCommented ==
    LET codes == [op \in DOMAIN RtypeCode \cap DOMAIN RtypeName |->
                     <<RtypeName[op], RtypeCode[op]>>]
        pairs == {codes[op] : op \in DOMAIN codes} \cup {<<"div", 18>>, <<"rem", 19>>}
    IN  \A pair \in pairs :
            LET name == pair[1]  result == execute_alu(a, b, pair[2]) IN
            CASE AluFaults(a, b, pair[2])               -> DivisionFaults(name, a, b)
              [] DivisionFaults(name, a, b) /\ b = 0    -> result = ErrorCode
              [] name \in {"mulh", "mulsu", "mulu"}     -> Ref!Computes("mul", a, b, result)
              [] OTHER                                  -> Ref!Computes(name, a, b, result)

\* The pipeline decides a branch as the emulator does, except blt and bge of
\* registers whose signs differ, which it decides the other way.
PipelineBranchAsEmulated ==
    \A f \in DOMAIN BranchName :
        LET other == f \in {4, 5} /\ (SInt(a) < 0) # (SInt(b) < 0)
        IN  gen_branch("0x63", f, a, b) = (branch_taken(BranchName[f], a, b) # other)

=============================================================================
