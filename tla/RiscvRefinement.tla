-------------------------- MODULE RiscvRefinement --------------------------
(***************************************************************************)
(* The emulator implements the machine that its comments describe.         *)
(***************************************************************************)
EXTENDS Riscv, AluReference

Mnemonic(i) ==
    LET In(f, table) == IF f \in DOMAIN table THEN table[f] ELSE "invalid" IN
    CASE i.opcode = "0x33" -> In(<<i.funct3, i.funct7>>, RtypeName)
      [] i.opcode = "0x13" -> ItypeName(i.funct3, i.imm)
      [] i.opcode = "0x03" -> In(i.funct3, LoadName)
      [] i.opcode = "0x23" -> In(i.funct3, StoreName)
      [] i.opcode = "0x63" -> In(i.funct3, BranchName)
      [] i.opcode = "0x6F" -> "jal"
      [] i.opcode = "0x37" -> "lui"
      [] i.opcode = "0x73" -> "ecall"

\* What ends the process after the last call of execute_emu is no instruction.
Finished == phase = "emulate" /\ ~Continues

\* Once main has gone on to the simulator the machine is off.
State ==
    IF phase \notin {"load", "emulate"} THEN "off"
    ELSE CASE status = "running" -> IF phase = "load" THEN "loading" ELSE "running"
           [] status = "exit 0"   -> "exited"
           [] status = "returned" \/ (status = "undefined" /\ Finished) -> "off"
           [] OTHER               -> "failed"

Commented == INSTANCE RiscvIsa WITH
    N <- WordBits, ByteBits <- byteBits, ImmBits <- immBits, Exp <- Pow2,
    Name <- Mnemonic, state <- State, regs <- R, pc <- PC, mem <- memory

\* Every call of execute_emu does to the registers, the memory and the program
\* counter what the comment of its instruction says, and to nothing else; the
\* process fails only where no comment promises an effect, and exits only at
\* the system call for it (emulator.c, riscv.c:22-57).
ImplementsComments == Commented!Spec

\* What the next call of execute_emu executes is one of the instructions that
\* do not do what their comment says: srl or a signed high product of a negative
\* operand (emulator.c:90, 104, 168), or a store below its base (utils.c:256).
Departing ==
    /\ Executing
    /\ \/ Departs(Mnemonic(Current), R[Current.rs1], R[Current.rs2])
       \/ /\ Mnemonic(Current) \in {"sb", "sh", "sw"}
          /\ Current.imm >= Pow2[immBits - 1]

=============================================================================
