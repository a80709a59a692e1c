------------------------------ MODULE Emulator ------------------------------
(***************************************************************************)
(* The instruction-set emulator: execute_instruction of emulator.c with    *)
(* its handlers, called by execute_emu of riscv.c.  Each action is one     *)
(* call of execute_emu, from the fetch of a word to the reset of R[0].     *)
(*                                                                         *)
(* A word in memory becomes an instruction through InstructionOf, which    *)
(* stands for parse_instruction and the offset helpers of utils.c (module  *)
(* Decode has those at their real widths, and InstructionWords makes this  *)
(* table of them): instructions are data, and a program may overwrite      *)
(* itself or jump between two of its words.                                *)
(***************************************************************************)
EXTENDS InstructionSet, FiniteSets

CONSTANTS
    MemorySpace,    \* MEMORY_SPACE: the bytes of memory
    InstructionOf   \* the words that parse_instruction accepts, decoded

ASSUME MachineAssumption ==
    /\ {0, 10, 11} \subseteq Regs /\ Regs \subseteq 0 .. 31
    /\ MemorySpace \in 4 .. Pow2[WordBits]
    /\ \A word \in DOMAIN InstructionOf :
          word \in Word \ {0} /\ InstructionOf[word] \in Instructions

VARIABLES R, PC, memory,
          status    \* how the process ended, or "running"

machine == <<R, PC, memory, status>>

Addresses == 0 .. MemorySpace - 1

-----------------------------------------------------------------------------
(* Memory.  Address arithmetic wraps at 32 bits; nothing checks it against *)
(* MEMORY_SPACE.                                                           *)

LENGTH_BYTE == 1
LENGTH_HALF_WORD == 2
LENGTH_WORD == 4

Cells(address, length) == [k \in 0 .. length - 1 |-> Wrap(address + k)]

InBounds(address, length) ==
    \A k \in 0 .. length - 1 : Cells(address, length)[k] \in Addresses

\* load: the bytes at address and after it, the lowest first.
load(address, length) ==
    LET sum[n \in 0 .. length] ==
            IF n = 0 THEN 0
            ELSE sum[n - 1] + Shl(memory[Wrap(address + n - 1)], byteBits * (n - 1))
    IN  sum[length]

\* store: the memory after `length' bytes of value went to address.
store(address, length, value) ==
    [m \in Addresses |->
        IF \E k \in 0 .. length - 1 : Cells(address, length)[k] = m
        THEN LET k == CHOOSE k \in 0 .. length - 1 : Cells(address, length)[k] = m
             IN  LowBits(Shr(value, byteBits * k), byteBits)
        ELSE memory[m]]

-----------------------------------------------------------------------------
(* How a call of execute_emu ends.                                         *)

\* Fault: execute_emu without the assignment to R[0].
Retire_KeepsZero(regs, pc, mem) ==
    /\ R' = regs /\ PC' = Wrap(pc) /\ memory' = mem
    /\ UNCHANGED status

\* The instruction retires: execute_emu sets R[0] to 0 whatever it wrote.
Retire(regs, pc, mem) ==
    /\ R' = [regs EXCEPT ![0] = 0]
    /\ PC' = Wrap(pc)
    /\ memory' = mem
    /\ UNCHANGED status

SetRd(i, value) == Retire([R EXCEPT ![i.rd] = value], PC + 4, memory)

\* The process ends: exit(0), exit(-1), exit(EXIT_FAILURE), or the signal of a
\* division.  What an access outside memory does is not defined.
Stop(how) == status' = how /\ UNCHANGED <<R, PC, memory>>

Statuses == {"running", "exit 0", "exit -1", "EXIT_FAILURE", "SIGFPE", "undefined"}

-----------------------------------------------------------------------------
execute_rtype(i) ==
    LET op == <<i.funct3, i.funct7>>
        a  == R[i.rs1]
        b  == R[i.rs2]
    IN  /\ i.opcode = "0x33"
        /\ \/ op \notin DOMAIN RtypeName /\ Stop("exit -1")
           \/ /\ op \in DOMAIN RtypeName
              /\ DivisionFaults(RtypeName[op], a, b)
              /\ Stop("SIGFPE")
           \/ /\ op \in DOMAIN RtypeName
              /\ ~DivisionFaults(RtypeName[op], a, b)
              /\ SetRd(i, rtype_value(RtypeName[op], a, b))

execute_itype_except_load(i) ==
    LET name == ItypeName(i.funct3, i.imm) IN
    /\ i.opcode = "0x13"
    /\ \/ name = "invalid" /\ Stop("exit -1")
       \/ name # "invalid" /\ SetRd(i, itype_value(name, R[i.rs1], i.imm))

\* The system call is in x10 and its argument in x11; what is printed is left
\* out.  Printing a string stays within memory.
execute_ecall(i) ==
    /\ i.opcode = "0x73"
    /\ \/ R[10] \in {1, 4, 11} /\ Retire(R, PC + 4, memory)
       \/ R[10] = 10 /\ Stop("exit 0")
       \/ R[10] \notin {1, 4, 10, 11} /\ Stop("exit -1")

execute_branch(i) ==
    /\ i.opcode = "0x63"
    /\ \/ i.funct3 \notin DOMAIN BranchName /\ Stop("exit -1")
       \/ /\ i.funct3 \in DOMAIN BranchName
          /\ LET taken == branch_taken(BranchName[i.funct3], R[i.rs1], R[i.rs2])
             IN  Retire(R, PC + (IF taken THEN i.imm ELSE 4), memory)

\* A load of unknown width is reported and skipped, not fatal.
execute_load(i) ==
    LET address == Wrap(R[i.rs1] + sign_extend_number(i.imm, immBits))
        name    == LoadName[i.funct3]
        length  == CASE name \in {"lb", "lbu"} -> LENGTH_BYTE
                     [] name \in {"lh", "lhu"} -> LENGTH_HALF_WORD
                     [] name = "lw" -> LENGTH_WORD
        raw     == load(address, length)
        value   == IF name \in {"lb", "lh"}
                   THEN Wrap(sign_extend_number(raw, byteBits * length))
                   ELSE raw
    IN  /\ i.opcode = "0x03"
        /\ \/ i.funct3 \notin DOMAIN LoadName /\ Retire(R, PC + 4, memory)
           \/ /\ i.funct3 \in DOMAIN LoadName
              /\ InBounds(address, length)
              /\ SetRd(i, value)
           \/ /\ i.funct3 \in DOMAIN LoadName
              /\ ~InBounds(address, length)
              /\ Stop("undefined")

\* get_store_offset does not extend the sign of the immediate.
get_store_offset(i) == i.imm

execute_store(i) ==
    LET address == Wrap(R[i.rs1] + get_store_offset(i))
        length  == CASE StoreName[i.funct3] = "sb" -> LENGTH_BYTE
                     [] StoreName[i.funct3] = "sh" -> LENGTH_HALF_WORD
                     [] StoreName[i.funct3] = "sw" -> LENGTH_WORD
    IN  /\ i.opcode = "0x23"
        /\ \/ i.funct3 \notin DOMAIN StoreName /\ Stop("exit -1")
           \/ /\ i.funct3 \in DOMAIN StoreName
              /\ InBounds(address, length)
              /\ Retire(R, PC + 4, store(address, length, R[i.rs2]))
           \/ /\ i.funct3 \in DOMAIN StoreName
              /\ ~InBounds(address, length)
              /\ Stop("undefined")

execute_jal(i) ==
    /\ i.opcode = "0x6F"
    /\ Retire([R EXCEPT ![i.rd] = Wrap(PC + 4)], PC + i.imm, memory)

execute_lui(i) ==
    /\ i.opcode = "0x37"
    /\ SetRd(i, Wrap(Shl(i.imm, immBits)))

-----------------------------------------------------------------------------
execute_instruction(i) ==
    \/ execute_rtype(i)
    \/ execute_itype_except_load(i)
    \/ execute_ecall(i)
    \/ execute_branch(i)
    \/ execute_jal(i)
    \/ execute_store(i)
    \/ execute_load(i)
    \/ execute_lui(i)

\* One call of execute_emu.  parse_instruction ends the process on an opcode it
\* does not know, the zero word behind a program among them.
execute_emu ==
    /\ status = "running"
    /\ \/ ~InBounds(PC, LENGTH_WORD) /\ Stop("undefined")
       \/ /\ InBounds(PC, LENGTH_WORD)
          /\ LET word == load(PC, LENGTH_WORD) IN
             \/ word \notin DOMAIN InstructionOf /\ Stop("EXIT_FAILURE")
             \/ /\ word \in DOMAIN InstructionOf
                /\ execute_instruction(InstructionOf[word])

=============================================================================
