----------------------------- MODULE Simulator ------------------------------
(***************************************************************************)
(* A run of the program with -s: the driver of module Riscv, which after   *)
(* the emulator, if that ran, calls cycle_pipeline of pipeline.c, loads    *)
(* FLUSH.input and calls it again until the pipeline is drained.           *)
(*                                                                         *)
(* pipeline.c does not compile at this commit.  What is modelled is what   *)
(* every repair of it that adds no statement does: the marker of line 212  *)
(* is dropped, statements that stop short are ended, and a member that is  *)
(* used but not declared is declared, so that it holds the zero its struct *)
(* starts with until it is assigned.  What stage_execute and gen_forward   *)
(* compute (module StageHelpers) is assigned to members and wires that no  *)
(* other statement reads, and stage_mem's load is of address 0; they are   *)
(* left out, and so is what is printed and counted for print.              *)
(***************************************************************************)
EXTENDS Riscv

CONSTANTS
    Flush,          \* the words of FLUSH.input
    Nop,            \* 0x00000013
    EcallBits,      \* 0x00000073
    Garbage         \* what instruction_bits may hold without an assignment

\* Memory, 1 MiB, is a part of what a word can address.
ASSUME PipelineAssumption ==
    /\ Flush \in Seq(Word)
    /\ Nop \in DOMAIN InstructionOf
    /\ EcallBits \in Word \ {0}
    /\ Garbage \subseteq Word
    /\ MemorySpace < Pow2[WordBits]

VARIABLES
    pc_src0,        \* the wire with the address of the next fetch
    latch,          \* the pipeline registers, their `out' sides
    ecall_exit

pipeline == <<pc_src0, latch, ecall_exit>>

simvars == <<vars, pipeline>>

\* A register of the pipeline as its stage begins it, {0}; one shape for all
\* four, with the members whose value can reach the state.
Zero == [instr |-> 0, instr_bits |-> 0, pc |-> 0, instr_addr |-> 0, write_rd |-> 0,
         alu_result |-> 0, read_opcode |-> "0x00", mem_to_reg |-> FALSE]

Stages == {"ifid", "idex", "exmem", "memwb"}

SimInit ==
    /\ Init
    /\ pc_src0 = 0
    /\ latch = [s \in Stages |-> Zero]
    /\ ecall_exit = FALSE

-----------------------------------------------------------------------------
(* The stages.  pcsrc and pc_src1 are never assigned: fetch is sequential. *)

stage_fetch(bits) ==
    [Zero EXCEPT !.instr = bits, !.instr_bits = bits, !.pc = pc_src0, !.instr_addr = pc_src0]

\* gen_control begins a new register and passes on four of the opcodes.  What
\* decode also finds, the registers to read, the one to write and the immediate,
\* stage_execute passes on to no other stage.
stage_decode(ifid) ==
    LET opcode == IF ifid.instr = 0 THEN "0x00" ELSE InstructionOf[ifid.instr].opcode IN
    [Zero EXCEPT !.instr_bits = ifid.instr_bits, !.pc = ifid.pc,
                 !.read_opcode = IF opcode \in {"0x33", "0x23", "0x13", "0x63"}
                                 THEN opcode ELSE "0x00"]

\* Neither the number of rd nor the instruction go on from here.
stage_execute(idex) ==
    [Zero EXCEPT !.instr_bits = idex.instr_bits, !.pc = idex.pc,
                 !.mem_to_reg = (idex.read_opcode = "0x03")]

stage_mem(exmem) ==
    [Zero EXCEPT !.instr_bits = exmem.instr_bits, !.pc = exmem.pc,
                 !.instr_addr = exmem.instr_addr, !.alu_result = exmem.alu_result,
                 !.write_rd = exmem.write_rd, !.mem_to_reg = exmem.mem_to_reg]

\* The registers after stage_writeback; nothing resets R[0] here.
stage_writeback(memwb) ==
    [R EXCEPT ![memwb.write_rd] = IF memwb.mem_to_reg THEN memwb.alu_result
                                                      ELSE memwb.instr_addr]

\* What the fetch reads; at the end of memory nothing assigns it.
Fetched(pc) == IF pc < MemorySpace - 3 THEN {load(pc, LENGTH_WORD)} ELSE Garbage

AsFetched(word) == IF word = 0 THEN Nop ELSE word

\* One call: each stage reads the register of the stage before it as the last
\* call left it.  parse_instruction ends the process inside the fetch.
cycle_pipeline ==
    /\ status = "running"
    /\ \E word \in Fetched(pc_src0) :
         LET bits == AsFetched(word) IN
         IF bits \notin DOMAIN InstructionOf
         THEN status' = "EXIT_FAILURE" /\ UNCHANGED <<R, pipeline>>
         ELSE /\ latch' = [ifid  |-> stage_fetch(bits),
                           idex  |-> stage_decode(latch["ifid"]),
                           exmem |-> stage_execute(latch["idex"]),
                           memwb |-> stage_mem(latch["exmem"])]
              /\ pc_src0' = Wrap(pc_src0 + 4)
              /\ R' = stage_writeback(latch["memwb"])
              /\ ecall_exit' = (ecall_exit \/ (latch'["memwb"].instr = EcallBits /\ R'[10] = 10))
              /\ UNCHANGED status
    /\ UNCHANGED <<PC, memory, file, opt, phase, programsize>>

-----------------------------------------------------------------------------
(* The driver.                                                             *)

bootstrap == pc_src0' = IF phase' = "emulate" THEN PC ELSE pc_src0

initialize == initialize_cpu /\ bootstrap /\ UNCHANGED <<latch, ecall_exit>>

\* simins still counts the calls of execute_emu.
start_simulator ==
    /\ phase = "emulate" /\ status = "running"
    /\ ~Continues /\ opt.sim
    /\ phase' = "simulate"
    /\ UNCHANGED <<R, PC, memory, status, file, opt, programsize, simins, pipeline>>

\* Fault: the loop without -e ends one cycle early.
Simulates_OneShort == IF opt.exit THEN ~ecall_exit ELSE simins + 1 < programsize

\* The conditions of the two simulator loops of main.
Simulates == IF opt.exit THEN ~ecall_exit ELSE simins < programsize

\* Fault: the loop without -e forgets to count.
CountedCycle_Never == simins

CountedCycle == IF opt.exit \/ status' # "running" THEN simins ELSE simins + 1

simulate ==
    /\ phase = "simulate"
    /\ Simulates
    /\ cycle_pipeline
    /\ simins' = CountedCycle

\* Fault: the count not reset before the pipeline is flushed.
FlushStart_KeepsCount == UNCHANGED simins

FlushStart == simins' = 0

begin_flush ==
    /\ phase = "simulate" /\ status = "running"
    /\ ~Simulates
    /\ phase' = "load_flush"
    /\ FlushStart
    /\ programsize' = 0
    /\ UNCHANGED <<R, PC, memory, status, file, opt, pipeline>>

\* Fault: the flush loaded where the first load_program went.
FlushAddress_Program == PC + LENGTH_WORD * programsize

FlushAddress == pc_src0 + LENGTH_WORD * programsize

\* One turn of the loop of load_program, the second time it is called.
load_flush_line ==
    /\ phase = "load_flush" /\ status = "running"
    /\ opt.flush
    /\ programsize < Len(Flush)
    /\ IF FlushAddress + 3 \in Addresses
       THEN /\ memory' = StoredLine(FlushAddress, Flush[programsize + 1])
            /\ programsize' = programsize + 1
            /\ UNCHANGED status
       ELSE status' = "undefined" /\ UNCHANGED <<memory, programsize>>
    /\ UNCHANGED <<R, PC, file, opt, phase, simins, pipeline>>

\* FLUSH.input is named relative to the directory the program is started in.
load_missing_flush ==
    /\ phase = "load_flush" /\ status = "running"
    /\ ~opt.flush
    /\ status' = "undefined"
    /\ UNCHANGED <<R, PC, memory, file, opt, phase, programsize, simins, pipeline>>

flush_loaded ==
    /\ phase = "load_flush" /\ status = "running"
    /\ opt.flush
    /\ programsize = Len(Flush)
    /\ phase' = "flush"
    /\ UNCHANGED <<R, PC, memory, status, file, opt, programsize, simins, pipeline>>

\* Fault: a loop that runs one cycle too many.
Flushes_OneMore == simins <= programsize

Flushes == simins < programsize

flush ==
    /\ phase = "flush"
    /\ Flushes
    /\ cycle_pipeline
    /\ simins' = IF status' # "running" THEN simins ELSE simins + 1

finish ==
    /\ phase = "flush" /\ status = "running"
    /\ ~Flushes
    /\ DumpAndReturn
    /\ UNCHANGED <<R, PC, memory, file, opt, phase, programsize, simins, pipeline>>

SimNext ==
    \/ (load_line \/ load_missing_file \/ emulate \/ return \/ ended) /\ UNCHANGED pipeline
    \/ initialize
    \/ start_simulator \/ simulate
    \/ begin_flush \/ load_flush_line \/ load_missing_flush \/ flush_loaded
    \/ flush \/ finish

SimSpec == SimInit /\ [][SimNext]_simvars

\* As FairSpec of module Riscv.
FairSimSpec == SimSpec /\ WF_simvars(SimNext)

-----------------------------------------------------------------------------
(* Properties.                                                             *)

Latches == [instr : Word, instr_bits : Word, pc : Word, instr_addr : Word, write_rd : Regs,
            alu_result : Word, read_opcode : {"0x00", "0x33", "0x23", "0x13", "0x63"},
            mem_to_reg : BOOLEAN]

\* Registers are words and R[0] is zero, though stage_writeback writes a register
\* in every cycle; no loop runs more often than the file last loaded has lines.
SimTypeOK ==
    /\ R \in [Regs -> Word] /\ R[0] = 0
    /\ PC \in Word /\ pc_src0 \in Word
    /\ memory \in [Addresses -> Byte]
    /\ status \in Statuses \cup {"returned"}
    /\ file \in Seq(Word) /\ opt \in Options
    /\ phase \in {"load", "emulate", "simulate", "load_flush", "flush"}
    /\ programsize \in 0 .. Len(IF phase \in {"load_flush", "flush"} THEN Flush ELSE file)
    /\ simins \in 0 .. programsize
    /\ \A s \in Stages : latch[s] \in Latches
    /\ ecall_exit \in BOOLEAN

\* How many cycles after its fetch an instruction is in the register.
Depth == [ifid |-> 0, idex |-> 1, exmem |-> 2, memwb |-> 3]

\* Without -e the pipeline registers hold, one behind the other, the last lines
\* fetched, each beside its address, and the lines fetched are those of the file
\* and then those of FLUSH.input: no line is lost or comes twice where main goes
\* from one loop to the next.  After -m, whose count main does not reset, they
\* are those of FLUSH.input alone: the program is not simulated (riscv.c:224).
StagesHoldLines ==
    phase \in {"simulate", "load_flush", "flush"} /\ ~opt.exit =>
        LET lines   == IF opt.mulator THEN Flush ELSE file \o Flush
            fetched == (pc_src0 - StartAddress) \div LENGTH_WORD
            Held(n) == IF n < 1 THEN <<0, 0>>
                       ELSE <<AsFetched(lines[n]), StartAddress + LENGTH_WORD * (n - 1)>>
        IN  \A s \in Stages :
                <<latch[s].instr_bits, latch[s].pc>> = Held(fetched - Depth[s])

\* When main returns, the flush has pushed every line of the file out of the
\* pipeline (riscv.c:229-236).
FlushDrains ==
    status = "returned" /\ phase = "flush" /\ ~opt.mulator
        => latch["memwb"].pc >= StartAddress + LENGTH_WORD * Len(file)

\* Without -e no fetch is at the end of memory, where stage_fetch would test bits
\* that it never assigned (pipeline.c:52-59).
NoFetchPastMemory == ~opt.exit => \A s \in Stages : latch[s].pc <= MemorySpace - LENGTH_WORD

\* The flush is loaded behind the program, not over it, as long as -m does not
\* keep the simulator from fetching it (riscv.c:231).
FlushSparesProgram ==
    phase \in {"load_flush", "flush"} /\ ~opt.mulator =>
        \A k \in 1 .. Len(file) :
            load(StartAddress + LENGTH_WORD * (k - 1), LENGTH_WORD) = file[k]

\* The instruction addi rd, x0, imm.
SetsConstant(i) == i.opcode = "0x13" /\ i.funct3 = 0 /\ i.rs1 = 0

Constant(i) == Wrap(sign_extend_number(i.imm, immBits))

\* pipeline.c:301-321, with -e: a line that writes 10 to x10 and an ecall behind
\* it end the simulation in the cycle in which the ecall gets to memwb.
EcallEndsSimulation ==
    phase = "simulate" /\ status = "running" /\ opt.exit /\ ~opt.mulator =>
        \A k \in 2 .. Len(file) :
            LET before == InstructionOf[file[k - 1]] IN
            /\ SetsConstant(before) /\ before.rd = 10 /\ Constant(before) = 10
            /\ file[k] = EcallBits
            /\ latch["memwb"].pc = StartAddress + LENGTH_WORD * (k - 1)
            => ecall_exit

\* When the simulator has run a straight-line program, the register that a line
\* set last, to a constant, holds it.  test_simulator_ms1.sh:8-10 compares a run
\* with -s to code/ms1/ref/I/I.trace, where r7 is fffffef1 (line 153) once addi
\* x7, x10, -271 is at write-back (line 151), x10 being zero.
ConstantsReachRegisters ==
    status = "returned" /\ phase = "flush" /\ ~opt.mulator =>
        LET line == [k \in 1 .. Len(file) |-> InstructionOf[file[k]]] IN
        (\A k \in DOMAIN line : line[k].opcode = "0x13") =>
            \A k \in DOMAIN line :
                /\ SetsConstant(line[k]) /\ line[k].rd # 0
                /\ \A n \in k + 1 .. Len(file) : line[n].rd # line[k].rd
                => R[line[k].rd] = Constant(line[k])

=============================================================================
