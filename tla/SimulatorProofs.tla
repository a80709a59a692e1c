-------------------------- MODULE SimulatorProofs ---------------------------
(***************************************************************************)
(* Theorems about module Simulator, for every program, every FLUSH.input,  *)
(* every width and memory, and whatever an unassigned word holds.          *)
(***************************************************************************)
EXTENDS Simulator, RiscvProofs

\* The registers are all there and x0 is zero.
Registers == R = [r \in Regs |-> R[r]] /\ R[0] = 0

\* What would name a register, or a value for it, is zero from EXMEM on.
NothingToWrite ==
    \A s \in {"exmem", "memwb"} :
        latch[s].write_rd = 0 /\ latch[s].instr_addr = 0 /\ latch[s].alu_result = 0

\* No instruction gets to MEMWB, so that no ecall is seen there.
NoEcall == latch["memwb"].instr = 0 /\ ecall_exit = FALSE

\* With -e the loop of the simulator is not left.
Endless ==
    /\ opt.exit => phase \notin {"load_flush", "flush"}
    /\ opt.sim /\ opt.exit /\ ~opt.disasm => status # "returned"

DeadEnd == Registers /\ NothingToWrite /\ NoEcall /\ Endless

-----------------------------------------------------------------------------
LEMMA ZeroIsRegister == 0 \in Regs /\ EcallBits # 0
BY MachineAssumption, PipelineAssumption

(* An instruction that retires writes registers that are there, then x0.   *)
LEMMA RetireKeepsRegisters ==
  ASSUME NEW regs, NEW pc, NEW mem, regs = [r \in Regs |-> regs[r]], Retire(regs, pc, mem)
  PROVE  Registers' /\ status' = status
BY ZeroIsRegister DEF Registers, Retire

LEMMA SetRdKeepsRegisters ==
  ASSUME Registers, NEW i, NEW value, SetRd(i, value)
  PROVE  Registers' /\ status' = status
<1> DEFINE regs == [R EXCEPT ![i.rd] = value]
<1>1. regs = [r \in Regs |-> regs[r]]
  BY DEF Registers
<1>2. Retire(regs, PC + 4, memory)
  BY DEF SetRd
<1> HIDE DEF regs
<1> QED BY <1>1, <1>2, RetireKeepsRegisters

LEMMA StopKeepsRegisters ==
  ASSUME Registers, NEW how \in Statuses, Stop(how)
  PROVE  Registers' /\ status' # "returned"
BY DEF Registers, Stop, Statuses

(* No call of execute_emu touches more than that, nor makes main return.   *)
LEMMA EmulatorKeepsRegisters ==
  ASSUME Registers, execute_emu
  PROVE  Registers' /\ status' # "returned"
<1>1. status = "running" /\ R = [r \in Regs |-> R[r]]
  BY DEF execute_emu, Registers
<1>2. ASSUME NEW i, NEW value, SetRd(i, value) PROVE Registers' /\ status' # "returned"
  BY <1>1, <1>2, SetRdKeepsRegisters
<1>3. ASSUME NEW pc, NEW mem, Retire(R, pc, mem) PROVE Registers' /\ status' # "returned"
  BY <1>1, <1>3, RetireKeepsRegisters
<1>4. ASSUME NEW how \in Statuses, Stop(how) PROVE Registers' /\ status' # "returned"
  BY <1>4, StopKeepsRegisters
<1>5. {"exit 0", "exit -1", "EXIT_FAILURE", "SIGFPE", "undefined"} \subseteq Statuses
  BY DEF Statuses
<1>6. ASSUME NEW i, execute_instruction(i) PROVE Registers' /\ status' # "returned"
  <2>1. CASE execute_rtype(i)
    BY <1>2, <1>4, <1>5, <2>1 DEF execute_rtype
  <2>2. CASE execute_itype_except_load(i)
    BY <1>2, <1>4, <1>5, <2>2 DEF execute_itype_except_load
  <2>3. CASE execute_ecall(i)
    BY <1>3, <1>4, <1>5, <2>3 DEF execute_ecall
  <2>4. CASE execute_branch(i)
    BY <1>3, <1>4, <1>5, <2>4 DEF execute_branch
  <2>5. CASE execute_jal(i)
    <3> DEFINE regs == [R EXCEPT ![i.rd] = Wrap(PC + 4)]
    <3>1. regs = [r \in Regs |-> regs[r]]
      BY <1>1
    <3>2. Retire(regs, PC + i.imm, memory)
      BY <2>5 DEF execute_jal
    <3> HIDE DEF regs
    <3> QED BY <1>1, <3>1, <3>2, RetireKeepsRegisters
  <2>6. CASE execute_store(i)
    BY <1>3, <1>4, <1>5, <2>6 DEF execute_store
  <2>7. CASE execute_load(i)
    BY <1>2, <1>3, <1>4, <1>5, <2>7 DEF execute_load
  <2>8. CASE execute_lui(i)
    BY <1>2, <2>8 DEF execute_lui
  <2> QED BY <1>6, <2>1, <2>2, <2>3, <2>4, <2>5, <2>6, <2>7, <2>8 DEF execute_instruction
<1> QED BY <1>4, <1>5, <1>6 DEF execute_emu

-----------------------------------------------------------------------------
(* A cycle writes 0 to R[0], which is there already, and leaves the dead   *)
(* members of the registers dead.                                          *)
LEMMA CycleKeepsDeadEnd ==
  ASSUME DeadEnd, cycle_pipeline
  PROVE  /\ R' = R /\ Registers' /\ NothingToWrite' /\ NoEcall'
         /\ status' # "returned" /\ UNCHANGED <<opt, phase>>
<1>1. status = "running" /\ UNCHANGED <<opt, phase>>
  BY DEF cycle_pipeline
<1>2. PICK word \in Fetched(pc_src0) :
        \/ status' = "EXIT_FAILURE" /\ UNCHANGED <<R, pipeline>>
        \/ /\ latch' = [ifid  |-> stage_fetch(AsFetched(word)),
                        idex  |-> stage_decode(latch["ifid"]),
                        exmem |-> stage_execute(latch["idex"]),
                        memwb |-> stage_mem(latch["exmem"])]
           /\ R' = stage_writeback(latch["memwb"])
           /\ ecall_exit' = (ecall_exit \/ (latch'["memwb"].instr = EcallBits /\ R'[10] = 10))
           /\ UNCHANGED status
  BY Zenon DEF cycle_pipeline
<1>3. CASE status' = "EXIT_FAILURE" /\ UNCHANGED <<R, pipeline>>
  BY <1>1, <1>3 DEF DeadEnd, Registers, NothingToWrite, NoEcall, pipeline
<1>4. CASE /\ latch' = [ifid  |-> stage_fetch(AsFetched(word)),
                        idex  |-> stage_decode(latch["ifid"]),
                        exmem |-> stage_execute(latch["idex"]),
                        memwb |-> stage_mem(latch["exmem"])]
           /\ R' = stage_writeback(latch["memwb"])
           /\ ecall_exit' = (ecall_exit \/ (latch'["memwb"].instr = EcallBits /\ R'[10] = 10))
           /\ UNCHANGED status
  <2>1. latch'["exmem"] = stage_execute(latch["idex"]) /\ latch'["memwb"] = stage_mem(latch["exmem"])
    BY <1>4
  <2>2. NothingToWrite'
    <3>1. /\ latch'["exmem"].write_rd = 0 /\ latch'["exmem"].instr_addr = 0
          /\ latch'["exmem"].alu_result = 0
      BY <2>1, Zenon DEF stage_execute, Zero
    <3>2. /\ latch'["memwb"].write_rd = latch["exmem"].write_rd
          /\ latch'["memwb"].instr_addr = latch["exmem"].instr_addr
          /\ latch'["memwb"].alu_result = latch["exmem"].alu_result
      BY <2>1, Zenon DEF stage_mem, Zero
    <3> QED BY <3>1, <3>2 DEF DeadEnd, NothingToWrite
  <2>3. latch'["memwb"].instr = 0
    BY <2>1 DEF stage_mem, Zero
  <2>4. NoEcall'
    BY <1>4, <2>3, ZeroIsRegister DEF DeadEnd, NoEcall
  <2>5. stage_writeback(latch["memwb"]) = [R EXCEPT ![0] = 0]
    BY DEF DeadEnd, NothingToWrite, stage_writeback
  <2>6. R' = R
    BY <1>4, <2>5, ZeroIsRegister DEF DeadEnd, Registers
  <2> QED BY <1>1, <1>4, <2>2, <2>4, <2>6 DEF DeadEnd, Registers
<1> QED BY <1>2, <1>3, <1>4

LEMMA StartsDeadEnd == SimInit => DeadEnd
BY ZeroIsRegister
   DEF SimInit, Init, DeadEnd, Registers, NothingToWrite, NoEcall, Endless, Stages, Zero

LEMMA StepKeepsDeadEnd ==
  ASSUME DeadEnd, [SimNext]_simvars
  PROVE  DeadEnd'
<1> USE DEF DeadEnd
<1>1. CASE (load_line \/ load_missing_file \/ ended) /\ UNCHANGED pipeline
  BY <1>1 DEF load_line, load_missing_file, ended, vars, pipeline, Registers, NothingToWrite,
     NoEcall, Endless
<1>2. CASE emulate /\ UNCHANGED pipeline
  <2>1. Registers' /\ status' # "returned"
    BY <1>2, EmulatorKeepsRegisters DEF emulate
  <2> QED BY <1>2, <2>1 DEF emulate, pipeline, NothingToWrite, NoEcall, Endless
<1>3. CASE return /\ UNCHANGED pipeline
  BY <1>3 DEF return, pipeline, Registers, NothingToWrite, NoEcall, Endless
<1>4. CASE initialize
  <2>1. Registers'
    BY <1>4, ZeroIsRegister DEF initialize, initialize_cpu, Registers
  <2>2. Endless'
    BY <1>4 DEF initialize, initialize_cpu, Endless
  <2> QED BY <1>4, <2>1, <2>2 DEF initialize, NothingToWrite, NoEcall
<1>5. CASE start_simulator \/ load_flush_line \/ load_missing_flush \/ flush_loaded
  BY <1>5 DEF start_simulator, load_flush_line, load_missing_flush, flush_loaded, pipeline,
     Registers, NothingToWrite, NoEcall, Endless
<1>6. CASE simulate \/ flush
  <2>1. cycle_pipeline
    BY <1>6 DEF simulate, flush
  <2> QED BY <2>1, CycleKeepsDeadEnd DEF Endless
<1>7. CASE begin_flush
  <2>1. ~opt.exit
    BY <1>7 DEF begin_flush, Simulates, NoEcall
  <2> QED BY <1>7, <2>1 DEF begin_flush, pipeline, Registers, NothingToWrite, NoEcall, Endless
<1>8. CASE finish
  BY <1>8 DEF finish, pipeline, Registers, NothingToWrite, NoEcall, Endless
<1>9. CASE UNCHANGED simvars
  BY <1>9 DEF simvars, vars, pipeline, Registers, NothingToWrite, NoEcall, Endless
<1> QED BY <1>1, <1>2, <1>3, <1>4, <1>5, <1>6, <1>7, <1>8, <1>9 DEF SimNext

(* The pipeline of this commit is a dead end.                              *)
THEOREM PipelineDeadEnd == SimSpec => []DeadEnd
BY StartsDeadEnd, StepKeepsDeadEnd, PTL DEF SimSpec

(* Where EcallEndsSimulation fails, it fails for every program: with -e the *)
(* simulator never returns, as the instruction of an ecall does not reach   *)
(* the register in which cycle_pipeline looks for it (pipeline.c:318).      *)
THEOREM ExitNeverReturns ==
  SimSpec => [](opt.sim /\ opt.exit /\ ~opt.disasm => status # "returned")
<1>1. DeadEnd => (opt.sim /\ opt.exit /\ ~opt.disasm => status # "returned")
  BY DEF DeadEnd, Endless
<1> QED BY <1>1, PipelineDeadEnd, PTL

(* Where ConstantsReachRegisters fails, it fails for every program: what    *)
(* the ALU computes, and where it should go, never get as far as            *)
(* stage_writeback, and no cycle changes a register (pipeline.c:248).       *)
THEOREM SimulatorKeepsRegisters ==
  SimSpec => [][(phase \in {"simulate", "flush"}) => UNCHANGED R]_simvars
<1>1. ASSUME DeadEnd, [SimNext]_simvars, phase \in {"simulate", "flush"}
      PROVE  R' = R
  <2>1. CASE cycle_pipeline
    BY <1>1, <2>1, CycleKeepsDeadEnd
  <2>2. CASE begin_flush \/ finish \/ ended
    BY <2>2 DEF begin_flush, finish, ended, vars
  <2>3. CASE UNCHANGED simvars
    BY <2>3 DEF simvars, vars
  <2>4. SimNext => cycle_pipeline \/ begin_flush \/ finish \/ ended
    BY <1>1 DEF SimNext, load_line, load_missing_file, emulate, return, initialize,
       initialize_cpu, start_simulator, simulate, load_flush_line, load_missing_flush,
       flush_loaded, flush
  <2> QED BY <1>1, <2>1, <2>2, <2>3, <2>4
<1>2. ASSUME DeadEnd, [SimNext]_simvars
      PROVE  [(phase \in {"simulate", "flush"}) => UNCHANGED R]_simvars
  BY <1>1, <1>2
<1> QED BY <1>2, PipelineDeadEnd, PTL DEF SimSpec

-----------------------------------------------------------------------------
(***************************************************************************)
(* Types: what every step leaves in the registers, the memory and the      *)
(* registers of the pipeline.                                              *)
(***************************************************************************)
LEMMA ZeroIsLatch == Zero \in Latches
BY ZeroIsRegister, WordWidth DEF Zero, Latches

LEMMA StagesKeepLatches ==
  ASSUME NEW bits \in Word, pc_src0 \in Word, \A s \in Stages : latch[s] \in Latches
  PROVE  /\ stage_fetch(bits) \in Latches
         /\ stage_decode(latch["ifid"]) \in Latches
         /\ stage_execute(latch["idex"]) \in Latches
         /\ stage_mem(latch["exmem"]) \in Latches
<1>1. stage_fetch(bits) \in Latches
  BY ZeroIsLatch DEF stage_fetch, Latches
<1>2. stage_decode(latch["ifid"]) \in Latches
  <2>1. latch["ifid"] \in Latches
    BY DEF Stages
  <2> DEFINE opcode == IF latch["ifid"].instr = 0 THEN "0x00"
                       ELSE InstructionOf[latch["ifid"].instr].opcode
             shown == IF opcode \in {"0x33", "0x23", "0x13", "0x63"} THEN opcode ELSE "0x00"
  <2>2. stage_decode(latch["ifid"]) =
          [Zero EXCEPT !.instr_bits = latch["ifid"].instr_bits, !.pc = latch["ifid"].pc,
                       !.read_opcode = shown]
    BY DEF stage_decode
  <2>3. shown \in {"0x00", "0x33", "0x23", "0x13", "0x63"}
    <3> HIDE DEF opcode
    <3> QED OBVIOUS
  <2> HIDE DEF shown
  <2> QED BY <2>1, <2>2, <2>3, ZeroIsLatch DEF Latches
<1>3. stage_execute(latch["idex"]) \in Latches
  <2>1. latch["idex"] \in Latches
    BY DEF Stages
  <2> QED BY <2>1, ZeroIsLatch DEF stage_execute, Latches
<1>4. stage_mem(latch["exmem"]) \in Latches
  <2>1. latch["exmem"] \in Latches
    BY DEF Stages
  <2> QED BY <2>1, ZeroIsLatch DEF stage_mem, Latches
<1> QED BY <1>1, <1>2, <1>3, <1>4

LEMMA CycleKeepsTypes ==
  ASSUME SimTypeOK, DeadEnd, cycle_pipeline
  PROVE  /\ MachineOK' /\ status' # "returned"
         /\ pc_src0' \in Word /\ ecall_exit' \in BOOLEAN
         /\ \A s \in Stages : latch'[s] \in Latches
         /\ UNCHANGED <<file, opt, phase, programsize>>
<1>1. /\ R' = R /\ status' # "returned"
      /\ UNCHANGED <<PC, memory, file, opt, phase, programsize>>
  BY CycleKeepsDeadEnd DEF cycle_pipeline
<1>2. PICK word \in Fetched(pc_src0) :
        LET bits == AsFetched(word) IN
        IF bits \notin DOMAIN InstructionOf
        THEN status' = "EXIT_FAILURE" /\ UNCHANGED <<R, pipeline>>
        ELSE /\ latch' = [ifid  |-> stage_fetch(bits),
                          idex  |-> stage_decode(latch["ifid"]),
                          exmem |-> stage_execute(latch["idex"]),
                          memwb |-> stage_mem(latch["exmem"])]
             /\ pc_src0' = Wrap(pc_src0 + 4)
             /\ R' = stage_writeback(latch["memwb"])
             /\ ecall_exit' = (ecall_exit \/ (latch'["memwb"].instr = EcallBits /\ R'[10] = 10))
             /\ UNCHANGED status
  BY DEF cycle_pipeline
<1> DEFINE bits == AsFetched(word)
<1>3. MachineOK'
  BY <1>1, <1>2 DEF SimTypeOK, MachineOK, Statuses
<1>4. CASE bits \notin DOMAIN InstructionOf
  BY <1>1, <1>2, <1>3, <1>4 DEF pipeline, SimTypeOK
<1>5. CASE bits \in DOMAIN InstructionOf
  <2>1. bits \in Word
    BY <1>5, MachineAssumption
  <2> HIDE DEF bits
  <2>2. latch' = [ifid  |-> stage_fetch(bits),
                  idex  |-> stage_decode(latch["ifid"]),
                  exmem |-> stage_execute(latch["idex"]),
                  memwb |-> stage_mem(latch["exmem"])]
        /\ pc_src0' = Wrap(pc_src0 + 4)
        /\ ecall_exit' = (ecall_exit \/ (latch'["memwb"].instr = EcallBits /\ R'[10] = 10))
    BY <1>2, <1>5 DEF bits
  <2>3. \A s \in Stages : latch'[s] \in Latches
    BY <2>1, <2>2, StagesKeepLatches DEF SimTypeOK, Stages
  <2>4. pc_src0' \in Word
    <3>1. pc_src0 + 4 \in Int
      BY WordWidth DEF SimTypeOK, Word
    <3> QED BY <2>2, <3>1, WrapType
  <2>5. ecall_exit' \in BOOLEAN
    BY <2>2 DEF SimTypeOK
  <2> QED BY <1>1, <1>3, <2>3, <2>4, <2>5
<1> QED BY <1>4, <1>5

LEMMA SimTypeInit == SimInit => SimTypeOK
<1> SUFFICES ASSUME SimInit PROVE SimTypeOK
  OBVIOUS
<1>1. TypeOK
  BY TypeInit DEF SimInit
<1>2. programsize = 0 /\ simins = 0 /\ phase = "load"
  BY DEF SimInit, Init
<1>3. \A s \in Stages : latch[s] \in Latches
  BY ZeroIsLatch DEF SimInit
<1>4. programsize \in 0 .. Len(file) /\ simins \in 0 .. programsize
  BY <1>1, <1>2 DEF TypeOK
<1>5. pc_src0 \in Word /\ ecall_exit \in BOOLEAN
  BY WordWidth DEF SimInit
<1> QED BY <1>1, <1>2, <1>3, <1>4, <1>5 DEF TypeOK, SimTypeOK

LEMMA SimTypeNext == SimTypeOK /\ DeadEnd /\ [SimNext]_simvars => SimTypeOK'
<1> SUFFICES ASSUME SimTypeOK, DeadEnd, [SimNext]_simvars PROVE SimTypeOK'
  OBVIOUS
<1> DEFINE lines == IF phase \in {"load_flush", "flush"} THEN Flush ELSE file
<1>1. /\ MachineOK /\ programsize \in Nat /\ simins \in Nat
      /\ programsize \in 0 .. Len(lines) /\ simins \in 0 .. programsize
      /\ Len(file) \in Nat /\ Len(Flush) \in Nat /\ pc_src0 \in Int
  <2>1. MachineOK /\ file \in Seq(Word) /\ Flush \in Seq(Word) /\ pc_src0 \in Word
        /\ programsize \in 0 .. Len(lines) /\ simins \in 0 .. programsize
    BY PipelineAssumption DEF SimTypeOK, MachineOK
  <2>2. Len(file) \in Nat /\ Len(Flush) \in Nat /\ Len(lines) \in Nat
    BY <2>1
  <2>3. pc_src0 \in Int
    BY <2>1, WordWidth DEF Word
  <2> QED BY <2>1, <2>2, <2>3
<1>2. ASSUME MachineOK', UNCHANGED <<file, opt, phase>>,
             programsize' \in 0 .. Len(lines), simins' \in 0 .. programsize',
             pc_src0' \in Word, ecall_exit' \in BOOLEAN,
             \A s \in Stages : latch'[s] \in Latches
      PROVE  SimTypeOK'
  BY <1>2 DEF SimTypeOK, MachineOK
<1>3. CASE load_line /\ UNCHANGED pipeline
  <2>1. MachineOK'
    BY <1>1, <1>3, LoadLineKeepsMachine DEF SimTypeOK
  <2>2. programsize' \in 0 .. Len(lines) /\ simins' \in 0 .. programsize'
    BY <1>1, <1>3 DEF load_line
  <2> QED BY <1>2, <1>3, <2>1, <2>2 DEF load_line, pipeline, SimTypeOK
<1>4. CASE load_missing_file /\ UNCHANGED pipeline
  BY <1>4 DEF load_missing_file, pipeline, SimTypeOK, Statuses
<1>5. CASE emulate /\ UNCHANGED pipeline
  <2>1. MachineOK'
    BY <1>1, <1>5, EmulatorKeepsMachine DEF emulate
  <2>2. simins' \in 0 .. programsize'
    BY <1>1, <1>5 DEF emulate, Continues, Counted
  <2> QED BY <1>2, <1>5, <2>1, <2>2 DEF emulate, pipeline, SimTypeOK
<1>6. CASE return /\ UNCHANGED pipeline
  BY <1>6 DEF return, DumpAndReturn, pipeline, SimTypeOK, Statuses
<1>7. CASE initialize
  <2>1. MachineOK'
    BY <1>1, <1>7, InitializeKeepsMachine DEF initialize
  <2> QED BY <1>7, <2>1 DEF initialize, initialize_cpu, bootstrap, SimTypeOK, MachineOK
<1>8. CASE start_simulator
  BY <1>8 DEF start_simulator, pipeline, SimTypeOK
<1>9. CASE simulate \/ flush
  <2>1. cycle_pipeline /\ simins' \in 0 .. programsize
    BY <1>1, <1>9 DEF simulate, flush, Simulates, Flushes, CountedCycle
  <2> QED BY <1>1, <1>2, <2>1, CycleKeepsTypes
<1>10. CASE begin_flush
  BY <1>1, <1>10 DEF begin_flush, FlushStart, pipeline, SimTypeOK
<1>11. CASE load_flush_line
  <2>1. Flush[programsize + 1] \in Word /\ FlushAddress \in Int
    BY <1>1, <1>11, PipelineAssumption DEF load_flush_line, FlushAddress, LENGTH_WORD
  <2>2. memory' \in [Addresses -> Byte]
    BY <1>1, <1>11, <2>1, StoredLineIsMemory DEF load_flush_line, MachineOK
  <2>3. programsize' \in 0 .. Len(lines) /\ simins' \in 0 .. programsize'
    BY <1>1, <1>11 DEF load_flush_line
  <2>4. MachineOK'
    BY <1>1, <1>11, <2>2 DEF load_flush_line, MachineOK, Statuses
  <2> QED BY <1>2, <1>11, <2>3, <2>4 DEF load_flush_line, pipeline, SimTypeOK
<1>12. CASE load_missing_flush
  BY <1>12 DEF load_missing_flush, pipeline, SimTypeOK, Statuses
<1>13. CASE flush_loaded
  BY <1>13 DEF flush_loaded, pipeline, SimTypeOK
<1>14. CASE finish
  BY <1>14 DEF finish, DumpAndReturn, pipeline, SimTypeOK, Statuses
<1>15. CASE (ended /\ UNCHANGED pipeline) \/ UNCHANGED simvars
  BY <1>15 DEF ended, simvars, vars, pipeline, SimTypeOK
<1> QED BY <1>3, <1>4, <1>5, <1>6, <1>7, <1>8, <1>9, <1>10, <1>11, <1>12, <1>13, <1>14, <1>15
        DEF SimNext

(* Registers stay words and x0 zero although stage_writeback writes a         *)
(* register in every cycle, and no loop of main runs more often than the file *)
(* last loaded has lines (riscv.c:203, riscv.c:224, riscv.c:233).             *)
THEOREM SimTypeOKHolds == SimSpec => []SimTypeOK
BY SimTypeInit, SimTypeNext, PipelineDeadEnd, PTL DEF SimSpec

-----------------------------------------------------------------------------
(***************************************************************************)
(* The way of the lines through memory and pipeline, without -e.  The      *)
(* lines the simulator fetches are those of the file and of FLUSH.input,   *)
(* one behind the other, or, after -m, those of FLUSH.input alone; main    *)
(* uses programsize and simins anew for FLUSH.input.                       *)
(***************************************************************************)
FetchLines == IF opt.mulator THEN Flush ELSE file \o Flush

\* The lines before those of FLUSH.input, and the ones of a count in all.
Skipped == IF opt.mulator THEN 0 ELSE Len(file)

InAll(count) == IF phase \in {"load_flush", "flush"} THEN Skipped + count
                ELSE IF opt.mulator THEN 0 ELSE count

InPlace == InAll(programsize)
Fetches == InAll(simins)

AddressOf(n) == StartAddress + 4 * (n - 1)

\* What a register of the pipeline shows of line n.
Shown(n) == IF n < 1 THEN <<0, 0>> ELSE <<AsFetched(FetchLines[n]), AddressOf(n)>>

LinesInMemory ==
    /\ StartAddress + 4 * InPlace <= MemorySpace
    /\ \A k \in 1 .. InPlace : \A j \in 0 .. 3 :
          memory[AddressOf(k) + j] = ByteOf(FetchLines[k], j)

\* What one loop of main leaves for the next.
Handover ==
    /\ phase = "load" => PC = StartAddress
    /\ phase \in {"emulate", "simulate"} => programsize = Len(file)
    /\ phase = "flush" => programsize = Len(Flush)
    /\ phase \in {"load", "emulate"} /\ ~opt.mulator => simins = 0
    /\ phase = "load_flush" => simins = 0
    /\ phase = "simulate" /\ opt.mulator => simins >= programsize
    /\ phase = "flush" /\ status = "returned" => simins >= programsize

InOrder ==
    /\ phase # "load" => pc_src0 = StartAddress + 4 * Fetches
    /\ \A s \in Stages :
          <<latch[s].instr_bits, latch[s].pc>> = Shown(Fetches - Depth[s])

FlowInv == ~opt.exit => LinesInMemory /\ Handover /\ InOrder

-----------------------------------------------------------------------------
LEMMA FlowTypes ==
  ASSUME SimTypeOK
  PROVE  /\ FetchLines \in Seq(Word) /\ Len(FetchLines) = Skipped + Len(Flush)
         /\ Len(file) \in Nat /\ Len(Flush) \in Nat /\ Skipped \in Nat
         /\ programsize \in Nat /\ simins \in Nat /\ simins <= programsize
         /\ InPlace \in 0 .. Len(FetchLines) /\ Fetches \in 0 .. InPlace
         /\ \A k \in 1 .. Len(Flush) : FetchLines[Skipped + k] = Flush[k]
         /\ ~opt.mulator => \A k \in 1 .. Len(file) : FetchLines[k] = file[k]
         /\ StartAddress \in Nat /\ MemorySpace \in Nat
<1>1. file \in Seq(Word) /\ Flush \in Seq(Word) /\ Len(file) \in Nat /\ Len(Flush) \in Nat
  BY PipelineAssumption DEF SimTypeOK
<1>2. /\ FetchLines \in Seq(Word) /\ Len(FetchLines) = Skipped + Len(Flush)
      /\ \A k \in 1 .. Len(Flush) : FetchLines[Skipped + k] = Flush[k]
      /\ ~opt.mulator => \A k \in 1 .. Len(file) : FetchLines[k] = file[k]
      /\ Skipped \in Nat
  <2>1. CASE opt.mulator
    BY <1>1, <2>1 DEF FetchLines, Skipped
  <2>2. CASE ~opt.mulator
    <3>1. FetchLines = file \o Flush /\ Skipped = Len(file)
      BY <2>2 DEF FetchLines, Skipped
    <3> QED BY <1>1, <3>1
  <2> QED BY <2>1, <2>2
<1>3. /\ programsize \in 0 .. Len(IF phase \in {"load_flush", "flush"} THEN Flush ELSE file)
      /\ simins \in 0 .. programsize
  BY DEF SimTypeOK
<1>4. programsize \in Nat /\ simins \in Nat /\ simins <= programsize
  BY <1>1, <1>3
<1>5. InPlace \in 0 .. Len(FetchLines) /\ Fetches \in 0 .. InPlace
  <2>1. CASE phase \in {"load_flush", "flush"}
    BY <1>1, <1>2, <1>3, <2>1 DEF InPlace, Fetches, InAll
  <2>2. CASE phase \notin {"load_flush", "flush"} /\ opt.mulator
    BY <1>1, <1>2, <2>2 DEF InPlace, Fetches, InAll
  <2>3. CASE phase \notin {"load_flush", "flush"} /\ ~opt.mulator
    BY <1>1, <1>2, <1>3, <2>3 DEF InPlace, Fetches, InAll, Skipped
  <2> QED BY <2>1, <2>2, <2>3
<1>6. StartAddress \in Nat /\ MemorySpace \in Nat
  BY DriverAssumption, MachineAssumption DEF Addresses
<1> QED BY <1>1, <1>2, <1>4, <1>5, <1>6

(* The registers of the pipeline are empty at the start.                   *)
LEMMA FlowInit == SimInit => FlowInv
<1> SUFFICES ASSUME SimInit, ~opt.exit PROVE LinesInMemory /\ Handover /\ InOrder
  BY DEF FlowInv
<1>1. phase = "load" /\ programsize = 0 /\ simins = 0 /\ PC = StartAddress
      /\ status = "running"
  BY DEF SimInit, Init
<1>2. InPlace = 0 /\ Fetches = 0
  BY <1>1 DEF InPlace, Fetches, InAll
<1>3. LinesInMemory
  BY <1>2, DriverAssumption, MachineAssumption DEF LinesInMemory, Addresses
<1>4. Handover
  BY <1>1 DEF Handover
<1>5. ASSUME NEW s \in Stages
      PROVE  <<latch[s].instr_bits, latch[s].pc>> = Shown(Fetches - Depth[s])
  <2>1. Depth[s] \in Nat
    BY DEF Depth, Stages
  <2>2. Shown(Fetches - Depth[s]) = <<0, 0>>
    BY <1>2, <2>1 DEF Shown
  <2> QED BY <2>2 DEF SimInit, Zero
<1> QED BY <1>1, <1>3, <1>4, <1>5 DEF InOrder

(* A line stored behind the others leaves them alone.                      *)
LEMMA LineIsPlaced ==
  ASSUME SimTypeOK, LinesInMemory,
         NEW address, address = StartAddress + 4 * InPlace, address + 3 \in Addresses,
         NEW word \in Word, InPlace < Len(FetchLines), word = FetchLines[InPlace + 1],
         memory' = StoredLine(address, word), InPlace' = InPlace + 1,
         UNCHANGED <<file, opt>>
  PROVE  LinesInMemory'
<1>1. /\ InPlace \in Nat /\ StartAddress \in Nat /\ MemorySpace \in Nat
      /\ memory \in [Addresses -> Byte]
  BY FlowTypes DEF SimTypeOK
<1>2. FetchLines' = FetchLines
  BY DEF FetchLines
<1>3. ASSUME NEW m \in Addresses
      PROVE  memory'[m] = IF m - address \in 0 .. 3 THEN ByteOf(word, m - address) ELSE memory[m]
  BY DEF StoredLine, ByteOf
<1>4. address + 3 < MemorySpace
  BY <1>1 DEF Addresses
<1>5. StartAddress + 4 * InPlace' <= MemorySpace
  BY <1>1, <1>4
<1>6. ASSUME NEW k \in 1 .. InPlace', NEW j \in 0 .. 3
      PROVE  memory'[AddressOf(k) + j] = ByteOf(FetchLines[k], j)
  <2> DEFINE m == AddressOf(k) + j
  <2>1. m \in Addresses
    BY <1>1, <1>4 DEF AddressOf, Addresses
  <2>2. CASE k = InPlace + 1
    <3>1. m - address = j
      BY <1>1, <2>2 DEF AddressOf
    <3> QED BY <1>3, <2>1, <2>2, <3>1
  <2>3. CASE k \in 1 .. InPlace
    <3>1. m - address \notin 0 .. 3
      BY <1>1, <2>3 DEF AddressOf
    <3> QED BY <1>3, <2>1, <2>3, <3>1 DEF LinesInMemory
  <2> QED BY <1>1, <2>2, <2>3
<1> QED BY <1>2, <1>5, <1>6 DEF LinesInMemory, AddressOf

(* While there are lines in place to fetch, the fetch finds the next one.  *)
LEMMA NextLineIsFetched ==
  ASSUME SimTypeOK, LinesInMemory, NEW k \in 1 .. InPlace
  PROVE  load(AddressOf(k), LENGTH_WORD) = FetchLines[k]
<1>1. /\ InPlace \in Nat /\ StartAddress \in Nat /\ MemorySpace \in Nat
      /\ memory \in [Addresses -> Byte] /\ FetchLines[k] \in Word
  BY FlowTypes DEF SimTypeOK
<1>2. AddressOf(k) \in Nat /\ AddressOf(k) + 3 < MemorySpace
  BY <1>1 DEF LinesInMemory, AddressOf
<1>3. memory \in [Addresses -> Nat]
  BY <1>1, Widths DEF Byte
<1> QED BY <1>1, <1>2, <1>3, BytesAreFetched DEF LinesInMemory

(* A cycle without -e fetches the next line and hands the others on.       *)
LEMMA CycleKeepsOrder ==
  ASSUME SimTypeOK, DeadEnd, LinesInMemory, InOrder, phase # "load", Fetches < InPlace,
         cycle_pipeline, Fetches' = IF status' # "running" THEN Fetches ELSE Fetches + 1
  PROVE  InOrder'
<1> DEFINE F == Fetches
           bits == AsFetched(FetchLines[F + 1])
<1>1. /\ F \in Nat /\ InPlace \in Nat /\ F + 1 \in 1 .. InPlace
      /\ StartAddress \in Nat /\ MemorySpace \in Nat
  BY FlowTypes
<1>2. pc_src0 = StartAddress + 4 * F /\ pc_src0 = AddressOf(F + 1)
      /\ pc_src0 + 4 <= MemorySpace
  BY <1>1 DEF InOrder, LinesInMemory, AddressOf
<1>3. Fetched(pc_src0) = {FetchLines[F + 1]}
  <2>1. pc_src0 < MemorySpace - 3
    BY <1>1, <1>2
  <2>2. load(pc_src0, LENGTH_WORD) = FetchLines[F + 1]
    BY <1>1, <1>2, NextLineIsFetched
  <2> QED BY <2>1, <2>2 DEF Fetched
<1>4. status = "running" /\ UNCHANGED <<file, opt, phase, programsize>>
      /\ \E word \in Fetched(pc_src0) :
         IF AsFetched(word) \notin DOMAIN InstructionOf
         THEN status' = "EXIT_FAILURE" /\ UNCHANGED <<R, pipeline>>
         ELSE /\ latch' = [ifid  |-> stage_fetch(AsFetched(word)),
                           idex  |-> stage_decode(latch["ifid"]),
                           exmem |-> stage_execute(latch["idex"]),
                           memwb |-> stage_mem(latch["exmem"])]
              /\ pc_src0' = Wrap(pc_src0 + 4)
              /\ UNCHANGED status
  BY Zenon DEF cycle_pipeline
<1>5. IF bits \notin DOMAIN InstructionOf
      THEN status' = "EXIT_FAILURE" /\ UNCHANGED <<R, pipeline>>
      ELSE /\ latch' = [ifid  |-> stage_fetch(bits),
                        idex  |-> stage_decode(latch["ifid"]),
                        exmem |-> stage_execute(latch["idex"]),
                        memwb |-> stage_mem(latch["exmem"])]
           /\ pc_src0' = Wrap(pc_src0 + 4)
           /\ UNCHANGED status
  BY <1>3, <1>4
<1>6. \A n : Shown(n)' = Shown(n)
  BY <1>4 DEF Shown, FetchLines, AddressOf
<1>7. CASE bits \notin DOMAIN InstructionOf
  <2>1. Fetches' = Fetches /\ UNCHANGED <<latch, pc_src0, phase>>
    BY <1>4, <1>5, <1>7 DEF pipeline
  <2> QED BY <1>6, <2>1 DEF InOrder
<1>8. CASE bits \in DOMAIN InstructionOf
  <2>1. Fetches' = F + 1
    BY <1>4, <1>5, <1>8
  <2>2. pc_src0' = StartAddress + 4 * (F + 1)
    <3>1. pc_src0 + 4 \in Word /\ pc_src0 + 4 = StartAddress + 4 * (F + 1)
      BY <1>1, <1>2, PipelineAssumption, WordWidth DEF Word
    <3> QED BY <1>5, <1>8, <3>1, WrapIdentity
  <2> HIDE DEF bits
  <2>3. /\ latch'["ifid"] = stage_fetch(bits)
        /\ latch'["idex"] = stage_decode(latch["ifid"])
        /\ latch'["exmem"] = stage_execute(latch["idex"])
        /\ latch'["memwb"] = stage_mem(latch["exmem"])
    BY <1>5, <1>8
  <2>4. /\ latch'["ifid"].instr_bits = bits /\ latch'["ifid"].pc = pc_src0
        /\ latch'["idex"].instr_bits = latch["ifid"].instr_bits
        /\ latch'["idex"].pc = latch["ifid"].pc
        /\ latch'["exmem"].instr_bits = latch["idex"].instr_bits
        /\ latch'["exmem"].pc = latch["idex"].pc
        /\ latch'["memwb"].instr_bits = latch["exmem"].instr_bits
        /\ latch'["memwb"].pc = latch["exmem"].pc
    BY <2>3, Zenon DEF stage_fetch, stage_decode, stage_execute, stage_mem, Zero
  <2>5. Depth["ifid"] = 0 /\ Depth["idex"] = 1 /\ Depth["exmem"] = 2 /\ Depth["memwb"] = 3
    BY DEF Depth
  <2>6. <<latch["ifid"].instr_bits, latch["ifid"].pc>> = Shown(F - 0)
        /\ <<latch["idex"].instr_bits, latch["idex"].pc>> = Shown(F - 1)
        /\ <<latch["exmem"].instr_bits, latch["exmem"].pc>> = Shown(F - 2)
    BY <2>5 DEF InOrder, Stages
  <2>7. Shown(F + 1) = <<bits, pc_src0>>
    <3>1. ~(F + 1 < 1)
      BY <1>1
    <3> QED BY <1>2, <3>1 DEF Shown, bits
  <2>8. (F + 1) - 0 = F + 1 /\ (F + 1) - 1 = F - 0 /\ (F + 1) - 2 = F - 1 /\ (F + 1) - 3 = F - 2
    BY <1>1
  <2>9. ASSUME NEW s \in Stages
        PROVE  <<latch'[s].instr_bits, latch'[s].pc>> = Shown((F + 1) - Depth[s])
    <3> HIDE DEF F
    <3>1. CASE s = "ifid"
      BY <2>4, <2>5, <2>7, <2>8, <3>1
    <3>2. CASE s = "idex"
      BY <2>4, <2>5, <2>6, <2>8, <3>2
    <3>3. CASE s = "exmem"
      BY <2>4, <2>5, <2>6, <2>8, <3>3
    <3>4. CASE s = "memwb"
      BY <2>4, <2>5, <2>6, <2>8, <3>4
    <3> QED BY <3>1, <3>2, <3>3, <3>4 DEF Stages
  <2>10. ASSUME NEW s \in Stages
         PROVE  (<<latch[s].instr_bits, latch[s].pc>> = Shown(Fetches - Depth[s]))'
    <3>1. FetchLines' = FetchLines
      BY <1>4 DEF FetchLines
    <3> QED BY <2>1, <2>9, <3>1 DEF Shown, AddressOf, AsFetched, Depth
  <2> QED BY <2>1, <2>2, <2>10 DEF InOrder
<1> QED BY <1>7, <1>8

(* A step that leaves counts, wires and options alone leaves the flow alone. *)
LEMMA FlowStutter ==
  ASSUME FlowInv, ~opt.exit, UNCHANGED <<memory, file, opt, phase, programsize, simins, PC, pipeline>>,
         status' = "returned" /\ phase = "flush" => simins >= programsize
  PROVE  FlowInv'
<1>1. InPlace' = InPlace /\ Fetches' = Fetches
  BY DEF InPlace, Fetches, InAll, Skipped
<1>2. \A n : Shown(n)' = Shown(n)
  BY DEF Shown, FetchLines, AddressOf
<1>3. LinesInMemory'
  BY <1>1 DEF FlowInv, LinesInMemory, FetchLines, AddressOf
<1>4. Handover'
  BY DEF FlowInv, Handover
<1>5. InOrder'
  BY <1>1, <1>2 DEF FlowInv, InOrder, pipeline
<1> QED BY <1>3, <1>4, <1>5 DEF FlowInv

(* The counts and wires that only main moves. *)
LEMMA OrderKept ==
  ASSUME InOrder, Fetches' = Fetches, UNCHANGED <<latch, pc_src0, file, opt>>,
         phase # "load" \/ phase' = "load"
  PROVE  InOrder'
BY DEF InOrder, Shown, FetchLines, AddressOf, AsFetched, Depth

LEMMA LinesKept ==
  ASSUME LinesInMemory, InPlace' = InPlace, UNCHANGED <<memory, file, opt>>
  PROVE  LinesInMemory'
BY DEF LinesInMemory, FetchLines, AddressOf

(* The steps before the simulator.                                         *)
LEMMA FlowBefore ==
  ASSUME SimTypeOK, DeadEnd, FlowInv, ~opt.exit,
         \/ load_line /\ UNCHANGED pipeline
         \/ emulate /\ UNCHANGED pipeline
         \/ initialize
         \/ start_simulator
  PROVE  FlowInv'
<1>1. /\ programsize \in Nat /\ simins \in Nat /\ simins <= programsize /\ Len(file) \in Nat
      /\ FetchLines \in Seq(Word) /\ InPlace \in 0 .. Len(FetchLines)
      /\ StartAddress \in Nat /\ MemorySpace \in Nat
      /\ ~opt.mulator => \A k \in 1 .. Len(file) : FetchLines[k] = file[k]
      /\ Len(FetchLines) = Skipped + Len(Flush) /\ Len(Flush) \in Nat
  BY FlowTypes
<1>2. LinesInMemory /\ Handover /\ InOrder
  BY DEF FlowInv
<1>3. CASE load_line /\ UNCHANGED pipeline
  <2>1. /\ phase = "load" /\ programsize < Len(file) /\ UNCHANGED <<PC, file, opt, phase, simins>>
        /\ UNCHANGED <<latch, pc_src0>> /\ (simins = 0 \/ opt.mulator)
    BY <1>2, <1>3 DEF load_line, pipeline, Handover
  <2>2. Handover'
    BY <1>2, <2>1 DEF Handover
  <2>3. Fetches' = Fetches
    BY <2>1 DEF Fetches, InAll
  <2>4. InOrder'
    BY <1>2, <2>1, <2>3, OrderKept
  <2>5. LinesInMemory'
    <3>1. CASE opt.mulator \/ offset + 3 \notin Addresses
      <4>1. CASE opt.mulator
        <5>1. InPlace = 0 /\ InPlace' = 0
          BY <2>1, <4>1 DEF InPlace, InAll
        <5> QED BY <1>1, <1>2, <5>1 DEF LinesInMemory
      <4>2. CASE offset + 3 \notin Addresses
        <5>1. UNCHANGED <<memory, programsize>>
          BY <1>3, <4>2 DEF load_line
        <5>2. InPlace' = InPlace
          BY <2>1, <5>1 DEF InPlace, InAll, Skipped
        <5> QED BY <1>2, <2>1, <5>1, <5>2, LinesKept
      <4> QED BY <3>1, <4>1, <4>2
    <3>2. CASE ~opt.mulator /\ offset + 3 \in Addresses
      <4>1. memory' = StoredLine(offset, file[programsize + 1]) /\ programsize' = programsize + 1
        BY <1>3, <3>2 DEF load_line
      <4>2. InPlace = programsize /\ InPlace' = InPlace + 1
        BY <2>1, <3>2, <4>1 DEF InPlace, InAll
      <4>3. offset = StartAddress + 4 * InPlace
        BY <4>2 DEF offset, LENGTH_WORD
      <4>4. InPlace < Len(FetchLines) /\ file[programsize + 1] = FetchLines[InPlace + 1]
            /\ file[programsize + 1] \in Word
        <5>1. programsize + 1 \in 1 .. Len(file) /\ Skipped = Len(file)
          BY <1>1, <2>1, <3>2 DEF Skipped
        <5>2. programsize + 1 \in 1 .. Len(FetchLines)
          BY <1>1, <5>1
        <5> QED BY <1>1, <3>2, <4>2, <5>1, <5>2
      <4> HIDE DEF offset
      <4> QED BY <1>2, <2>1, <3>2, <4>1, <4>2, <4>3, <4>4, LineIsPlaced
    <3> QED BY <3>1, <3>2
  <2> QED BY <2>2, <2>4, <2>5 DEF FlowInv
<1>4. CASE emulate /\ UNCHANGED pipeline
  <2>1. opt.mulator /\ phase = "emulate" /\ UNCHANGED <<file, opt, phase, programsize>>
        /\ UNCHANGED <<latch, pc_src0>>
    BY <1>4 DEF emulate, Continues, pipeline
  <2>2. InPlace = 0 /\ InPlace' = 0 /\ Fetches' = Fetches
    BY <2>1 DEF InPlace, Fetches, InAll
  <2>3. LinesInMemory' /\ InOrder' /\ Handover'
    <3>1. LinesInMemory'
      BY <1>1, <1>2, <2>2 DEF LinesInMemory
    <3>2. InOrder'
      BY <1>2, <2>1, <2>2, OrderKept
    <3>3. Handover'
      BY <1>2, <2>1 DEF Handover
    <3> QED BY <3>1, <3>2, <3>3
  <2> QED BY <2>3 DEF FlowInv
<1>5. CASE initialize
  <2>1. /\ phase = "load" /\ programsize = Len(file)
        /\ UNCHANGED <<PC, memory, file, opt, programsize, simins, latch>>
        /\ PC = StartAddress
        /\ \/ phase' = "emulate" /\ pc_src0' = PC
           \/ phase' = "load" /\ UNCHANGED pc_src0
    BY <1>2, <1>5 DEF initialize, initialize_cpu, bootstrap, Handover
  <2>2. InPlace' = InPlace /\ Fetches' = Fetches
    BY <2>1 DEF InPlace, Fetches, InAll
  <2>3. LinesInMemory'
    BY <1>2, <2>1, <2>2, LinesKept
  <2>4. Handover'
    BY <1>2, <2>1 DEF Handover
  <2>5. phase' = "emulate" => pc_src0' = StartAddress + 4 * Fetches'
    <3>1. Fetches = 0
      BY <1>2, <2>1 DEF Fetches, InAll, Handover
    <3>2. StartAddress = StartAddress + 4 * 0
      BY <1>1
    <3> QED BY <2>1, <2>2, <3>1, <3>2
  <2>6. InOrder'
    BY <1>2, <2>1, <2>2, <2>5 DEF InOrder, Shown, FetchLines, AddressOf, AsFetched, Depth
  <2> QED BY <2>3, <2>4, <2>6 DEF FlowInv
<1>6. CASE start_simulator
  <2>1. /\ phase = "emulate" /\ phase' = "simulate" /\ (opt.mulator => ~(simins < programsize))
        /\ UNCHANGED <<memory, file, opt, programsize, simins, latch, pc_src0>>
    BY <1>6 DEF start_simulator, Continues, pipeline
  <2>2. InPlace' = InPlace /\ Fetches' = Fetches
    BY <2>1 DEF InPlace, Fetches, InAll
  <2>3. Handover'
    BY <1>1, <1>2, <2>1 DEF Handover
  <2> QED BY <1>2, <2>1, <2>2, <2>3, LinesKept, OrderKept DEF FlowInv
<1> QED BY <1>3, <1>4, <1>5, <1>6

(* The loops of the simulator, and what main does between them.            *)
LEMMA FlowInside ==
  ASSUME SimTypeOK, DeadEnd, FlowInv, ~opt.exit,
         simulate \/ begin_flush \/ load_flush_line \/ flush_loaded \/ flush
  PROVE  FlowInv'
<1>1. /\ programsize \in Nat /\ simins \in Nat /\ simins <= programsize /\ Len(file) \in Nat
      /\ FetchLines \in Seq(Word) /\ InPlace \in 0 .. Len(FetchLines)
      /\ StartAddress \in Nat /\ MemorySpace \in Nat /\ Skipped \in Nat
      /\ \A k \in 1 .. Len(Flush) : FetchLines[Skipped + k] = Flush[k]
      /\ Len(FetchLines) = Skipped + Len(Flush) /\ Len(Flush) \in Nat
  BY FlowTypes
<1>2. LinesInMemory /\ Handover /\ InOrder
  BY DEF FlowInv
<1>3. CASE simulate \/ flush
  <2>1. /\ cycle_pipeline /\ simins < programsize
        /\ simins' = IF status' # "running" THEN simins ELSE simins + 1
        /\ phase \in {"simulate", "flush"} /\ ~(opt.mulator /\ phase = "simulate")
    BY <1>1, <1>2, <1>3 DEF simulate, flush, Simulates, Flushes, CountedCycle, Handover
  <2>2. UNCHANGED <<memory, file, opt, phase, programsize>> /\ status' # "returned"
    BY <2>1, CycleKeepsTypes DEF cycle_pipeline
  <2>3. InPlace' = InPlace /\ Fetches < InPlace
        /\ Fetches' = IF status' # "running" THEN Fetches ELSE Fetches + 1
    <3>1. CASE phase = "simulate"
      BY <1>1, <2>1, <2>2, <3>1 DEF InPlace, Fetches, InAll
    <3>2. CASE phase = "flush"
      <4>1. Skipped' = Skipped
        BY <2>2 DEF Skipped
      <4> QED BY <1>1, <2>1, <2>2, <3>2, <4>1 DEF InPlace, Fetches, InAll
    <3> QED BY <2>1, <3>1, <3>2
  <2>4. InOrder'
    BY <1>2, <2>1, <2>3, CycleKeepsOrder
  <2>5. Handover'
    BY <1>2, <2>1, <2>2 DEF Handover
  <2> QED BY <1>2, <2>2, <2>3, <2>4, <2>5, LinesKept DEF FlowInv
<1>4. CASE begin_flush
  <2>1. /\ phase = "simulate" /\ phase' = "load_flush" /\ ~(simins < programsize)
        /\ simins' = 0 /\ programsize' = 0 /\ programsize = Len(file) /\ simins = programsize
        /\ UNCHANGED <<memory, file, opt, latch, pc_src0>>
    BY <1>1, <1>2, <1>4 DEF begin_flush, Simulates, FlushStart, pipeline, Handover
  <2>2. InPlace' = InPlace /\ Fetches' = Fetches
    BY <1>1, <2>1 DEF InPlace, Fetches, InAll, Skipped
  <2>3. Handover'
    BY <2>1 DEF Handover
  <2> QED BY <1>2, <2>1, <2>2, <2>3, LinesKept, OrderKept DEF FlowInv
<1>5. CASE load_flush_line
  <2>1. /\ phase = "load_flush" /\ programsize < Len(Flush) /\ simins = 0
        /\ UNCHANGED <<PC, file, opt, phase, simins, latch, pc_src0>>
    BY <1>2, <1>5 DEF load_flush_line, pipeline, Handover
  <2>2. Fetches' = Fetches /\ Fetches = Skipped /\ InPlace = Skipped + programsize
    BY <1>1, <2>1 DEF Fetches, InPlace, InAll, Skipped
  <2>3. Handover'
    BY <1>2, <2>1 DEF Handover
  <2>4. CASE FlushAddress + 3 \notin Addresses
    <3>1. UNCHANGED <<memory, programsize>>
      BY <1>5, <2>4 DEF load_flush_line
    <3>2. InPlace' = InPlace
      BY <2>1, <3>1 DEF InPlace, InAll, Skipped
    <3> QED BY <1>2, <2>1, <2>2, <2>3, <3>1, <3>2, LinesKept, OrderKept DEF FlowInv
  <2>5. CASE FlushAddress + 3 \in Addresses
    <3>1. memory' = StoredLine(FlushAddress, Flush[programsize + 1])
          /\ programsize' = programsize + 1
      BY <1>5, <2>5 DEF load_flush_line
    <3>2. InPlace' = InPlace + 1
      <4>1. Skipped' = Skipped
        BY <2>1 DEF Skipped
      <4>2. InPlace' = Skipped' + programsize'
        BY <2>1 DEF InPlace, InAll
      <4> QED BY <1>1, <2>2, <3>1, <4>1, <4>2
    <3>3. FlushAddress = StartAddress + 4 * InPlace
      BY <1>1, <1>2, <2>1, <2>2 DEF FlushAddress, InOrder, LENGTH_WORD
    <3>4. programsize + 1 \in 1 .. Len(Flush) /\ InPlace < Len(FetchLines)
          /\ InPlace + 1 = Skipped + (programsize + 1) /\ InPlace + 1 \in 1 .. Len(FetchLines)
      BY <1>1, <2>1, <2>2
    <3>5. Flush[programsize + 1] = FetchLines[InPlace + 1] /\ Flush[programsize + 1] \in Word
      BY <1>1, <3>4
    <3> HIDE DEF FlushAddress
    <3>6. LinesInMemory'
      BY <1>2, <2>1, <2>5, <3>1, <3>2, <3>3, <3>4, <3>5, LineIsPlaced
    <3> QED BY <1>2, <2>1, <2>2, <2>3, <3>6, OrderKept DEF FlowInv
  <2> QED BY <2>4, <2>5
<1>6. CASE flush_loaded
  <2>1. /\ phase = "load_flush" /\ phase' = "flush" /\ programsize = Len(Flush)
        /\ status' = "running" /\ UNCHANGED <<memory, file, opt, programsize, simins, latch, pc_src0>>
    BY <1>6 DEF flush_loaded, pipeline
  <2>2. InPlace' = InPlace /\ Fetches' = Fetches
    BY <2>1 DEF InPlace, Fetches, InAll, Skipped
  <2>3. Handover'
    BY <2>1 DEF Handover
  <2> QED BY <1>2, <2>1, <2>2, <2>3, LinesKept, OrderKept DEF FlowInv
<1> QED BY <1>3, <1>4, <1>5, <1>6

LEMMA FlowNext == SimTypeOK /\ DeadEnd /\ FlowInv /\ [SimNext]_simvars => FlowInv'
<1> SUFFICES ASSUME SimTypeOK, DeadEnd, FlowInv, [SimNext]_simvars PROVE FlowInv'
  OBVIOUS
<1>1. CASE opt.exit
  <2>1. opt' = opt
    BY DEF SimNext, simvars, vars, load_line, load_missing_file, emulate, return, ended,
       initialize, initialize_cpu, start_simulator, simulate, begin_flush, load_flush_line,
       load_missing_flush, flush_loaded, flush, finish, cycle_pipeline
  <2> QED BY <1>1, <2>1 DEF FlowInv
<1>2. CASE ~opt.exit
  <2>1. CASE \/ (load_line \/ emulate) /\ UNCHANGED pipeline
             \/ initialize \/ start_simulator
    BY <1>2, <2>1, FlowBefore
  <2>2. CASE simulate \/ begin_flush \/ load_flush_line \/ flush_loaded \/ flush
    BY <1>2, <2>2, FlowInside
  <2>3. CASE (load_missing_file /\ UNCHANGED pipeline) \/ load_missing_flush
    BY <1>2, <2>3, FlowStutter DEF load_missing_file, load_missing_flush
  <2>4. CASE return /\ UNCHANGED pipeline
    BY <1>2, <2>4, FlowStutter DEF return
  <2>5. CASE finish
    <3>1. simins >= programsize
      BY <2>5, FlowTypes DEF finish, Flushes
    <3> QED BY <1>2, <2>5, <3>1, FlowStutter DEF finish
  <2>6. CASE (ended /\ UNCHANGED pipeline) \/ UNCHANGED simvars
    <3>1. UNCHANGED <<memory, file, opt, phase, programsize, simins, PC, pipeline, status>>
      BY <2>6 DEF ended, simvars, vars
    <3>2. status' = "returned" /\ phase = "flush" => simins >= programsize
      BY <1>2, <3>1 DEF FlowInv, Handover
    <3> QED BY <1>2, <3>1, <3>2, FlowStutter
  <2> QED BY <2>1, <2>2, <2>3, <2>4, <2>5, <2>6 DEF SimNext
<1> QED BY <1>1, <1>2

THEOREM LinesFlow == SimSpec => []FlowInv
BY FlowInit, FlowNext, PipelineDeadEnd, SimTypeOKHolds, PTL DEF SimSpec

(* Without -e no line is lost or comes twice, for every file, every           *)
(* FLUSH.input and every width: what the pipeline shows is determined by how   *)
(* many lines were fetched (riscv.c:216-236, pipeline.c:46-75).                *)
THEOREM StagesHoldLinesHolds == SimSpec => []StagesHoldLines
<1>1. SimTypeOK /\ FlowInv => StagesHoldLines
  <2> SUFFICES ASSUME SimTypeOK, FlowInv, phase \in {"simulate", "load_flush", "flush"},
                      ~opt.exit
               PROVE  LET lines   == IF opt.mulator THEN Flush ELSE file \o Flush
                          fetched == (pc_src0 - StartAddress) \div LENGTH_WORD
                          Held(n) == IF n < 1 THEN <<0, 0>>
                                     ELSE <<AsFetched(lines[n]), StartAddress + LENGTH_WORD * (n - 1)>>
                      IN  \A s \in Stages :
                            <<latch[s].instr_bits, latch[s].pc>> = Held(fetched - Depth[s])
    BY DEF StagesHoldLines
  <2>1. Fetches \in Nat /\ StartAddress \in Nat
    BY FlowTypes
  <2>2. pc_src0 = StartAddress + 4 * Fetches /\ InOrder
    BY DEF FlowInv, InOrder
  <2>3. (pc_src0 - StartAddress) \div LENGTH_WORD = Fetches
    BY <2>1, <2>2 DEF LENGTH_WORD
  <2> QED BY <2>2, <2>3 DEF InOrder, Shown, FetchLines, AddressOf, LENGTH_WORD
<1> QED BY <1>1, SimTypeOKHolds, LinesFlow, PTL

(* No fetch tests bits that it never assigned (pipeline.c:52-59), as every     *)
(* fetch is of a line that load_program found room for.                        *)
THEOREM NoFetchPastMemoryHolds == SimSpec => []NoFetchPastMemory
<1>1. SimTypeOK /\ FlowInv => NoFetchPastMemory
  <2> SUFFICES ASSUME SimTypeOK, FlowInv, ~opt.exit, NEW s \in Stages
               PROVE  latch[s].pc <= MemorySpace - LENGTH_WORD
    BY DEF NoFetchPastMemory
  <2>1. /\ Fetches \in Nat /\ InPlace \in Nat /\ Fetches <= InPlace
        /\ StartAddress \in Nat /\ MemorySpace \in Nat
    BY FlowTypes
  <2>2. StartAddress + 4 * InPlace <= MemorySpace /\ MemorySpace >= 4
    BY MachineAssumption DEF FlowInv, LinesInMemory
  <2> DEFINE n == Fetches - Depth[s]
  <2>3. latch[s].pc = Shown(n)[2]
    BY DEF FlowInv, InOrder
  <2>4. n \in Int /\ n <= Fetches
    BY <2>1 DEF Depth, Stages
  <2> HIDE DEF n
  <2>5. CASE n < 1
    BY <2>1, <2>2, <2>3, <2>5 DEF Shown, LENGTH_WORD
  <2>6. CASE ~(n < 1)
    <3>1. latch[s].pc = StartAddress + 4 * (n - 1)
      BY <2>3, <2>6 DEF Shown, AddressOf
    <3> QED BY <2>1, <2>2, <2>4, <2>6, <3>1 DEF LENGTH_WORD
  <2> QED BY <2>5, <2>6
<1> QED BY <1>1, SimTypeOKHolds, LinesFlow, PTL

(* FLUSH.input goes behind the program and leaves it alone (riscv.c:231).      *)
THEOREM FlushSparesProgramHolds == SimSpec => []FlushSparesProgram
<1>1. SimTypeOK /\ DeadEnd /\ FlowInv => FlushSparesProgram
  <2> SUFFICES ASSUME SimTypeOK, DeadEnd, FlowInv, phase \in {"load_flush", "flush"},
                      ~opt.mulator, NEW k \in 1 .. Len(file)
               PROVE  load(StartAddress + LENGTH_WORD * (k - 1), LENGTH_WORD) = file[k]
    BY DEF FlushSparesProgram
  <2>1. ~opt.exit /\ LinesInMemory
    BY DEF DeadEnd, Endless, FlowInv
  <2>2. k \in 1 .. InPlace /\ FetchLines[k] = file[k]
    BY FlowTypes DEF InPlace, InAll, Skipped
  <2>3. load(AddressOf(k), LENGTH_WORD) = file[k]
    BY <2>1, <2>2, NextLineIsFetched
  <2> QED BY <2>3 DEF AddressOf, LENGTH_WORD
<1> QED BY <1>1, SimTypeOKHolds, PipelineDeadEnd, LinesFlow, PTL

(* The five words of FLUSH.input, and any four, push every line of the file    *)
(* out of the pipeline before main returns (riscv.c:229-236).                  *)
THEOREM FlushDrainsHolds == ASSUME Len(Flush) >= 4 PROVE SimSpec => []FlushDrains
<1>1. SimTypeOK /\ DeadEnd /\ FlowInv => FlushDrains
  <2> SUFFICES ASSUME SimTypeOK, DeadEnd, FlowInv, status = "returned", phase = "flush",
                      ~opt.mulator
               PROVE  latch["memwb"].pc >= StartAddress + LENGTH_WORD * Len(file)
    BY DEF FlushDrains
  <2>1. ~opt.exit /\ Handover /\ InOrder
    BY DEF DeadEnd, Endless, FlowInv
  <2>2. /\ simins = Len(Flush) /\ Len(Flush) \in Nat /\ Len(file) \in Nat
        /\ StartAddress \in Nat
    BY <2>1, FlowTypes DEF Handover
  <2>3. Fetches = Len(file) + Len(Flush)
    BY <2>2 DEF Fetches, InAll, Skipped
  <2> DEFINE n == Fetches - 3
  <2>4. latch["memwb"].pc = Shown(n)[2]
    BY <2>1 DEF InOrder, Depth, Stages
  <2>5. n \in Int /\ n >= 1 /\ n - 1 >= Len(file)
    BY <2>2, <2>3
  <2> HIDE DEF n
  <2>6. latch["memwb"].pc = StartAddress + 4 * (n - 1)
    BY <2>4, <2>5 DEF Shown, AddressOf
  <2> QED BY <2>2, <2>5, <2>6 DEF LENGTH_WORD
<1> QED BY <1>1, SimTypeOKHolds, PipelineDeadEnd, LinesFlow, PTL

-----------------------------------------------------------------------------
(***************************************************************************)
(* The end of the run.  Without -e every step of main brings the end       *)
(* nearer, whatever the program does.                                      *)
(***************************************************************************)

\* An upper bound on the steps of a run with -s.
SimStepsLeft ==
  IF status # "running" THEN 0
  ELSE CASE phase = "load"       -> 5 + 2 * Len(Flush) + Len(file) + (Len(file) - programsize)
         [] phase = "emulate"    -> 4 + 2 * Len(Flush) + (programsize - simins)
         [] phase = "simulate"   -> 3 + 2 * Len(Flush) + (programsize - simins)
         [] phase = "load_flush" -> 2 + Len(Flush) + (Len(Flush) - programsize)
         [] phase = "flush"      -> 1 + (programsize - simins)

(* Without -e the same holds of a run with -s: the lines of the file and of   *)
(* FLUSH.input bound what both loads and all the loops of main do             *)
(* (riscv.c:203, riscv.c:224, riscv.c:233).                                   *)
THEOREM SimulatorRunsDown ==
  SimSpec => /\ [](SimStepsLeft \in 0 .. 2 * Len(file) + 2 * Len(Flush) + 5)
             /\ [][~opt.exit => SimStepsLeft' < SimStepsLeft]_simvars
<1> DEFINE Lines == Len(IF phase \in {"load_flush", "flush"} THEN Flush ELSE file)
           Counts == /\ Len(file) \in Nat /\ Len(Flush) \in Nat
                     /\ phase \in {"load", "emulate", "simulate", "load_flush", "flush"}
                     /\ programsize \in 0 .. Lines /\ simins \in 0 .. programsize
<1>1. SimTypeOK => Counts
  BY PipelineAssumption DEF SimTypeOK
<1>2. Counts => SimStepsLeft \in 0 .. 2 * Len(file) + 2 * Len(Flush) + 5
  <2> SUFFICES ASSUME Counts PROVE SimStepsLeft \in 0 .. 2 * Len(file) + 2 * Len(Flush) + 5
    OBVIOUS
  <2>1. Len(file) \in Nat /\ Len(Flush) \in Nat
    OBVIOUS
  <2>2. phase \in {"load", "emulate", "simulate"}
            => programsize \in 0 .. Len(file) /\ simins \in 0 .. programsize
    OBVIOUS
  <2>3. phase \in {"load_flush", "flush"}
            => programsize \in 0 .. Len(Flush) /\ simins \in 0 .. programsize
    OBVIOUS
  <2>4. phase \in {"load", "emulate", "simulate", "load_flush", "flush"}
    OBVIOUS
  <2> HIDE DEF Counts
  <2>5. CASE status # "running"
    BY <2>1, <2>5 DEF SimStepsLeft
  <2>6. CASE status = "running" /\ phase = "load"
    BY <2>1, <2>2, <2>6 DEF SimStepsLeft
  <2>7. CASE status = "running" /\ phase = "emulate"
    BY <2>1, <2>2, <2>7 DEF SimStepsLeft
  <2>8. CASE status = "running" /\ phase = "simulate"
    BY <2>1, <2>2, <2>8 DEF SimStepsLeft
  <2>9. CASE status = "running" /\ phase = "load_flush"
    BY <2>1, <2>3, <2>9 DEF SimStepsLeft
  <2>10. CASE status = "running" /\ phase = "flush"
    BY <2>1, <2>3, <2>10 DEF SimStepsLeft
  <2> QED BY <2>4, <2>5, <2>6, <2>7, <2>8, <2>9, <2>10
<1>3. Counts /\ Counts' /\ [SimNext]_simvars => [~opt.exit => SimStepsLeft' < SimStepsLeft]_simvars
  <2> SUFFICES ASSUME Counts, Counts', SimNext, ~opt.exit, ~(ended /\ UNCHANGED pipeline)
               PROVE  SimStepsLeft' < SimStepsLeft
    <3>1. ended /\ UNCHANGED pipeline => UNCHANGED simvars
      BY DEF ended, simvars
    <3> HIDE DEF Counts
    <3> QED BY <3>1
  <2>1. /\ Len(file) \in Nat /\ Len(Flush) \in Nat
        /\ phase \in {"load", "emulate", "simulate", "load_flush", "flush"}
        /\ programsize \in Nat /\ simins \in 0 .. programsize
        /\ simins' \in 0 .. programsize'
        /\ phase \in {"load", "emulate", "simulate"} => programsize \in 0 .. Len(file)
        /\ phase \in {"load_flush", "flush"} => programsize \in 0 .. Len(Flush)
    OBVIOUS
  <2> HIDE DEF Counts
  <2>2. status = "running" /\ file' = file
    BY DEF SimNext, load_line, load_missing_file, initialize, initialize_cpu, emulate,
       execute_emu, return, start_simulator, simulate, cycle_pipeline, begin_flush,
       load_flush_line, load_missing_flush, flush_loaded, flush, finish
  <2>3. SimStepsLeft > 0
    <3>1. CASE phase = "load"
      BY <2>1, <2>2, <3>1 DEF SimStepsLeft
    <3>2. CASE phase = "emulate"
      BY <2>1, <2>2, <3>2 DEF SimStepsLeft
    <3>3. CASE phase = "simulate"
      BY <2>1, <2>2, <3>3 DEF SimStepsLeft
    <3>4. CASE phase = "load_flush"
      BY <2>1, <2>2, <3>4 DEF SimStepsLeft
    <3>5. CASE phase = "flush"
      BY <2>1, <2>2, <3>5 DEF SimStepsLeft
    <3> QED BY <2>1, <3>1, <3>2, <3>3, <3>4, <3>5
  <2>4. CASE status' # "running"
    BY <2>3, <2>4 DEF SimStepsLeft
  <2>5. CASE status' = "running"
    <3>1. CASE load_line
      BY <2>1, <2>2, <2>5, <3>1 DEF load_line, SimStepsLeft
    <3>2. CASE initialize
      BY <2>1, <2>2, <2>5, <3>2 DEF initialize, initialize_cpu, SimStepsLeft
    <3>3. CASE emulate
      BY <2>1, <2>2, <2>5, <3>3 DEF emulate, Counted, SimStepsLeft
    <3>4. CASE start_simulator
      BY <2>1, <2>2, <2>5, <3>4 DEF start_simulator, SimStepsLeft
    <3>5. CASE simulate
      BY <2>1, <2>2, <2>5, <3>5 DEF simulate, cycle_pipeline, CountedCycle, SimStepsLeft
    <3>6. CASE begin_flush
      BY <2>1, <2>2, <2>5, <3>6 DEF begin_flush, FlushStart, SimStepsLeft
    <3>7. CASE load_flush_line
      BY <2>1, <2>2, <2>5, <3>7 DEF load_flush_line, SimStepsLeft
    <3>8. CASE flush_loaded
      BY <2>1, <2>2, <2>5, <3>8 DEF flush_loaded, SimStepsLeft
    <3>9. CASE flush
      BY <2>1, <2>2, <2>5, <3>9 DEF flush, cycle_pipeline, SimStepsLeft
    <3>10. CASE load_missing_file \/ return \/ load_missing_flush \/ finish
      BY <2>5, <3>10 DEF load_missing_file, return, load_missing_flush, finish, DumpAndReturn
    <3>11. CASE ended
      BY <2>2, <3>11 DEF ended
    <3> QED BY <3>1, <3>2, <3>3, <3>4, <3>5, <3>6, <3>7, <3>8, <3>9, <3>10, <3>11 DEF SimNext
  <2> QED BY <2>4, <2>5
<1> HIDE DEF Counts
<1> QED BY <1>1, <1>2, <1>3, SimTypeOKHolds, PTL DEF SimSpec

=============================================================================
