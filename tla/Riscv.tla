------------------------------- MODULE Riscv --------------------------------
(***************************************************************************)
(* A run of the program without -s: main and load_program of riscv.c       *)
(* around execute_emu.  main loads the input file, line by line, sets up   *)
(* the registers, calls execute_emu (with -m) for ever (-e) or as many     *)
(* times as the file has lines, and dumps memory (-p); the process may end *)
(* inside any of these.  Module Simulator goes on where -s is given.       *)
(***************************************************************************)
EXTENDS Emulator, Sequences

CONSTANTS
    Commands,       \* the command lines, each with the words of its file
    StartAddress,   \* 0x1000, where the program goes
    GlobalPointer,  \* 0x3000, the first value of R[3]
    StackPointer    \* 0xEFFFF, the first value of R[2]

\* The options that matter here, whether the input file and FLUSH.input can be
\* opened, and the range that -p asks for, if there is one.
Options == [readable : BOOLEAN, exit : BOOLEAN, disasm : BOOLEAN,
            init_reg : BOOLEAN, mulator : BOOLEAN, sim : BOOLEAN,
            flush : BOOLEAN, dump : {<<>>} \cup (Word \X Word)]

ASSUME DriverAssumption ==
    /\ {2, 3} \subseteq Regs
    /\ \A command \in Commands :
          command.file \in Seq(Word) /\ command.opt \in Options
    /\ StartAddress \in Addresses
    /\ {GlobalPointer, StackPointer} \subseteq Word

VARIABLES
    file,           \* the words of the input file
    opt,            \* the options
    phase,          \* where main is: "load" or "emulate"
    programsize,    \* the lines loaded; prog_numins once main has it
    simins          \* calls of execute_emu that came back, without -e

vars == <<R, PC, memory, status, file, opt, phase, programsize, simins>>

\* regfile_t is not initialised before the program is loaded, nor read.
Init ==
    /\ R = [r \in Regs |-> 0]
    /\ PC = StartAddress
    /\ memory = [m \in Addresses |-> 0]
    /\ status = "running"
    /\ \E command \in Commands : file = command.file /\ opt = command.opt
    /\ phase = "load"
    /\ programsize = 0 /\ simins = 0

-----------------------------------------------------------------------------
offset == StartAddress + LENGTH_WORD * programsize

\* Fault: the bytes of a line stored with the highest first.
StoredLine_BigEndian(address, word) ==
    [m \in Addresses |->
        IF m - address \in 0 .. 3
        THEN LowBits(Shr(word, byteBits * (3 - (m - address))), byteBits)
        ELSE memory[m]]

\* The memory after the four assignments of load_program.
StoredLine(address, word) ==
    [m \in Addresses |->
        IF m - address \in 0 .. 3
        THEN LowBits(Shr(word, byteBits * (m - address)), byteBits)
        ELSE memory[m]]

\* decode_instruction skips the zero word and gives any other word to
\* parse_instruction, which ends the process on an opcode it does not know.
Undecodable(word) == opt.disasm /\ word # 0 /\ word \notin DOMAIN InstructionOf

\* One turn of the loop of load_program; nothing compares offset to memsize.
load_line ==
    /\ phase = "load" /\ status = "running"
    /\ opt.readable
    /\ programsize < Len(file)
    /\ LET word == file[programsize + 1] IN
       IF offset + 3 \in Addresses
       THEN /\ memory' = StoredLine(offset, word)
            /\ programsize' = programsize + 1
            /\ status' = IF Undecodable(word) THEN "EXIT_FAILURE" ELSE status
       ELSE status' = "undefined" /\ UNCHANGED <<memory, programsize>>
    /\ UNCHANGED <<R, PC, file, opt, phase, simins>>

\* fopen failed and nothing checks it: fgets reads from a null stream.
load_missing_file ==
    /\ phase = "load" /\ status = "running"
    /\ ~opt.readable
    /\ status' = "undefined"
    /\ UNCHANGED <<R, PC, memory, file, opt, phase, programsize, simins>>

\* main goes on after load_program: it returns if it only disassembles, and
\* otherwise sets up the registers.
initialize_cpu ==
    /\ phase = "load" /\ status = "running"
    /\ opt.readable
    /\ programsize = Len(file)
    /\ IF opt.disasm
       THEN status' = "returned" /\ UNCHANGED <<R, phase>>
       ELSE /\ R' = [r \in Regs |->
                        CASE r = 0 -> 0
                          [] r = 2 -> StackPointer
                          [] r = 3 -> GlobalPointer
                          [] OTHER -> IF opt.init_reg THEN 4 ELSE 0]
            /\ phase' = "emulate"
            /\ UNCHANGED status
    /\ UNCHANGED <<PC, memory, file, opt, programsize, simins>>

\* A call that ends the process does not come back to be counted.
Counted == IF opt.exit \/ status' # "running" THEN simins ELSE simins + 1

\* Fault: a loop that runs one instruction too many.
Continues_OneMore == opt.mulator /\ (opt.exit \/ simins <= programsize)

\* The conditions of the two emulator loops of main.
Continues == opt.mulator /\ (opt.exit \/ simins < programsize)

emulate ==
    /\ phase = "emulate"
    /\ Continues
    /\ execute_emu
    /\ simins' = Counted
    /\ UNCHANGED <<file, opt, phase, programsize>>

\* Fault: a dump that goes on if the range is a whole number of lines.
DumpIndices_OneMore(start, stop) ==
    {Wrap(start + i + j) : i \in {n \in 0 .. Wrap(stop - start) : n % 16 = 0},
                           j \in {0, 4, 8, 12}}

\* The elements of memory that the dump prints, 16 addresses on a line.
DumpIndices(start, stop) ==
    {Wrap(start + i + j) : i \in {n \in 0 .. Wrap(stop - start) - 1 : n % 16 = 0},
                           j \in {0, 4, 8, 12}}

\* The end of main: nothing compares the range of the dump to MEMORY_SPACE.
DumpAndReturn ==
    status' = IF opt.dump = <<>> \/ DumpIndices(opt.dump[1], opt.dump[2]) \subseteq Addresses
              THEN "returned" ELSE "undefined"

return ==
    /\ phase = "emulate" /\ status = "running"
    /\ ~Continues /\ ~opt.sim
    /\ DumpAndReturn
    /\ UNCHANGED <<R, PC, memory, file, opt, phase, programsize, simins>>

\* The process is over.
ended == status # "running" /\ UNCHANGED vars

Next == load_line \/ load_missing_file \/ initialize_cpu \/ emulate \/ return \/ ended

Spec == Init /\ [][Next]_vars

\* One thread, and nothing it waits for: the program is scheduled again and
\* again until its process ends.
FairSpec == Spec /\ WF_vars(Next)

-----------------------------------------------------------------------------
(* Properties.                                                             *)

\* Registers are words, R[0] is zero, memory holds bytes, and the driver never
\* counts more calls of execute_emu than the file has lines (riscv.c:203).
TypeOK ==
    /\ R \in [Regs -> Word] /\ R[0] = 0
    /\ PC \in Word
    /\ memory \in [Addresses -> Byte]
    /\ status \in Statuses \cup {"returned"}
    /\ file \in Seq(Word) /\ opt \in Options
    /\ phase \in {"load", "emulate"}
    /\ programsize \in 0 .. Len(file)
    /\ simins \in 0 .. Len(file)

\* load_program lays the words down in the order, and each word in the byte
\* order, in which execute_emu fetches them: before the first instruction the
\* fetch at each program address finds the line of the file.
FetchFindsFile ==
    phase = "load" =>
        \A k \in 1 .. programsize :
            load(StartAddress + LENGTH_WORD * (k - 1), LENGTH_WORD) = file[k]

\* Without -e a program cannot run away: whatever it jumps to, the process ends.
StopsWithoutExit == []<>(opt.exit \/ status # "running")

\* A dump within memory reads past the end of memory exactly if the last of its
\* lines of 16 addresses does: the range is rounded up (riscv.c:264-268).
DumpReadsWholeLines ==
    [][phase = "emulate" /\ status = "running" /\ ~Continues /\ ~opt.sim /\ opt.dump # <<>>
        => LET start == opt.dump[1]  stop == opt.dump[2]
               lines == (stop - start + 15) \div 16
           IN  start <= stop /\ stop <= MemorySpace
               => (status' = "undefined" <=> start + 16 * lines - 4 >= MemorySpace)]_vars

\* The instruction the next call of execute_emu executes, if there is one.
Executing ==
    /\ phase = "emulate" /\ status = "running" /\ Continues
    /\ InBounds(PC, LENGTH_WORD)
    /\ load(PC, LENGTH_WORD) \in DOMAIN InstructionOf

Current == InstructionOf[load(PC, LENGTH_WORD)]

IsRtype(funct3, funct7) ==
    Current.opcode = "0x33" /\ Current.funct3 = funct3 /\ Current.funct7 = funct7

\* emulator.c:166, on srl: "the msb does not extend. Only zeros can extend".
SrlBringsInZeros ==
    [][Executing /\ IsRtype(5, 0) /\ Current.rd # 0
        => R'[Current.rd] = Shr(R[Current.rs1], Count(R[Current.rs2]))]_vars

\* emulator.c:470, on sw: it stores "into memory at address = rs1 + imm", the
\* sum that lw forms; an immediate is signed (emulator.c:245).
StoreGoesWhereLoadLooks ==
    [][Executing /\ Current.opcode = "0x23" /\ Current.funct3 = 2
        => LET address == Wrap(R[Current.rs1] + sign_extend_number(Current.imm, immBits))
           IN  InBounds(address, LENGTH_WORD) =>
                 load(address, LENGTH_WORD)' = R[Current.rs2]]_vars

=============================================================================
