# A verification project for the ENSC 254 RISC-V simulator

The program `riscv` (directory `final-project-base-code`) loads a RISC-V program from a text file of
hexadecimal words and runs it in an instruction-set emulator (option `-m`) or in a five-stage pipeline
simulator (`-s`); a set-associative cache simulator, a decoder and a disassembler are linked in. This
directory holds TLA+ models of it, the TLC runs that check them and theorems that TLAPS proves.

File and line references below are to `src/final-project-base-code/`.

## 1. Inventory

| component | files | state it keeps | operations |
|---|---|---|---|
| Cache simulator | cache.c, cache.h | sets of lines (valid, tag, block address, clock, access counter), a clock per set, three statistics | `operateCache` and its helpers, `cacheSetUp`, `deallocate` |
| Emulator | emulator.c, riscv.h | 32 registers, PC, memory (owned by the driver) | `execute_instruction` and one handler per format, `load`, `store` |
| Decoding | utils.c, utils.h, types.h | none | `parse_instruction`, `sign_extend_number`, `get_branch_offset`, `get_jump_offset`, `get_store_offset` |
| Disassembler | disasm.c | none | `decode_instruction` and the `write_*`, `print_*` functions |
| Driver | riscv.c | options, the processor, memory, counts of instructions | `load_program`, `execute_emu`, `main` |
| Pipeline simulator | pipeline.c, pipeline.h, stage_helpers.h | four pipeline registers, control wires, statistics | `cycle_pipeline`, five stages, hazard and forwarding helpers |
| Configuration, crash handler | config.h, dogfault.h, Makefile | none | - |
| Test scripts | emulator_tester.py, test_simulator_*.sh | none | compare traces with references |

**Interactions.** Everything is called synchronously by `main`, in one thread. The driver loads the file into
memory, sets up the registers and calls `execute_emu`, which fetches with `load`, decodes with
`parse_instruction` and runs a handler; handlers share registers and memory by pointer. The disassembler is
called by `load_program` (`-d`), by `execute_emu` (`-i`, `-t`) and by the pipeline's debug output, and shares
the decoder with the emulator but has its own tables of mnemonics. After the emulator, or instead of it, the
driver calls `cycle_pipeline` (`-s`) in up to two loops: one for the program, and, after it has loaded
FLUSH.input where the next fetch goes, one that drains the pipeline. Emulator and simulator share the registers,
the memory and the counter `simins`; the stages share the pipeline registers and the wires. The cache is set
up by the driver and meant to be called by the pipeline's memory stage; at this commit it is not.

**What is hard.** Nothing runs concurrently and nothing is persisted, so there are no interleavings, crashes or
messages. The hazards are long sequences of legal steps (the cache), arithmetic at the edge of its width
(signs, overflow, shift counts, scattered immediates), two pieces of code that must agree (probe by tag and
replace by block; the loader's byte order and the fetch's; emulator tables and disassembler tables), programs
that change themselves or leave memory, loops that must end, switches whose cases fall through, and, in the
simulator, state that one loop of `main` leaves to the next (the count, the memory, the pipeline registers).
`PROJECT.json` lists each at its line.

**What makes each part correct.** *Cache*: residency, victims and statistics are those of the LRU or LFU policy.
*Emulator*: each step is what the comment of the instruction says. *Decoding*: it undoes the assembler's
encoding. *Disassembler*: it prints the instruction the emulator executes. *Driver*: the words of the file are the
words fetched, and without `-e` every run ends. *Pipeline*: the lines of the program go through the stages in order,
none lost, repeated or left behind, and each stage decides and computes what the emulator does.

## 2. Modules

| module | models | extends or instantiates |
|---|---|---|
| `Bits` | shifts and masks as arithmetic; `Pow2` is a function, so that it can be proved about | |
| `Cache` | cache.c | `Bits` |
| `ReplacementPolicy` | abstract: recency lists per set and use counts, LRU and LFU | |
| `CacheRefinement` | the mapping from `Cache` to `ReplacementPolicy` | `Cache` |
| `CacheInclusion` | the cache and a second, with more lines per set, on the same accesses | `CacheRefinement`, `Cache` |
| `MCCache` | the pair of LRU caches, or one cache under LFU | `CacheInclusion`, `CacheRefinement` |
| `Alu` | the values and conditions emulator.c computes, and its tables of instructions | `Bits` |
| `InstructionSet` | the instructions of the union `Instruction` (types.h), a record for each format | `Alu` |
| `Emulator` | emulator.c and `execute_emu`: one action per call | `InstructionSet` |
| `Riscv` | `load_program` and `main` around the emulator | `Emulator` |
| `IsaReference` | what the comments of emulator.c say is computed, as relations over integers | |
| `StageHelpers` | the functions of stage_helpers.h | `Decode` |
| `Simulator` | `main` with `-s` around pipeline.c | `Riscv` |
| `MCSimulator` | files and options for the simulator, and for the whole program | `Simulator`, `MCRiscv` |
| `RiscvIsa` | abstract: the machine a program sees, one instruction at a time | `IsaReference` |
| `RiscvRefinement` | the mapping from `Riscv` to `RiscvIsa` | `Riscv`, `AluReference` |
| `AluReference` | `IsaReference` at the widths of `Alu`, and the operands for which the code departs from it | `Alu` |
| `MCRiscv` | instructions and families of input files for TLC | `RiscvRefinement` |
| `AluCheck` | a walk over all pairs of operands | `StageHelpers`, `AluReference` |
| `Decode` | utils.c at its real widths, and the assembler's encoding (external) | `Alu` |
| `InstructionWords` | from 32-bit words to the instructions of `Emulator` (`InstructionTable`) and back (external) | `Decode`, `InstructionSet` |
| `Disasm` | disasm.c as the lines it prints | `Decode` |
| `DecodeCheck` | a walk over immediates and function codes | `Disasm`, `StageHelpers` |
| `BitsProofs` | lemmas about shifts, masks and induction | `Bits` |
| `AluProofs` | lemmas about what instructions compute | `AluReference`, `BitsProofs` |
| `CheckProofs` | theorems about `AluCheck`, `DecodeCheck`, `InstructionWords` and the instruction formats | all of these, `AluProofs` |
| `CacheProofs` | theorems about `Cache` and its refinement of `ReplacementPolicy` | `CacheRefinement`, `BitsProofs` |
| `InclusionProofs` | theorem about `CacheInclusion` | `CacheInclusion`, `CacheProofs`; `CacheProofs` for the larger cache |
| `RiscvProofs` | theorems about `Riscv` | `Riscv`, `AluProofs` |
| `EmulatorProofs` | the refinement of `RiscvIsa` | `RiscvRefinement`, `RiscvProofs` |
| `SimulatorProofs` | theorems about `Simulator` | `Simulator`, `RiscvProofs` |

Definitions whose comment begins with *Fault:* are plausible bugs, at least one for each property of a passing run;
substituted for the definition they precede they make the property fail. They are no part of the models.

### Cache

The variables are the fields of the structs: `lines[s][i]` is `cache->sets[s].lines[i]`, `lru_clock[s]` the clock
of the set, and `r` the `result` that the last `operateCache` returned. An action is one call of `operateCache`, by
the way it returns: `Hit`, `Miss` (there was an invalid line) or `Evict`. Loops that stop at the first match are the
operator `First`; the scan of `victim_cacheline` is a recursive function over the lines, in the code's order.
Addresses are naturals. Counters are C ints of a chosen largest value and wrap (cache.c:47, 52, 58, 70).
The geometry and `lfu` are constants. `main` leaves these fields uninitialised (riscv.c:150), so that any value is
possible; the model has every value for which C defines the shifts of cache.c (`1 << setBits` is an int, so less than 31 bits, and a tag is
an address shifted by all of them), any positive associativity and any `lfu`. For the others nothing can be said. `deallocate` is left out.

### Emulator and driver

`R`, `PC` and `memory` are those of the code; `status` says how the process ended: it returned, a handler called
`exit`, a division raised SIGFPE, or it did something C does not define (an access outside memory, a null
stream). Each action `emulate` is a whole call of `execute_emu`: fetch, decode, the handler, and the reset of
`R[0]`. `load_line` is one turn of the loop of `load_program`, `initialize_cpu` the code of `main` up to the
emulator loops, `return` the end of `main` without `-s`, with the dump of memory: which elements it reads
(`DumpIndices`) decides whether it stays within memory. A command line is a file and the values of the options
(`Options`) after they were parsed; `-i`, `-t` and `-r` only print and are left out. A line is what one
`fgets` returns.

Widths are constants (`byteBits`, `immBits`, `shamtBits`, for 8, 12 and 5) so that TLC can scale them down
together. Words are data: `InstructionOf` maps the words that `parse_instruction` accepts to instructions (with
the offsets of branches and jumps already put together), so that a store can overwrite the program and a jump
can land between two words. `InstructionWords` has the table of the program itself, 32-bit words and all: `CheckProofs`
shows that `Emulator` may take it. What the compiled x86-64 code does where C defines nothing is followed for
arithmetic: it wraps, shifts count modulo 32, the casts of types.h truncate, division traps.

### Pipeline simulator

pipeline.c and stage_helpers.h do not compile at this commit, so that their text has to be read with some repair.
The models are of what *every* repair has in common that adds no statement: the marker of the merge conflict is
dropped (line 212; there is no other side), a statement that stops short is ended (lines 117, 148, 237), a member that is used
and not declared is declared (once, if the source does it twice), so that it is the zero of its struct until
something is assigned to it. The remaining gaps do not matter to the state. `stage_execute` computes a result with
an undeclared `alu_src`, `gen_forward` sets two wires, `stage_mem` calls `gen_branch` with an argument missing: no
statement reads what comes of it. Line 173 of stage_helpers.h is not C, but whatever its switch assigns, case 2,
into which it falls, assigns over it.

`Simulator` extends `Riscv` with the wire `pc_src0`, the pipeline registers `latch` (their `out` sides, with the
members whose value can reach the state) and `ecall_exit`. `cycle_pipeline` is one call: a fetch, which may end
the process in `parse_instruction`, the shift of the registers, write-back, and the test for ecall. The driver's
loops are `simulate` and `flush`, and between them `begin_flush`, `load_flush_line`, `flush_loaded`; `programsize` and
`simins` are used again, as in `main`. A fetch at the end of memory yields any of the words of the constant
`Garbage`, for `instruction_bits` is not initialised. `pcsrc` is never assigned, so that nothing is fetched but
the next word; the counters are only printed.

`StageHelpers` has the functions of stage_helpers.h as operators: `gen_control` and `gen_imm` (decode stage),
`gen_alu_control` as the sequence of the assignments its switches make up to the first break, `execute_alu` as
compiled without optimisation for x86-64 (a shift by the width of a word is a shift by 0), and `gen_branch`.
`RtypeCode` is the table that the inner switches were meant to be. `gen_forward` is left out: it sets two wires that
no statement reads, so that its choice, which lets MEMWB override the newer result of EXMEM (line 442), reaches no state.

### Decoding and disassembly

A word is its opcode and its other 25 bits, the first struct of the union `Instruction` (types.h:53-56), which keeps
all numbers within TLC's integers at the real widths. `Decode` has the bit fields and the offset helpers,
`Disasm` the lines printed, each a mnemonic with its operands; its tables are functions from the codes to mnemonics. The `Encode*` operators are the base formats of
RISC-V as an assembler lays them out.

## 3. Runs

| run | module | shows |
|---|---|---|
| `caches` | MCCache | LRU with 2 ways and with 3 ways on the same accesses, or LFU with 3 ways: types, the invariants that tie tags, blocks, clocks and statistics together, what an access moves, refinement of the policy, ties of LFU broken by last use, and that the larger LRU cache always holds what the smaller one holds |
| `cache_overflow` | Cache | *violation*: after the int clock of a set overflows, LRU evicts the newest block |
| `alu` | AluCheck | all 65536 pairs of 8-bit operands (6-bit immediates): values, faults and branch conditions of the emulator as commented; values and branches of the pipeline against them |
| `riscv` | MCSimulator | the whole program. With `-m`: about 6000 programs with `-e`, and empty, short, undecodable, oversized, missing and looping files under all options: loading is faithful, every step refines the abstract machine, dumps read what they should. With `-s`: about 2600 files and option sets: the pipeline holds the lines of file and flush in order, is drained at the end, stays within memory, spares the program. Without `-e` all runs end |
| `riscv_srl` | MCRiscv | *violation*: srl extends the sign |
| `riscv_store` | MCRiscv | *violation*: a store with a negative immediate misses its address |
| `simulator_ecall` | MCSimulator | *violation*: with `-s -e` an ecall does not end the run |
| `simulator_registers` | MCSimulator | *violation*: the simulator writes no result to a register |
| `decode` | DecodeCheck | all 12-bit fields and function codes: decoding undoes encoding, printed is executed, a printed line can be assembled again, which immediates reach the pipeline's execute stage |
| `decode_jump` | DecodeCheck | *violation*: a jump of 2 KB or more lands elsewhere |
| `disasm_invalid` | DecodeCheck | *violation*: sltu and mulu are printed and reported invalid |
| `alu_control` | DecodeCheck | *violation*: the pipeline's ALU is told to add for every R-type instruction |

`caches` and `riscv` each answer several questions in one state graph, of which a behaviour takes one part:
a pair of LRU caches or an LFU cache, the emulator alone or the simulator.

**Bounds.** *Cache*: LRU has 2 sets of 2 and of 3 lines, 6 addresses in different blocks (four
of one set, two of the other) and 7 accesses; LFU has one set of 3 lines, 4 blocks, two addresses in one of them, and 8 accesses. That fills a set, evicts, hits and evicts
again. The largest int is 8, which the clocks do not pass; in `cache_overflow` they do. *Emulator*: bytes of 2 bits, words of 8, 64
bytes of memory, 6 registers; a program is two instructions that set the operands (-1, 1, 10, the least integer,
a comparison; -1, 0, 3, a mask, or left as they are), any instruction of the repertoire and one after it (a store of
its result, a jump back, a branch back, a system call). The repertoire has every instruction, writes to x0,
invalid function codes, a store over the next instruction, loads and stores that leave memory, and jumps to
half a word, backwards and out of memory. With `-e` jumps back may loop for ever; words are finite, so the
state space is. *Simulator*: the same widths and memory; every file of up to three lines over eight words (zero,
operands, an addition, a jump back, ecall, a store, a word that does not decode) and longer ones up to the size
of memory, among them the one behind which the five words of FLUSH.input just fit and the next; all
combinations of `-m` and `-v`, and for the longer files of `-m`, `-d`, `-p` and of missing files. With `-e` the
addresses wrap around, past the end of memory, and the run is followed all the way. *Decoding*: real widths; every branch distance, every I and S immediate, and jump distances
within 32 KB in steps of 2.

**Fairness.** Only `StopsWithoutExit` needs any: weak fairness of `SimNext`, the step of the whole program, as the program is one thread that never
waits (without `-i`), so the operating system runs it until it ends.

**What the comments promise and the code does not.** Eight runs expect a violation; `PROJECT.json` quotes, under
`findings`, the line that each contradicts. The rest says where the promise is kept. `riscv` leaves out srl, mulh, mulsu and stores with a
negative immediate, and the property `RtypeAsCommented` of `alu` says exactly when the first three differ from
their comments (`Departs`): srl and mulsu for a negative rs1, mulh when an operand is negative (emulator.c:90 and 104 cast an
unsigned register to `sDouble`, which does not extend its sign; the comments at lines 88 and 102 call the
operands signed). `StoreOffsetRecovered` says by how much a store is off (4096 bytes),
`NearJumpReachesLabel` where jumps are right: word-aligned, less than 2 KB. A remainder of the least integer by -1 kills
the program although the remainder exists: the same instruction as the division.

**What the pipeline does not do.** `simulator_ecall`: the loop of `main` with `-e` waits for an ecall at write-back, as the comment
at pipeline.c:304-314 says, but no instruction is passed on that far. `simulator_registers`: no result is, either; two
`addi` leave the registers as they were, where the reference traces of test_simulator_ms1.sh have them changed. `alu_control`: no case of
`gen_alu_control` before the assignment of the sum breaks, so that the comments of its cases (`// sub`, `// sll`) do not hold.
Three theorems say that these are no accidents of the instance: `ExitNeverReturns`, `SimulatorKeepsRegisters` and
`AddsWhateverTheInstructionHolds`. They explain the counterexamples and are no property that the program should have.
The rest passes: `PipelineAluAsCommented`: the codes as such are right, but for the high products. `PipelineBranchAsEmulated`: so are the
branches, but for blt and bge, which compare unsigned. `StagesHoldLines`: the lines go through in order; with `-m` and `-s`
together only FLUSH.input is simulated, and it has been loaded over the beginning of the program.

**Hazards without a property.** The uninitialised geometry (riscv.c:151), a missing input file (riscv.c:61) or FLUSH.input
(riscv.c:231), and a file that does not fit into memory (riscv.c:70) are modelled as behaviour that C does not define, which ends the
process (`status` = "undefined"); what would be right is said nowhere, so that no property calls it wrong. For `gen_forward`
(stage_helpers.h:442) see *Pipeline simulator*.

## 4. Proofs

Each theorem holds for every value of the constants that the named assumptions of the modules allow. A theorem
that needs more says so in its statement; these are the only such hypotheses:

| hypothesis | theorems | why |
|---|---|---|
| `MaxAccesses <= IntMax` | all about the cache but types and `EvictionFollowsPolicy` | after the int counters wrap, the order of the clocks is lost: run `cache_overflow` |
| `lfu \in {0, 1}` | `EvictionFollowsPolicy`, `ImplementsPolicyHolds` | any other value is no policy (cache.c:170, 179) |
| `lfu = 0` | `NewestSurvivesHolds`, `LargerIncludesSmallerHolds` | LFU may evict the newest block, and a larger LFU cache need not contain a smaller one |
| `Len(Flush) >= 4` | `FlushDrainsHolds` | a shorter FLUSH.input leaves lines in the pipeline |
| `MemorySpace < Pow2[WordBits]`, or `+ 12` | `ImplementsCommentsHolds`, `DumpReadsWholeLinesHolds` | an address behind memory must not wrap back into it; the program has 2^20 of 2^32 (types.h:46) |
| `immBits = 12`, `shamtBits = 5` | `PrintsWhatRunsHolds` | disasm.c has the constants of 12-bit immediates and 5-bit shift amounts in its tables (disasm.c:188, 225), the emulator's tables scale |
| `byteBits = 8`, `immBits = 12`, `Regs` = 0 .. 31 | `TableOfInstructions`, `AssembledComesBack` | words have 32 bits and the formats leave 12, 20 and 5 bits to immediates and registers |
| `[]~Departing` | `ImplementsCommentsHolds` | the next call of `execute_emu` is none that is known to depart from its comment |

**`BitsProofs`** proves, from well-foundedness of the naturals, that every non-empty set of naturals has a least
element, and induction over a set; with these, that the recursion of `Pow2` has a solution, and the types of the
shifts and masks.

**`CacheProofs`**, for every geometry and set of addresses. `TypeCorrect` needs no bound on accesses: counters wrap.
`EvictionFollowsPolicy`: the line that the scan picks ranks last, for every associativity, by induction over the
scan. The rest stands on the invariant of `LinesSound`: tags match blocks, no block is held twice, the clocks of a set are
distinct and not in the future. None of these is inductive alone: distinct clocks need that none is in the future,
and that needs a bound on the clock. `HitLine`, `MissLine` and `EvictLine` say what an access does to one line; from them

- `AccessMovesOneBlockHolds`: an access leaves its block resident, and what left the set is what it reports;
- `NewestSurvivesHolds`: the invariant `NewestStamped` adds that the last block accessed has the clock of its set, so
  that under LRU another line is older;
- `StatisticsAddUpHolds`: the sum over the sets is a recursive function, shown to have a solution (`SumsExist`) and to
  grow by one when one clock does (`OneClockAdvanced`);
- `ContentAfter` and `ContentStep`: an access seen from outside as a change of the set of blocks and of their ages;
- `ImplementsPolicyHolds`: each access is one step of `ReplacementPolicy`, which knows no clocks but a list of the blocks
  by recency and a count of their uses. The mapping takes the list from the clocks; because they are distinct there is
  only one (`ListsOnce`), and an access takes the line it writes out of it and puts it at the end (`ListAfter`, `BlocksAfter`). The
  line the scan picks is the victim of the policy, ties included (`VictimSeen`). With `UsesAfter` for the counts, a lemma for each of
  hit, fill and eviction (`HitSeen`, `FillSeen`, `ReplaceSeen`) gives the step.

**`InclusionProofs`** extends `CacheProofs` for the smaller cache and instantiates it for the larger one, and uses only `ContentStep`. Containment alone is not
inductive: an eviction from the larger set might take a block that the smaller one keeps. `Includes` adds that the
blocks both hold have the same age, and that what the smaller set lacks is older than all it holds and is missing
only if it is full. So the least recent block of the larger set is in the smaller one only if it is the
least recent there too.

**`AluProofs` and `CheckProofs`**: the properties of the run `alu`, for words of every width and all operands. The
comments are relations over integers (`IsaReference`), so that each instruction has an argument of its own: sums
differ by a multiple of 2^n, a high product fits into a word, shifts count modulo the width, truncated division
against its defining relation, bitwise operations by `BitOfFromBits` (the sum of powers of a set has exactly these bits).
The two theorems about the pipeline's ALU and branches are by cases on the code.
The formats are split bit by bit: `Splits` says which number is above, and which below, a bit of a word, so that
`CommonFields`, `FieldsOfR`, `FieldsOfI` and `FieldsOfU` find the fields of every word that an assembler makes. With these
`BranchOffset`, `StoreOffset` and `JumpOffset` hold for every distance, register and function code, where the walk of `DecodeCheck` ties
the registers to the field; its invariants follow. `JumpOffset` says of all words that 21 bits reach which a jal finds: those
within 2 KB and no other. `JumpBits` gives the sum that `get_jump_offset` makes of the parts of the offset, and the two mistakes in it cancel
exactly when bits 11 to 20 are equal. `AddsWhateverTheInstructionHolds` shows the last assignment of the
switches of `gen_alu_control`, which have no breaks, to be the same whatever funct3 and funct7 are.

The disassembler: `RtypeTables`, `CodeTables` and `ItypeTables` compare its tables with the emulator's, for every function code and
every immediate (the shifts are told apart by constants there and by a width here), `MnemonicsOfOne` says which names the lines
of a table look-up have. `PrintsWhatRunsHolds` follows by opcode.

The decoder under the emulator: module `Emulator` assumes (`MachineAssumption`) that `InstructionOf` yields instructions and does not accept
the word 0. `TableOfInstructions` proves this of `InstructionTable`, which is the decoder itself, for every 32-bit
word, so that what is proved of every `InstructionOf` holds of the program's. `AssembledComesBack` says that the table has every
instruction that it should have, at its word, with the exception of jumps beyond 2 KB, for every one of which it has another.

**`RiscvProofs`**. `ProgramIsFetched`: the invariant says byte by byte what the loaded lines left in memory; a later line is
stored behind them. `LoadWord` unrolls the sum of `load`, `BytesMakeWord` puts a word together from its bytes.
`TypeOKHolds`, the types of the emulator and driver (those of the whole program are `SimTypeOKHolds`): handler by handler, each value written is a word (`RtypeIsWord`, `ItypeIsWord`, `LoadType`) and R[0] is reset.
`DumpReadsWholeLinesHolds`: the largest element read is the last of the last line. `EmulatorRunsDown`: without `-e` every step of `main` lowers
`StepsLeft`, which counts the lines to load, the set-up, the calls of `execute_emu` that the count of lines still allows, and the
return; it never is more than `2 * Len(file) + 2`. That is the safety half of `StopsWithoutExit`, and needs no fairness: no run without `-e`
makes more steps, whatever the program does. `SimulatorRunsDown` (`SimulatorProofs`) has the same for the phases of a run with `-s`.

**`EmulatorProofs`** proves the refinement of `RiscvIsa`, for every program: `Answers(i)` says what the comments allow a
call that reached instruction i to do, to *all* registers, memory and PC, and a lemma for each handler proves it. Below that
are the lemmas of `AluProofs` for the values, `LoadReads`, `ReadsOnce` and `StoreReads` for memory (the bytes are the digits
of the number that `load` adds up, and of no other), and `AccessesFit` (an access is in bounds for the code, which
looks at wrapped addresses, exactly if it is for the comments). `FetchesSame`: the instruction the comments fetch is
the one decoded. `StepRefines` adds `main`: what it does while it loads, and that it may return at any time.
What the comments say ends with the emulator: the machine of `RiscvIsa` is "off" from then on, whatever the simulator does with the registers.
The hypothesis `[]~Departing` is true in the run `riscv`; `riscv_srl` and `riscv_store` show that it is needed.

**`SimulatorProofs`** has two invariants. `DeadEnd`: from EXMEM on, the number of the register to write and both values for it
are zero, the instruction in MEMWB is zero, and R[0] is zero; so `ExitNeverReturns` and
`SimulatorKeepsRegisters`. R[0] is needed because write-back writes to x0 in every cycle; it is zero when the simulator
starts because every instruction of the emulator resets it. `FlowInv` (`LinesFlow`): which lines lie in memory from
`StartAddress` on in each phase of `main`, what one loop hands over to the next, and that the pipeline registers hold the last
lines fetched. The program and FLUSH.input are one sequence of lines; the flush is laid exactly where the next fetch
goes. From it `StagesHoldLinesHolds`, `NoFetchPastMemoryHolds`, `FlushSparesProgramHolds` and `FlushDrainsHolds`.

**Model-checked only.** The liveness property `StopsWithoutExit`: liveness under fairness is out of the prover's reach. What is
proved of it is the bound on the number of steps above; that a run which has not ended can take a step, and that fairness
makes it do so, TLC checks. `LineAssemblesBack` compares tables with their inverses, at the real widths, so that the run is nearly exhaustive (all
codes and fields, but registers tied to the field). `LfuImplementsPolicy` and
`LfuEvictsByPolicy` are instances of theorems of `CacheProofs`. Every other property of a passing run is a theorem.

## 5. Not modelled

- The pipeline's data path where the source does not say what it is (the operand that `alu_src` would select,
  pipeline.c:118; the access of the memory stage): no state depends on it, see *Pipeline simulator* above. For the same
  reason there is no refinement from the pipeline to the emulator: the simulator of this commit executes nothing.
- The loop of `getopt` (riscv.c:106-148): what it leaves in `optind` is up to the library, which permutes its
  arguments; the options come into the model parsed. `-c` and `-f` set flags that nothing reads.
- `deallocate`, which frees the cache at the end of `main`; the crash handler (dogfault.h) and the build rules; the
  test scripts, which compare printed traces with references.
- Output, except the lines of the disassembler; the counters of the simulator, which are only printed.

## 6. Plan

Done: every part above is modelled and checked, and the safety properties of the passing runs are proved, but for those named above. What could follow when
the code does: the pipeline's data path, hazards and cache accesses once pipeline.c compiles, with a refinement from the
pipeline to the emulator.
