------------------------------ MODULE MCRiscv -------------------------------
(***************************************************************************)
(* Programs for the emulator: a repertoire of instructions, of which a     *)
(* word is the number, and small families of files made of it.             *)
(***************************************************************************)
EXTENDS RiscvRefinement, TLC

\* x10 and x11 are the operands, x1 the result.
Rtype(rd, funct3, funct7) ==
    [opcode |-> "0x33", rd |-> rd, funct3 |-> funct3, rs1 |-> 10, rs2 |-> 11,
     funct7 |-> funct7]
Itype(rd, funct3, rs1, imm) ==
    [opcode |-> "0x13", rd |-> rd, funct3 |-> funct3, rs1 |-> rs1, imm |-> imm]
Load(funct3, rs1, imm) ==
    [opcode |-> "0x03", rd |-> 1, funct3 |-> funct3, rs1 |-> rs1, imm |-> imm]
Store(funct3, rs1, rs2, imm) ==
    [opcode |-> "0x23", funct3 |-> funct3, rs1 |-> rs1, rs2 |-> rs2, imm |-> imm]
Branch(funct3, imm) ==
    [opcode |-> "0x63", funct3 |-> funct3, rs1 |-> 10, rs2 |-> 11, imm |-> imm]
Jal(rd, imm) == [opcode |-> "0x6F", rd |-> rd, imm |-> imm]
Lui(rd, imm) == [opcode |-> "0x37", rd |-> rd, imm |-> imm]
Ecall        == [opcode |-> "0x73"]

\* Immediates have 5 bits: 31 is -1 and 24 is -8.
FirstOperand  == <<Itype(10, 0, 0, 31), Itype(10, 0, 0, 1), Itype(10, 0, 0, 10),
                   Lui(10, 4), Itype(10, 6, 3, 5)>>
SecondOperand == <<Itype(11, 0, 0, 31), Itype(11, 0, 0, 0), Itype(11, 0, 0, 3),
                   Itype(11, 7, 2, 24), Itype(0, 0, 2, 7)>>

Arithmetic ==
    [k \in 0 .. 7 |-> Rtype(1, k, 0)]           \* add sll slt sltu xor srl or and
    @@ [k \in 8 .. 15 |-> Rtype(1, k - 8, 1)]   \* mul mulh mulsu mulu div divu rem remu
    @@ 16 :> Rtype(1, 0, 32) @@ 17 :> Rtype(1, 5, 32)       \* sub sra
    @@ 18 :> Rtype(0, 0, 0)  @@ 19 :> Rtype(1, 7, 5)        \* to x0; invalid
    @@ [k \in 20 .. 27 |-> Itype(1, k - 20, 10, 3)]
    @@ [k \in 28 .. 35 |-> Itype(1, k - 28, 10, 27)]        \* -5; invalid shifts
    @@ 36 :> Itype(10, 5, 10, 10) @@ 37 :> Lui(1, 7)        \* srai

Memory ==
    [k \in 0 .. 5 |-> Load(k, 3, 2)]            \* lb lh lw (invalid) lbu lhu
    @@ 6 :> Load(2, 3, 30) @@ 7 :> Load(0, 10, 3) @@ 8 :> Load(2, 2, 3)
    @@ [k \in 9 .. 12 |-> Store(k - 9, 3, 10, 1)]           \* sb sh sw (invalid)
    @@ 13 :> Store(2, 0, 11, 12)                \* over the next instruction
    @@ 14 :> Store(1, 10, 11, 9) @@ 15 :> Store(2, 2, 11, 1)
    @@ 16 :> Store(2, 3, 1, 4)                  \* the result

Control ==
    [k \in 0 .. 7 |-> Branch(k, 8)]             \* beq bne (2 invalid) blt bge bltu bgeu
    @@ [k \in 8 .. 11 |-> Branch(k - 4, -8)]
    @@ 12 :> Jal(1, 8) @@ 13 :> Jal(0, -8) @@ 14 :> Jal(10, -2)
    @@ 15 :> Ecall     @@ 16 :> Jal(0, -16)     \* below address 0

\* The repertoire, at words 1, 2, ...; the groups start at these words.
First   == 1
Second  == First + 5
Ops     == Second + 5
Mems    == Ops + 38
Ctrls   == Mems + 17
Last    == Ctrls + 17
Negative == Last                                \* a store below its base

MCInstructionOf ==
    [w \in First .. Last |->
        CASE w < Second -> FirstOperand[w]
          [] w >= Second /\ w < Ops -> SecondOperand[w - Second + 1]
          [] w >= Ops /\ w < Mems   -> Arithmetic[w - Ops]
          [] w >= Mems /\ w < Ctrls -> Memory[w - Mems]
          [] w >= Ctrls /\ w < Last -> Control[w - Ctrls]
          [] w = Last               -> Store(2, 3, 11, 28)]

FirstWords  == First .. Second - 1
SecondWords == Second .. Ops - 1

\* srl, and the high products of signed operands, are left to their own runs.
Divergent == {Ops + 5, Ops + 9, Ops + 10}

\* Two operands, an instruction, and one that comes after it.
Tested(Words, After) ==
    {<<a, b, w, t>> : a \in FirstWords, b \in SecondWords, w \in Words, t \in After}

\* A store of the result, jal back, a system call.
After == {Mems + 16, Ctrls + 13, Ctrls + 15}

\* Files that end early, that memory cannot hold and that do not decode.
OddFiles ==
    {<<>>, <<First>>, <<Second, 200, First>>, <<First, 0, Second>>,
     [k \in 1 .. 16 |-> First]}

\* No dump; dumps that end within memory, at its end and behind it.
Dumps == {<<>>, <<0, 16>>, <<16, 64>>, <<16, 60>>, <<52, 56>>, <<40, 60>>, <<8, 4>>}

Plain == [readable |-> TRUE, exit |-> FALSE, disasm |-> FALSE, init_reg |-> FALSE,
          mulator |-> TRUE, sim |-> FALSE, flush |-> TRUE, dump |-> <<>>]

\* Whether -e, -d, -v are given and the file can be opened.
Chosen == {[Plain EXCEPT !.readable = r, !.exit = e, !.disasm = d, !.init_reg = v] :
              r \in BOOLEAN, e \in BOOLEAN, d \in BOOLEAN, v \in BOOLEAN}

Running(files, options) == {[file |-> f, opt |-> o] : f \in files, o \in options}

Endless == [Plain EXCEPT !.exit = TRUE, !.init_reg = TRUE]

MCCommands ==
    Running(Tested((Ops .. Last - 1) \ Divergent, After), {Endless})
    \cup Running(OddFiles \cup Tested({Ops, Ctrls + 13, Ctrls + 3}, {Ctrls + 13}), Chosen)
    \cup Running(OddFiles, {[Plain EXCEPT !.dump = d, !.mulator = m] :
                               d \in Dumps, m \in BOOLEAN})

MCSrlCommands   == Running(Tested({Ops + 5}, {Ctrls + 15}), {Plain})
MCStoreCommands == Running(Tested({Negative}, {Ctrls + 15}), {Plain})

=============================================================================
