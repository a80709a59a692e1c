---------------------------- MODULE MCSimulator -----------------------------
(***************************************************************************)
(* Files and options for the whole program: those of module MCRiscv for    *)
(* the emulator, others for the simulator.  The words are those of module  *)
(* MCRiscv, and one more for the instruction of FLUSH.input.               *)
(***************************************************************************)
EXTENDS Simulator, MCRiscv

MCNop        == Last + 1
MCFlush      == [k \in 1 .. 5 |-> MCNop]
MCEcallBits  == Ctrls + 15
MCGarbage    == {0, 200}
Decoded      == MCInstructionOf @@ MCNop :> Itype(0, 0, 0, 0)

\* The third operand puts 10 into x10, with which ecall is exit.
Lines == {0, First + 2, Second + 1, Ops, Ctrls + 13, Ctrls + 15, Mems + 16, 200}

Short == UNION {[1 .. n -> Lines] : n \in 0 .. 3}

\* After the longest of these but one the flush just fits into memory.
Long == {[k \in 1 .. n |-> First + (k % 4)] : n \in {4, 5, 6, 9, 10, 11, 15}}

Simulated == [Plain EXCEPT !.sim = TRUE, !.mulator = FALSE]

SimOptions ==
    {[Simulated EXCEPT !.mulator = m, !.init_reg = v] : m \in BOOLEAN, v \in BOOLEAN}

OddOptions ==
    {[Simulated EXCEPT !.mulator = m, !.readable = r, !.disasm = d, !.flush = f, !.dump = p] :
        m \in BOOLEAN, r \in BOOLEAN, d \in BOOLEAN, f \in BOOLEAN, p \in {<<>>, <<52, 60>>}}

MCSimCommands ==
    Running(Short \cup Long, SimOptions)
    \cup Running(Long, OddOptions)
    \cup Running({<<>>, <<First + 2, MCEcallBits>>},
              {[Simulated EXCEPT !.exit = TRUE, !.disasm = d] : d \in BOOLEAN})
    \cup Running({<<>>, <<First + 2, MCEcallBits>>, <<First>>},
              {[Plain EXCEPT !.sim = s] : s \in BOOLEAN})
    \cup Running({<<Ctrls + 13>>}, {[Plain EXCEPT !.sim = TRUE, !.exit = TRUE]})

\* The emulator alone, and the simulator.
MCAllCommands == MCCommands \cup MCSimCommands

\* The 10 in x10 and the ecall behind it, with -e.
MCEcallCommands ==
    Running({<<First + 2, MCEcallBits>>}, {[Simulated EXCEPT !.exit = TRUE]})

\* Two constants, for x10 and x11.
MCConstantCommands == Running({<<First + 1, Second + 2>>}, {Simulated})

=============================================================================
