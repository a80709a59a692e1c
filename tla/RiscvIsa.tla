------------------------------ MODULE RiscvIsa ------------------------------
(***************************************************************************)
(* The machine a program sees, from the comments of emulator.c: registers, *)
(* a byte-addressed memory and the effect of one instruction at a time.    *)
(* It says what an instruction does to all that it touches, and, with      *)
(* IsaReference, what it computes; not how.  A write to register 0 is      *)
(* discarded.  The machine may fail only at an instruction that has no     *)
(* effect to promise: an unknown one, an access that leaves memory, a      *)
(* division without a quotient.  It may be switched off at any time, and   *)
(* then nothing is said of it any more.                                    *)
(***************************************************************************)
EXTENDS IsaReference, Functions

CONSTANTS Regs, ByteBits, ImmBits, MemorySpace, InstructionOf,
          Name(_)   \* the mnemonic of an instruction, or "invalid"

VARIABLES state,    \* "loading", "running", "off", "exited" or "failed"
          regs, pc, mem

vars == <<state, regs, pc, mem>>

Bytes == 0 .. MemorySpace - 1
Words == 0 .. Exp[N] - 1

\* x in a register.
InWord(x) == x % Exp[N]

SignExtended(imm) == IF imm >= Exp[ImmBits - 1] THEN imm - Exp[ImmBits] ELSE imm

\* v is the little-endian number in the n bytes of m from a on.
Reads(m, a, n, v) ==
    \A k \in 0 .. n - 1 :
        m[a + k] = (v \div Exp[ByteBits * k]) % Exp[ByteBits]

FitsIn(a, n) == a >= 0 /\ a + n <= MemorySpace

\* The width of a load or a store, by the low bits of its funct3.
Width(funct3) == CASE funct3 % 4 = 0 -> 1 [] funct3 % 4 = 1 -> 2 [] funct3 % 4 = 2 -> 4

-----------------------------------------------------------------------------
\* The registers after d went to rd.
WriteTo(rd, d) == regs' = IF rd = 0 THEN regs ELSE [regs EXCEPT ![rd] = d]

Goto(target) == pc' = InWord(target)

Rtype(i, name) ==
    /\ \E d \in Words :
          Computes(name, regs[i.rs1], regs[i.rs2], d) /\ WriteTo(i.rd, d)
    /\ Goto(pc + 4) /\ UNCHANGED mem

Itype(i, name) ==
    LET operand == IF name \in {"sltiu", "slli", "srli", "srai"}
                   THEN i.imm ELSE InWord(SignExtended(i.imm))
    IN  /\ \E d \in Words :
              Computes(Plain(name), regs[i.rs1], operand, d) /\ WriteTo(i.rd, d)
        /\ Goto(pc + 4) /\ UNCHANGED mem

Branch(i, name) ==
    /\ Goto(pc + IF Decides(name, regs[i.rs1], regs[i.rs2]) THEN i.imm ELSE 4)
    /\ UNCHANGED <<regs, mem>>

LoadNames == {"lb", "lh", "lw", "lbu", "lhu"}
StoreNames == {"sb", "sh", "sw"}

Address(i) == InWord(regs[i.rs1] + SignExtended(i.imm))

\* A load extends the sign of what it read, unless its funct3 is 4 or 5.
Load(i) ==
    LET n    == Width(i.funct3)
        bits == ByteBits * n
    IN  /\ \E v \in 0 .. Exp[bits] - 1 :
              /\ Reads(mem, Address(i), n, v)
              /\ WriteTo(i.rd, IF i.funct3 >= 4 \/ v < Exp[bits - 1]
                               THEN v ELSE InWord(v - Exp[bits]))
        /\ Goto(pc + 4) /\ UNCHANGED mem

\* A store changes the bytes it names and no other.
Store(i) ==
    LET n      == Width(i.funct3)
        Others == Bytes \ (Address(i) .. Address(i) + n - 1)
    IN  /\ Reads(mem', Address(i), n, regs[i.rs2] % Exp[ByteBits * n])
        /\ Restrict(mem', Others) = Restrict(mem, Others)
        /\ Goto(pc + 4) /\ UNCHANGED regs

Jal(i) == WriteTo(i.rd, InWord(pc + 4)) /\ Goto(pc + i.imm) /\ UNCHANGED mem

Lui(i) == WriteTo(i.rd, InWord(i.imm * Exp[ImmBits])) /\ Goto(pc + 4) /\ UNCHANGED mem

\* A system call that prints.
Ecall == Goto(pc + 4) /\ UNCHANGED <<regs, mem>>

-----------------------------------------------------------------------------
\* The instructions at pc: one, or none.
Fetched ==
    {InstructionOf[w] : w \in {v \in DOMAIN InstructionOf :
                                  FitsIn(pc, 4) /\ Reads(mem, pc, 4, v)}}

\* Instruction i has an effect that the comments describe.
Defined(i) ==
    LET a == regs[i.rs1]
        b == regs[i.rs2]
    IN  CASE Name(i) = "invalid"                     -> FALSE
          [] Name(i) = "ecall"                       -> regs[10] \in {1, 4, 11}
          [] Name(i) \in LoadNames \cup StoreNames   -> FitsIn(Address(i), Width(i.funct3))
          [] Name(i) \in {"div", "rem"}              ->
                \E q \in Words : b # 0 /\ IsQuotient(S(a), S(b), S(q))
          [] Name(i) \in {"divu", "remu"}            -> b # 0
          [] OTHER                                   -> TRUE

\* The system call that ends the program.
Exits(i) == Name(i) = "ecall" /\ regs[10] = 10

\* No comment speaks of a load of unknown width; the program goes on after it.
Skipped(i) == i.opcode = "0x03" /\ Name(i) = "invalid"

Effect(i) ==
    CASE i.opcode = "0x33" -> Rtype(i, Name(i))
      [] i.opcode = "0x13" -> Itype(i, Name(i))
      [] i.opcode = "0x63" -> Branch(i, Name(i))
      [] i.opcode = "0x03" -> Load(i)
      [] i.opcode = "0x23" -> Store(i)
      [] i.opcode = "0x6F" -> Jal(i)
      [] i.opcode = "0x37" -> Lui(i)
      [] i.opcode = "0x73" -> Ecall

Init == state = "loading"

Loading == state = "loading" /\ state' \in {"loading", "off", "failed"}

Start == state = "loading" /\ state' = "running" /\ regs'[0] = 0

Step ==
    /\ state = "running" /\ UNCHANGED state
    /\ \E i \in Fetched :
          \/ Defined(i) /\ Effect(i)
          \/ Skipped(i) /\ Goto(pc + 4) /\ UNCHANGED <<regs, mem>>

Exit ==
    /\ state = "running" /\ state' = "exited"
    /\ \E i \in Fetched : Exits(i)
    /\ UNCHANGED <<regs, pc, mem>>

Fail ==
    /\ state = "running" /\ state' = "failed"
    /\ \A i \in Fetched : ~Defined(i) /\ ~Skipped(i) /\ ~Exits(i)
    /\ UNCHANGED <<regs, pc, mem>>

SwitchOff == state = "running" /\ state' = "off" /\ UNCHANGED <<regs, pc, mem>>

Off == state = "off" /\ state' = "off"

Next == Loading \/ Start \/ Step \/ Exit \/ Fail \/ SwitchOff \/ Off

Spec == Init /\ [][Next]_vars

=============================================================================
