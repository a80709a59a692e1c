---------------------------- MODULE IsaReference ----------------------------
(***************************************************************************)
(* What the comments of emulator.c say each instruction does, as relations *)
(* between operands and result over the integers a register stands for,    *)
(* with no reference to how the code computes it.  U is the unsigned       *)
(* reading of a register (the register itself), S the signed one.          *)
(***************************************************************************)
EXTENDS Integers

CONSTANTS N,        \* bits of a register
          Exp       \* Exp[n] is 2^n, for n in 0 .. N

S(a) == IF a >= Exp[N - 1] THEN a - Exp[N] ELSE a

\* The bit i of a, for i in 0 .. N - 1.
Bit(a, i) == (a \div Exp[i]) % 2

\* d is x in a register, the bits above cut off.
Holds(d, x) == (d - x) % Exp[N] = 0

\* d is the truth value of p.
Tells(d, p) == d = IF p THEN 1 ELSE 0

Magnitude(x) == IF x < 0 THEN -x ELSE x

\* x = q * y + r, with the remainder no larger than y and never against x.
Divides(x, y, q, r) ==
    /\ x = q * y + r
    /\ Magnitude(r) < Magnitude(y)
    /\ (r > 0 => x > 0) /\ (r < 0 => x < 0)

\* The quotient of x and y is the integer q, or the remainder is r.
IsQuotient(x, y, q)  == Divides(x, y, q, x - q * y)
IsRemainder(x, y, r) == /\ (x - r) % Magnitude(y) = 0
                        /\ Magnitude(r) < Magnitude(y)
                        /\ (r > 0 => x > 0) /\ (r < 0 => x < 0)

\* The instruction called name may write d for operands a and b, where b is a
\* register or an immediate in a register.
Computes(name, a, b, d) ==
    LET shift == Exp[b % N] IN
    CASE name = "add"   -> Holds(d, S(a) + S(b))
      [] name = "sub"   -> Holds(d, S(a) - S(b))
      [] name = "mul"   -> Holds(d, S(a) * S(b))
      [] name = "mulh"  -> S(d) = (S(a) * S(b)) \div Exp[N]
      [] name = "mulsu" -> S(d) = (S(a) * b) \div Exp[N]
      [] name = "mulu"  -> d = (a * b) \div Exp[N]
      [] name = "sll"   -> Holds(d, a * shift)
      [] name = "srl"   -> d = a \div shift
      [] name = "sra"   -> S(d) = S(a) \div shift
      [] name = "slt"   -> Tells(d, S(a) < S(b))
      [] name = "sltu"  -> Tells(d, a < b)
      [] name = "xor"   -> \A i \in 0 .. N - 1 : Bit(d, i) = 1 <=> Bit(a, i) # Bit(b, i)
      [] name = "or"    -> \A i \in 0 .. N - 1 : Bit(d, i) = 1 <=> 1 \in {Bit(a, i), Bit(b, i)}
      [] name = "and"   -> \A i \in 0 .. N - 1 : Bit(d, i) = 1 <=> {1} = {Bit(a, i), Bit(b, i)}
      [] name = "div"   -> IsQuotient(S(a), S(b), S(d))
      [] name = "divu"  -> IsQuotient(a, b, d)
      [] name = "rem"   -> IsRemainder(S(a), S(b), S(d))
      [] name = "remu"  -> IsRemainder(a, b, d)

\* The R-type instruction an I-type one is the immediate form of.
Plain(name) ==
    CASE name = "addi" -> "add"  [] name = "slli" -> "sll" [] name = "slti" -> "slt"
      [] name = "xori" -> "xor"  [] name = "srli" -> "srl" [] name = "srai" -> "sra"
      [] name = "ori"  -> "or"   [] name = "andi" -> "and" [] name = "sltiu" -> "sltu"

Decides(name, a, b) ==
    CASE name = "beq"  -> a = b
      [] name = "bne"  -> a # b
      [] name = "blt"  -> S(a) < S(b)
      [] name = "bge"  -> S(a) >= S(b)
      [] name = "bltu" -> a < b
      [] name = "bgeu" -> a >= b

=============================================================================
