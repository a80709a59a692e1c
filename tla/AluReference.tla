---------------------------- MODULE AluReference ----------------------------
(***************************************************************************)
(* The comments of emulator.c (IsaReference) at the widths of module Alu.  *)
(***************************************************************************)
EXTENDS Alu

Ref == INSTANCE IsaReference WITH N <- WordBits, Exp <- Pow2

\* The operands for which an R-type instruction does not do what its comment
\* says: those that the comment calls signed, where they are negative.
Departs(name, a, b) ==
    \/ name \in {"srl", "mulh", "mulsu"} /\ SInt(a) < 0
    \/ name = "mulh" /\ SInt(b) < 0

=============================================================================
