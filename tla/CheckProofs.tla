----------------------------- MODULE CheckProofs -----------------------------
(***************************************************************************)
(* Theorems about modules AluCheck and DecodeCheck.  What the run of       *)
(* AluCheck checks for narrow words holds for every width that             *)
(* WidthAssumption allows, the program's among them; what the walk of      *)
(* DecodeCheck shows of the words that it makes holds of every word that   *)
(* an assembler makes, and the table of module InstructionWords is one     *)
(* that the machine of module Emulator may take.                           *)
(***************************************************************************)
EXTENDS AluCheck, DecodeCheck, InstructionWords, AluProofs

-----------------------------------------------------------------------------
(* The operands of the walk are words. *)
Operands == a \in Word /\ b \in Word

LEMMA OperandsHold == Spec => []Operands
<1>1. Init => Operands
  BY WordWidth DEF Init, Operands
<1>2. Operands /\ [Next]_vars => Operands'
  BY WordWidth DEF Operands, Next, NextA, NextB, vars, Word
<1> QED BY <1>1, <1>2, PTL DEF Spec

-----------------------------------------------------------------------------
(***************************************************************************)
(* The invariants of AluCheck.                                             *)
(***************************************************************************)

(* Every R-type instruction of the emulator computes the word its comment     *)
(* describes, but for srl and the signed high products of negative operands.  *)
THEOREM RtypeAsCommentedHolds == Spec => []RtypeAsCommented
<1>1. Operands => RtypeAsCommented
  BY RtypeComputed DEF Operands, RtypeAsCommented, Rtypes
<1> QED BY <1>1, OperandsHold, PTL

(* A division faults only if no word is its quotient. *)
THEOREM FaultsOnlyWithoutQuotientHolds == Spec => []FaultsOnlyWithoutQuotient
<1>1. Operands => FaultsOnlyWithoutQuotient
  BY NoQuotient DEF Operands, FaultsOnlyWithoutQuotient
<1> QED BY <1>1, OperandsHold, PTL

(* Every immediate form computes what its register form does on the immediate *)
(* that it extends.                                                           *)
THEOREM ItypeAsCommentedHolds == Spec => []ItypeAsCommented
<1>1. Operands => ItypeAsCommented
  <2>1. b \in Word => LowBits(b, immBits) \in Immediates
    <3>1. immBits \in ShiftCount /\ (b \in Word => b \in Nat)
      BY WidthAssumption, WordWidth DEF ShiftCount, Word
    <3> QED BY <3>1, LowBitsType DEF Immediates
  <2> QED BY <2>1, ItypeComputed DEF Operands, ItypeAsCommented
<1> QED BY <1>1, OperandsHold, PTL

(* The six branch conditions compare as their comments say, and form three    *)
(* pairs of opposites.                                                        *)
THEOREM BranchAsCommentedHolds == Spec => []BranchAsCommented
<1>1. Operands => BranchAsCommented
  <2> SUFFICES ASSUME a \in Word, b \in Word, NEW f \in {0, 4, 6}
               PROVE  /\ branch_taken(BranchName[f], a, b) <=> Ref!Decides(BranchName[f], a, b)
                      /\ branch_taken(BranchName[f], a, b) # branch_taken(BranchName[f + 1], a, b)
    BY DEF Operands, BranchAsCommented
  <2>1. /\ BranchName[0] = "beq" /\ BranchName[1] = "bne" /\ BranchName[4] = "blt"
        /\ BranchName[5] = "bge" /\ BranchName[6] = "bltu" /\ BranchName[7] = "bgeu"
    BY DEF BranchName
  <2>2. /\ a \in Int /\ b \in Int /\ SInt(a) \in Int /\ SInt(b) \in Int
        /\ Ref!S(a) = SInt(a) /\ Ref!S(b) = SInt(b)
    BY Casts
  <2>3. CASE f = 0
    BY <2>1, <2>3 DEF branch_taken, Ref!Decides
  <2>4. CASE f = 4
    BY <2>1, <2>2, <2>4 DEF branch_taken, Ref!Decides
  <2>5. CASE f = 6
    BY <2>1, <2>2, <2>5 DEF branch_taken, Ref!Decides
  <2> QED BY <2>3, <2>4, <2>5
<1> QED BY <1>1, OperandsHold, PTL

(* sign_extend_number returns a number of n bits with the n bits of the field. *)
THEOREM SignExtensionKeepsFieldHolds == Spec => []SignExtensionKeepsField
<1>1. Operands => SignExtensionKeepsField
  <2> SUFFICES ASSUME a \in Word, NEW n \in 1 .. WordBits
               PROVE  /\ LowBits(Wrap(sign_extend_number(a, n)), n) = LowBits(a, n)
                      /\ sign_extend_number(a, n) \in -Pow2[n - 1] .. Pow2[n - 1] - 1
    BY DEF Operands, SignExtensionKeepsField
  <2> DEFINE f == LowBits(a, n)
             x == sign_extend_number(a, n)
             p == Pow2[n]
  <2>1. /\ n \in 1 .. 63 /\ n \in ShiftCount /\ n - 1 \in ShiftCount
        /\ n # 0 /\ WordBits - n \in ShiftCount /\ n + (WordBits - n) = WordBits
    BY WordWidth DEF ShiftCount
  <2>2. /\ p \in Nat \ {0} /\ Pow2[n - 1] \in Nat \ {0} /\ p = 2 * Pow2[n - 1]
        /\ f \in 0 .. p - 1
    BY <2>1, Pow2Facts, LowBitsType, Casts
  <2>3. x \in -Pow2[n - 1] .. Pow2[n - 1] - 1 /\ x \in {f, f - p}
    <3>1. Signed(f, n) \in -Pow2[n - 1] .. Pow2[n - 1] - 1
      <4> HIDE DEF f
      <4> QED BY <2>1, <2>2, SignedRange
    <3>2. x = Signed(f, n) /\ Signed(f, n) \in {f, f - p}
      BY DEF sign_extend_number, Signed
    <3> QED BY <3>1, <3>2
  <2>4. x \in -Pow2[WordBits - 1] .. Pow2[WordBits - 1] - 1
    <3>1. n - 1 <= WordBits - 1
      BY <2>1, WordWidth
    <3>2. Pow2[n - 1] <= Pow2[WordBits - 1]
      BY <2>1, <3>1, WordWidth, Pow2Grows
    <3> HIDE DEF x, f
    <3> QED BY <2>2, <2>3, <3>2, WordWidth
  <2>5. Wrap(x) = IF x < 0 THEN x + Pow2[WordBits] ELSE x
    BY <2>4, CastBack
  <2> DEFINE k == Pow2[WordBits - n]
  <2>6. Pow2[WordBits] = p * k /\ k \in Nat \ {0}
    <3>1. Pow2[n + (WordBits - n)] = p * k
      BY <2>1, WordWidth, Pow2Sum
    <3>2. k \in Nat \ {0}
      BY <2>1, Pow2Facts
    <3> QED BY <2>1, <3>1, <3>2
  <2> HIDE DEF f, x, p, k
  <2>7. Wrap(x) = f \/ Wrap(x) = f + p * (k - 1)
    <3>1. p * (k - 1) = p * k - p
      BY <2>2, <2>6
    <3>2. p * k \in Nat
      BY <2>2, <2>6
    <3>3. CASE x = f
      BY <2>2, <2>5, <3>3
    <3>4. CASE x = f - p
      BY <2>2, <2>5, <2>6, <3>1, <3>2, <3>4
    <3> QED BY <2>3, <3>3, <3>4
  <2>8. ASSUME NEW m \in Nat \ {0}, NEW c \in Nat, NEW v \in 0 .. m - 1, NEW u \in Int,
               u = v + m * c
        PROVE  u % m = v
    BY <2>8
  <2>9. Wrap(x) % p = f
    <3>1. k - 1 \in Nat /\ 0 \in Nat /\ f = f + p * 0 /\ f + p * (k - 1) \in Int /\ f \in Int
      BY <2>2, <2>6
    <3>2. f % p = f
      BY <2>2
    <3>3. (f + p * (k - 1)) % p = f
      <4> DEFINE c == k - 1
                 u == f + p * c
      <4>1. c \in Nat /\ u \in Int /\ u = f + p * c
        BY <3>1
      <4> HIDE DEF c, u
      <4>2. u % p = f
        BY <2>2, <2>8, <4>1
      <4> QED BY <4>2 DEF c, u
    <3> QED BY <2>7, <3>2, <3>3
  <2>10. LowBits(Wrap(x), n) = f
    BY <2>9 DEF LowBits, p
  <2> QED BY <2>3, <2>10 DEF f, x
<1> QED BY <1>1, OperandsHold, PTL

(* The pipeline decides every branch as the emulator does, except blt and bge *)
(* of registers whose signs differ.                                           *)
THEOREM PipelineBranchAsEmulatedHolds == Spec => []PipelineBranchAsEmulated
<1>1. Operands => PipelineBranchAsEmulated
  <2> SUFFICES ASSUME a \in Word, b \in Word, NEW f \in DOMAIN BranchName
               PROVE  LET other == f \in {4, 5} /\ (SInt(a) < 0) # (SInt(b) < 0)
                      IN  gen_branch("0x63", f, a, b)
                             = (branch_taken(BranchName[f], a, b) # other)
    BY DEF Operands, PipelineBranchAsEmulated
  <2>1. /\ BranchName[0] = "beq" /\ BranchName[1] = "bne" /\ BranchName[4] = "blt"
        /\ BranchName[5] = "bge" /\ BranchName[6] = "bltu" /\ BranchName[7] = "bgeu"
        /\ f \in {0, 1, 4, 5, 6, 7}
    BY DEF BranchName
  <2>2. /\ a \in Nat /\ b \in Nat
        /\ SInt(a) = IF SInt(a) < 0 THEN a - Pow2[WordBits] ELSE a
        /\ SInt(b) = IF SInt(b) < 0 THEN b - Pow2[WordBits] ELSE b
        /\ SInt(a) < 0 <=> a >= Pow2[WordBits - 1]
        /\ SInt(b) < 0 <=> b >= Pow2[WordBits - 1]
        /\ SInt(a) \in Int /\ SInt(b) \in Int
    <3>1. ASSUME NEW x \in Word
          PROVE  SInt(x) = IF SInt(x) < 0 THEN x - Pow2[WordBits] ELSE x
      BY Casts, WordWidth DEF Word
    <3> QED BY <3>1, Casts
  <2> DEFINE g == gen_branch("0x63", f, a, b)
             t == branch_taken(BranchName[f], a, b)
             o == f \in {4, 5} /\ (SInt(a) < 0) # (SInt(b) < 0)
  <2>3. SInt(a) < SInt(b) <=> (a < b <=> (SInt(a) < 0 <=> SInt(b) < 0))
    BY <2>2, WordWidth
  <2>4. g <=> \/ f = 0 /\ a = b
              \/ f = 1 /\ a # b
              \/ f \in {4, 6} /\ a < b
              \/ f \in {5, 7} /\ ~(a < b)
    BY <2>2 DEF gen_branch
  <2>5. t <=> \/ f = 0 /\ a = b
              \/ f = 1 /\ a # b
              \/ f = 4 /\ SInt(a) < SInt(b)
              \/ f = 5 /\ ~(SInt(a) < SInt(b))
              \/ f = 6 /\ a < b
              \/ f = 7 /\ ~(a < b)
    <3>1. /\ branch_taken("beq", a, b) <=> a = b
          /\ branch_taken("bne", a, b) <=> a # b
          /\ branch_taken("blt", a, b) <=> SInt(a) < SInt(b)
          /\ branch_taken("bge", a, b) <=> ~(SInt(a) < SInt(b))
          /\ branch_taken("bltu", a, b) <=> a < b
          /\ branch_taken("bgeu", a, b) <=> ~(a < b)
      BY <2>2 DEF branch_taken
    <3>2. CASE f \in {0, 1}
      BY <2>1, <3>1, <3>2
    <3>3. CASE f \in {4, 5}
      BY <2>1, <3>1, <3>3
    <3>4. CASE f \in {6, 7}
      BY <2>1, <3>1, <3>4
    <3> QED BY <2>1, <3>2, <3>3, <3>4
  <2>6. o <=> f \in {4, 5} /\ ~(SInt(a) < 0 <=> SInt(b) < 0)
    OBVIOUS
  <2>7. g \in BOOLEAN /\ t \in BOOLEAN /\ o \in BOOLEAN
    <3>1. g \in BOOLEAN
      BY DEF gen_branch
    <3>2. t \in BOOLEAN
      <4>1. \A name \in {"beq", "bne", "blt", "bge", "bltu", "bgeu"} :
               branch_taken(name, a, b) \in BOOLEAN
        <5> SUFFICES ASSUME NEW name \in {"beq", "bne", "blt", "bge", "bltu", "bgeu"}
                     PROVE  branch_taken(name, a, b) \in BOOLEAN
          OBVIOUS
        <5>1. CASE name = "beq" \/ name = "bne"
          BY <5>1 DEF branch_taken
        <5>2. CASE name = "blt" \/ name = "bge"
          <6>1. (SInt(a) < SInt(b)) \in BOOLEAN /\ (SInt(a) >= SInt(b)) \in BOOLEAN
            BY <2>2
          <6>2. /\ branch_taken("blt", a, b) = (SInt(a) < SInt(b))
                /\ branch_taken("bge", a, b) = (SInt(a) >= SInt(b))
            BY <2>2 DEF branch_taken
          <6> QED BY <5>2, <6>1, <6>2, Zenon
        <5>3. CASE name = "bltu" \/ name = "bgeu"
          <6>1. (a < b) \in BOOLEAN /\ (a >= b) \in BOOLEAN
            BY <2>2
          <6>2. /\ branch_taken("bltu", a, b) = (a < b)
                /\ branch_taken("bgeu", a, b) = (a >= b)
            BY <2>2 DEF branch_taken
          <6> QED BY <5>3, <6>1, <6>2, Zenon
        <5> QED BY <5>1, <5>2, <5>3
      <4> QED BY <4>1, BranchNames
    <3> QED BY <3>1, <3>2
  <2> HIDE DEF g, t, o
  <2>8. g <=> ~(t <=> o)
    <3>1. CASE f \in {0, 1, 6, 7}
      BY <2>4, <2>5, <2>6, <3>1
    <3>2. CASE f \in {4, 5}
      BY <2>3, <2>4, <2>5, <2>6, <3>2
    <3> QED BY <2>1, <3>1, <3>2
  <2>9. g = (t # o)
    BY <2>7, <2>8
  <2> QED BY <2>9 DEF g, t, o
<1> QED BY <1>1, OperandsHold, PTL

-----------------------------------------------------------------------------
(* The instructions that the ALU control has a code for, each with its code. *)
Coded == {<<"add", 0>>, <<"sll", 7>>, <<"slt", 17>>, <<"sltu", 9>>, <<"xor", 6>>,
          <<"srl", 8>>, <<"or", 3>>, <<"and", 2>>, <<"mul", 12>>, <<"mulh", 11>>,
          <<"mulsu", 15>>, <<"mulu", 16>>, <<"divu", 5>>, <<"remu", 10>>,
          <<"sub", 1>>, <<"sra", 14>>, <<"div", 18>>, <<"rem", 19>>}

LEMMA Codes ==
  ASSUME NEW op \in DOMAIN RtypeCode \cap DOMAIN RtypeName
  PROVE  <<RtypeName[op], RtypeCode[op]>> \in Coded
<1>1. CASE op \in (0 .. 7) \X {0}
  <2>1. PICK k \in 0 .. 7 : op = <<k, 0>>
    BY <1>1
  <2>2. /\ RtypeName[op] = <<"add", "sll", "slt", "sltu", "xor", "srl", "or", "and">>[k + 1]
        /\ RtypeCode[op] = <<0, 7, 17, 9, 6, 8, 3, 2>>[k + 1]
    BY <2>1 DEF RtypeName, RtypeCode
  <2>3. CASE k \in 0 .. 3
    BY <2>2, <2>3 DEF Coded
  <2>4. CASE k \in 4 .. 7
    BY <2>2, <2>4 DEF Coded
  <2> QED BY <2>3, <2>4
<1>2. CASE op \in {0, 1, 2, 3, 5, 7} \X {1}
  <2>1. PICK k \in {0, 1, 2, 3, 5, 7} : op = <<k, 1>>
    BY <1>2
  <2>2. RtypeName[op] = <<"mul", "mulh", "mulsu", "mulu", "div", "divu", "rem", "remu">>[k + 1]
    BY <2>1 DEF RtypeName
  <2>3. RtypeCode[op] = CASE k = 0 -> 12 [] k = 1 -> 11 [] k = 2 -> 15
                          [] k = 3 -> 16 [] k = 5 -> 5  [] k = 7 -> 10
    BY <2>1 DEF RtypeCode
  <2> QED BY <2>2, <2>3 DEF Coded
<1>3. CASE op = <<0, 32>>
  BY <1>3 DEF Coded, RtypeName, RtypeCode
<1>4. CASE op = <<5, 32>>
  BY <1>4 DEF Coded, RtypeName, RtypeCode
<1>5. op \notin {<<4, 18>>, <<6, 19>>}
  BY DEF RtypeName
<1>6. op \in (0 .. 7) \X {0} \cup {0, 1, 2, 3, 5, 7} \X {1}
             \cup {<<0, 32>>, <<5, 32>>, <<4, 18>>, <<6, 19>>}
  BY DEF RtypeCode
<1> QED BY <1>1, <1>2, <1>3, <1>4, <1>5, <1>6

(* Given the code of an instruction, the ALU of the pipeline computes what    *)
(* the emulator's comment says of it, but for the high products and for a     *)
(* division by zero.                                                          *)
THEOREM PipelineAluAsCommentedHolds == Spec => []PipelineAluAsCommented
<1> DEFINE Right(name, code, result) ==
             CASE AluFaults(a, b, code)                  -> DivisionFaults(name, a, b)
               [] DivisionFaults(name, a, b) /\ b = 0    -> result = ErrorCode
               [] name \in {"mulh", "mulsu", "mulu"}     -> Ref!Computes("mul", a, b, result)
               [] OTHER                                  -> Ref!Computes(name, a, b, result)
<1>1. ASSUME a \in Word, b \in Word, NEW pair \in Coded
      PROVE  Right(pair[1], pair[2], execute_alu(a, b, pair[2]))
  <2> DEFINE Overflows == SInt(a) = -Pow2[WordBits - 1] /\ SInt(b) = -1
  <2>1. CASE pair \in {<<"add", 0>>, <<"sub", 1>>, <<"mul", 12>>, <<"mulh", 11>>,
                       <<"mulsu", 15>>, <<"mulu", 16>>}
    BY <1>1, <2>1, SumsComputed DEF execute_alu, AluFaults, DivisionFaults
  <2>2. CASE pair \in {<<"sll", 7>>, <<"srl", 8>>, <<"sra", 14>>}
    BY <1>1, <2>2, ShiftsComputed DEF execute_alu, Shifted, AluFaults, DivisionFaults
  <2>3. CASE pair \in {<<"slt", 17>>, <<"sltu", 9>>}
    BY <1>1, <2>3, ComparisonsComputed DEF execute_alu, AluFaults, DivisionFaults
  <2>4. CASE pair \in {<<"xor", 6>>, <<"or", 3>>, <<"and", 2>>}
    BY <1>1, <2>4, BitsComputed DEF execute_alu, AluFaults, DivisionFaults
  <2>5. CASE pair \in {<<"divu", 5>>, <<"remu", 10>>}
    BY <1>1, <2>5, UnsignedDivision DEF execute_alu, AluFaults, DivisionFaults
  <2>6. CASE pair \in {<<"div", 18>>, <<"rem", 19>>}
    BY <1>1, <2>6, SignedDivision DEF execute_alu, AluFaults, DivisionFaults
  <2> QED BY <2>1, <2>2, <2>3, <2>4, <2>5, <2>6 DEF Coded
<1>2. Operands => PipelineAluAsCommented
  <2> SUFFICES ASSUME a \in Word, b \in Word,
                      NEW codes,
                      codes = [op \in DOMAIN RtypeCode \cap DOMAIN RtypeName |->
                                  <<RtypeName[op], RtypeCode[op]>>],
                      NEW pair \in {codes[op] : op \in DOMAIN codes}
                                       \cup {<<"div", 18>>, <<"rem", 19>>}
               PROVE  Right(pair[1], pair[2], execute_alu(a, b, pair[2]))
    <3> HIDE DEF Coded
    <3> QED BY DEF Operands, PipelineAluAsCommented
  <2>1. pair \in Coded
    <3>1. CASE pair \in {<<"div", 18>>, <<"rem", 19>>}
      BY <3>1 DEF Coded
    <3>2. CASE pair \in {codes[op] : op \in DOMAIN codes}
      BY <3>2, Codes
    <3> QED BY <3>1, <3>2
  <2> QED BY <1>1, <2>1
<1> QED BY <1>2, OperandsHold, PTL

-----------------------------------------------------------------------------
(***************************************************************************)
(* The instruction formats.  A word is a number whose digits, to different *)
(* bases, are its fields.                                                  *)
(***************************************************************************)

(* The powers of two that occur in utils.c. *)
LEMMA Powers ==
  /\ Pow2[0] = 1 /\ Pow2[1] = 2 /\ Pow2[2] = 4 /\ Pow2[3] = 8 /\ Pow2[4] = 16 /\ Pow2[5] = 32
  /\ Pow2[6] = 64 /\ Pow2[7] = 128 /\ Pow2[8] = 256 /\ Pow2[9] = 512 /\ Pow2[10] = 1024
  /\ Pow2[11] = 2048 /\ Pow2[12] = 4096 /\ Pow2[13] = 8192 /\ Pow2[14] = 16384
  /\ Pow2[15] = 32768 /\ Pow2[16] = 65536 /\ Pow2[17] = 131072 /\ Pow2[18] = 262144
  /\ Pow2[19] = 524288 /\ Pow2[20] = 1048576 /\ Pow2[21] = 2097152
<1>1. \A n \in 1 .. 21 : Pow2[n] = 2 * Pow2[n - 1]
  <2> TAKE n \in 1 .. 21
  <2>1. n \in ShiftCount /\ n # 0
    BY DEF ShiftCount
  <2> QED BY <2>1, Pow2Facts
<1>2. Pow2[0] = 1
  BY Pow2Facts DEF ShiftCount
<1>3. /\ Pow2[1] = 2 /\ Pow2[2] = 4 /\ Pow2[3] = 8 /\ Pow2[4] = 16 /\ Pow2[5] = 32
      /\ Pow2[6] = 64 /\ Pow2[7] = 128
  BY <1>1, <1>2
<1>4. /\ Pow2[8] = 256 /\ Pow2[9] = 512 /\ Pow2[10] = 1024
      /\ Pow2[11] = 2048 /\ Pow2[12] = 4096 /\ Pow2[13] = 8192 /\ Pow2[14] = 16384
  BY <1>1, <1>3
<1>5. /\ Pow2[15] = 32768 /\ Pow2[16] = 65536 /\ Pow2[17] = 131072 /\ Pow2[18] = 262144
      /\ Pow2[19] = 524288 /\ Pow2[20] = 1048576 /\ Pow2[21] = 2097152
  BY <1>1, <1>4
<1> QED BY <1>2, <1>3, <1>4, <1>5

(* A number split above its n low bits. *)
Splits(x, n, high, low) ==
  /\ x \in Nat /\ high \in Nat /\ low \in Nat
  /\ low < Pow2[n] /\ x = Pow2[n] * high + low

LEMMA SplitBits ==
  ASSUME NEW x, NEW n \in ShiftCount, NEW high, NEW low, Splits(x, n, high, low)
  PROVE  Shr(x, n) = high /\ LowBits(x, n) = low
<1>1. Pow2[n] \in Nat \ {0}
  BY Pow2Facts
<1>2. ASSUME NEW p \in Nat \ {0}, NEW d \in Nat, d < p, NEW h \in Nat, NEW y \in Nat,
             y = p * h + d
      PROVE  y \div p = h /\ y % p = d
  BY <1>2
<1> QED BY <1>1, <1>2 DEF Splits, Shr, LowBits

(* The fields of the formats, as the union Instruction of types.h lays them   *)
(* out.                                                                       *)
Register == 0 .. 31
Code3    == 0 .. 7
Code7    == 0 .. 127
Imm12    == 0 .. 4095
Imm20    == {t \in Nat : t < Pow2[20]}

(* What the formats with a funct3 have in common: two registers, the code and *)
(* twelve bits above them.                                                    *)
LaidOut(w, d, f, s, t) == w \in Nat /\ w = d + f * 32 + s * 256 + t * 8192

LEMMA CommonFields ==
  ASSUME NEW d \in Register, NEW f \in Code3, NEW s \in Register, NEW t \in Imm12,
         NEW w, LaidOut(w, d, f, s, t)
  PROVE  /\ BitField(w, 4, 0) = d /\ BitField(w, 7, 5) = f /\ BitField(w, 12, 8) = s
         /\ BitField(w, 24, 13) = t
         /\ BitField(w, 17, 13) = LowBits(t, 5) /\ BitField(w, 24, 18) = Shr(t, 5)
<1> DEFINE h8 == s + t * 32
           h5 == f + h8 * 8
           u == t \div 32
           v == t % 32
<1>1. /\ d \in 0 .. 31 /\ f \in 0 .. 7 /\ s \in 0 .. 31 /\ t \in 0 .. 4095
      /\ w \in Nat /\ w = d + f * 32 + s * 256 + t * 8192
  BY DEF Register, Code3, Imm12, LaidOut
<1>2. u \in 0 .. 127 /\ v \in 0 .. 31 /\ t = v + u * 32
  BY <1>1
<1> HIDE DEF u, v
<1>3. h8 \in Nat /\ h5 \in Nat
  BY <1>1
<1>4. \A n \in 0 .. 18 : n \in ShiftCount
  BY DEF ShiftCount
<1>5. Splits(w, 0, w, 0)
  BY <1>1, Powers DEF Splits
<1>6. Splits(w, 5, h5, d) /\ Splits(h5, 3, h8, f) /\ Splits(h8, 5, t, s) /\ Splits(t, 5, u, v)
  BY <1>1, <1>2, <1>3, Powers DEF Splits
<1>7. Splits(w, 8, h8, d + f * 32)
  BY <1>1, <1>3, Powers DEF Splits
<1>8. Splits(w, 13, t, d + f * 32 + s * 256)
  BY <1>1, <1>3, Powers DEF Splits
<1>9. Splits(w, 18, u, d + f * 32 + s * 256 + v * 8192)
  BY <1>1, <1>2, <1>3, Powers DEF Splits
<1>10. Splits(t, 12, 0, t) /\ Splits(u, 7, 0, u)
  BY <1>1, <1>2, Powers DEF Splits
<1> HIDE DEF h8, h5
<1>11. /\ Shr(w, 0) = w /\ Shr(w, 5) = h5 /\ Shr(w, 8) = h8 /\ Shr(w, 13) = t /\ Shr(w, 18) = u
       /\ Shr(t, 5) = u
  BY <1>4, <1>5, <1>6, <1>7, <1>8, <1>9, SplitBits
<1>12. /\ LowBits(w, 5) = d /\ LowBits(h5, 3) = f /\ LowBits(h8, 5) = s
       /\ LowBits(t, 12) = t /\ LowBits(u, 7) = u
  BY <1>4, <1>6, <1>10, SplitBits
<1> QED BY <1>11, <1>12 DEF BitField

(* An R-type word, and an S-type or B-type one, has the fields it was made of. *)
LEMMA FieldsOfR ==
  ASSUME NEW d \in Register, NEW f \in Code3, NEW s \in Register, NEW r \in Register,
         NEW c \in Code7
  PROVE  LET w == EncodeR(d, f, s, r, c) IN
         /\ rtype(w) = [rd |-> d, funct3 |-> f, rs1 |-> s, rs2 |-> r, funct7 |-> c]
         /\ stype(w) = [imm5 |-> d, funct3 |-> f, rs1 |-> s, rs2 |-> r, imm7 |-> c]
<1> DEFINE w == EncodeR(d, f, s, r, c)
           t == r + c * 32
<1>1. /\ d \in 0 .. 31 /\ f \in 0 .. 7 /\ s \in 0 .. 31 /\ r \in 0 .. 31 /\ c \in 0 .. 127
  BY DEF Register, Code3, Code7
<1>2. LaidOut(w, d, f, s, t) /\ t \in Imm12
  BY <1>1, Powers DEF EncodeR, LaidOut, Imm12
<1>3. Splits(t, 5, c, r) /\ 5 \in ShiftCount
  BY <1>1, <1>2, Powers DEF Splits, ShiftCount, Imm12
<1> HIDE DEF w, t
<1>4. LowBits(t, 5) = r /\ Shr(t, 5) = c
  BY <1>3, SplitBits
<1>5. /\ BitField(w, 4, 0) = d /\ BitField(w, 7, 5) = f /\ BitField(w, 12, 8) = s
      /\ BitField(w, 17, 13) = r /\ BitField(w, 24, 18) = c
  BY <1>2, <1>4, CommonFields
<1>6. /\ rtype(w) = [rd |-> d, funct3 |-> f, rs1 |-> s, rs2 |-> r, funct7 |-> c]
      /\ stype(w) = [imm5 |-> d, funct3 |-> f, rs1 |-> s, rs2 |-> r, imm7 |-> c]
  BY <1>5 DEF rtype, stype
<1> QED BY <1>6 DEF w

(* An I-type word has the fields it was made of. *)
LEMMA FieldsOfI ==
  ASSUME NEW d \in Register, NEW f \in Code3, NEW s \in Register, NEW t \in Imm12
  PROVE  itype(EncodeI(d, f, s, t)) = [rd |-> d, funct3 |-> f, rs1 |-> s, imm |-> t]
<1> DEFINE w == EncodeI(d, f, s, t)
<1>1. LaidOut(w, d, f, s, t)
  BY Powers DEF EncodeI, Register, Code3, Imm12, LaidOut
<1> HIDE DEF w
<1>2. /\ BitField(w, 4, 0) = d /\ BitField(w, 7, 5) = f /\ BitField(w, 12, 8) = s
      /\ BitField(w, 24, 13) = t
  BY <1>1, CommonFields
<1>3. itype(w) = [rd |-> d, funct3 |-> f, rs1 |-> s, imm |-> t]
  BY <1>2 DEF itype
<1> QED BY <1>3 DEF w

(* A U-type word, and a jal, has the fields it was made of. *)
LEMMA FieldsOfU ==
  ASSUME NEW d \in Register, NEW t \in Imm20
  PROVE  utype(EncodeU(d, t)) = [rd |-> d, imm |-> t]
<1> DEFINE w == EncodeU(d, t)
<1>1. w = d + t * 32
  <2>1. w = d + t * Pow2[5]
    BY DEF EncodeU
  <2> QED BY <2>1, Powers
<1> HIDE DEF w
<1>2. /\ Splits(w, 0, w, 0) /\ Splits(w, 5, t, d) /\ Splits(t, 20, 0, t)
      /\ 0 \in ShiftCount /\ 5 \in ShiftCount /\ 20 \in ShiftCount
  <2>1. d \in 0 .. 31 /\ t \in Nat /\ t < Pow2[20]
    BY DEF Register, Imm20
  <2>2. w \in Nat
    BY <1>1, <2>1
  <2>3. Splits(w, 0, w, 0)
    BY <2>2, Powers DEF Splits
  <2>4. Splits(w, 5, t, d)
    BY <1>1, <2>1, <2>2, Powers DEF Splits
  <2>5. Splits(t, 20, 0, t)
    BY <2>1, Powers DEF Splits
  <2> QED BY <2>3, <2>4, <2>5 DEF ShiftCount
<1>3. Shr(w, 0) = w /\ LowBits(w, 5) = d /\ Shr(w, 5) = t /\ LowBits(t, 20) = t
  BY <1>2, SplitBits
<1>4. BitField(w, 4, 0) = d /\ BitField(w, 24, 5) = t
  BY <1>3 DEF BitField
<1>5. utype(w) = [rd |-> d, imm |-> t]
  BY <1>4 DEF utype
<1> QED BY <1>5 DEF w

(* get_store_offset returns the twelve bits that the assembler divided between *)
(* the two fields of a store.                                                 *)
THEOREM StoreOffset ==
  ASSUME NEW t \in Imm12, NEW f \in Code3, NEW s \in Register, NEW r \in Register
  PROVE  LET i == stype(EncodeS(t, f, s, r)) IN
         /\ get_store_offset(i) = t
         /\ i.funct3 = f /\ i.rs1 = s /\ i.rs2 = r
<1> DEFINE u == t \div 32
           v == t % 32
<1>1. u \in 0 .. 127 /\ v \in 0 .. 31 /\ t = v + u * 32 /\ t \in Nat
  BY DEF Imm12
<1> HIDE DEF u, v
<1>2. /\ Splits(t, 0, t, 0) /\ Splits(t, 5, u, v) /\ Splits(u, 7, 0, u)
      /\ 0 \in ShiftCount /\ 5 \in ShiftCount /\ 7 \in ShiftCount
  BY <1>1, Powers DEF Splits, ShiftCount
<1>3. Shr(t, 0) = t /\ LowBits(t, 5) = v /\ Shr(t, 5) = u /\ LowBits(u, 7) = u
  BY <1>2, SplitBits
<1>4. BitField(t, 4, 0) = v /\ BitField(t, 11, 5) = u
  BY <1>3 DEF BitField
<1>5. v \in Register /\ u \in Code7
  BY <1>1 DEF Register, Code7
<1>6. stype(EncodeS(t, f, s, r)) = [imm5 |-> v, funct3 |-> f, rs1 |-> s, rs2 |-> r, imm7 |-> u]
  <2>1. EncodeS(t, f, s, r) = EncodeR(v, f, s, r, u)
    BY <1>4 DEF EncodeS
  <2> QED BY <1>5, <2>1, FieldsOfR
<1> QED BY <1>1, <1>6, Powers DEF get_store_offset

(* get_branch_offset returns the distance that the assembler encoded, for     *)
(* every even one that thirteen bits can hold.                                *)
EvenBranch == {n \in -4096 .. 4095 : n % 2 = 0}

THEOREM BranchOffset ==
  ASSUME NEW offset \in EvenBranch,
         NEW f \in Code3, NEW s \in Register, NEW r \in Register
  PROVE  LET i == stype(EncodeB(offset, f, s, r)) IN
         /\ get_branch_offset(i) = offset
         /\ i.funct3 = f /\ i.rs1 = s /\ i.rs2 = r
<1> DEFINE o == LowBits(offset, 13)
<1>1. /\ o \in 0 .. 8191 /\ o % 2 = 0
      /\ offset = IF o >= 4096 THEN o - 8192 ELSE o
  <2> DEFINE p == IF offset < 0 THEN offset + 8192 ELSE offset
  <2> offset \in -4096 .. 4095 /\ offset % 2 = 0
    BY DEF EvenBranch
  <2>1. p \in 0 .. 8191 /\ offset = IF p >= 4096 THEN p - 8192 ELSE p
    OBVIOUS
  <2>2. PICK k \in Int : offset = 2 * k
    <3>1. offset = 2 * (offset \div 2) + (offset % 2) /\ offset \div 2 \in Int
      OBVIOUS
    <3> QED BY <3>1
  <2>3. p % 2 = 0
    BY <2>2
  <2>4. offset % 8192 = p
    OBVIOUS
  <2>5. Pow2[13] = 8192
    BY Powers
  <2>6. o = offset % Pow2[13]
    BY DEF LowBits
  <2> HIDE DEF p, o
  <2>7. o = p
    BY <2>4, <2>5, <2>6
  <2> QED BY <2>1, <2>3, <2>7
<1> HIDE DEF o
<1>2. PICK x \in 0 .. 15, y \in 0 .. 63, z \in 0 .. 1, t \in 0 .. 1 :
          o = 2 * x + 32 * y + 2048 * z + 4096 * t
  <2> DEFINE p == o \div 2
             q == p \div 16
             u == q \div 64
  <2>1. p \in 0 .. 4095 /\ o = 2 * p
    BY <1>1
  <2> HIDE DEF p
  <2>2. q \in 0 .. 255 /\ p % 16 \in 0 .. 15 /\ p = 16 * q + (p % 16)
    BY <2>1
  <2> HIDE DEF q
  <2>3. u \in 0 .. 3 /\ q % 64 \in 0 .. 63 /\ q = 64 * u + (q % 64)
    BY <2>2
  <2> HIDE DEF u
  <2>4. u \div 2 \in 0 .. 1 /\ u % 2 \in 0 .. 1 /\ u = 2 * (u \div 2) + (u % 2)
    BY <2>3
  <2> QED BY <2>1, <2>2, <2>3, <2>4
<1> DEFINE imm5 == x * 2 + z
           imm7 == t * 64 + y
<1>3. imm5 \in Register /\ imm7 \in Code7
  BY <1>2 DEF Register, Code7
<1>4. /\ Splits(o, 1, x + 16 * y + 1024 * z + 2048 * t, 0)
      /\ Splits(o, 5, y + 64 * z + 128 * t, 2 * x)
      /\ Splits(o, 11, z + 2 * t, 2 * x + 32 * y)
      /\ Splits(o, 12, t, 2 * x + 32 * y + 2048 * z)
  <2>1. Splits(o, 1, x + 16 * y + 1024 * z + 2048 * t, 0)
    BY <1>2, Powers DEF Splits
  <2>2. Splits(o, 5, y + 64 * z + 128 * t, 2 * x)
    BY <1>2, Powers DEF Splits
  <2>3. Splits(o, 11, z + 2 * t, 2 * x + 32 * y)
    BY <1>2, Powers DEF Splits
  <2>4. Splits(o, 12, t, 2 * x + 32 * y + 2048 * z)
    BY <1>2, Powers DEF Splits
  <2> QED BY <2>1, <2>2, <2>3, <2>4
<1>5. /\ Splits(x + 16 * y + 1024 * z + 2048 * t, 4, y + 64 * z + 128 * t, x)
      /\ Splits(y + 64 * z + 128 * t, 6, z + 2 * t, y)
      /\ Splits(z + 2 * t, 1, t, z) /\ Splits(t, 1, 0, t)
  BY <1>2, Powers DEF Splits
<1>6. /\ Splits(imm5, 0, imm5, 0) /\ Splits(imm5, 1, x, z) /\ Splits(x, 4, 0, x)
      /\ Splits(imm7, 0, imm7, 0) /\ Splits(imm7, 6, t, y)
  BY <1>2, Powers DEF Splits
<1>7. \A n \in 0 .. 12 : n \in ShiftCount
  BY DEF ShiftCount
<1>8. /\ BitField(o, 4, 1) = x /\ BitField(o, 10, 5) = y
      /\ BitField(o, 11, 11) = z /\ BitField(o, 12, 12) = t
  BY <1>4, <1>5, <1>7, SplitBits DEF BitField
<1> HIDE DEF imm5, imm7
<1>9. /\ BitField(imm5, 4, 1) = x /\ BitField(imm5, 0, 0) = z
      /\ BitField(imm7, 5, 0) = y /\ BitField(imm7, 6, 6) = t
  BY <1>5, <1>6, <1>7, SplitBits DEF BitField
<1>10. EncodeB(offset, f, s, r) = EncodeR(imm5, f, s, r, imm7)
  BY <1>8, Powers DEF EncodeB, o, imm5, imm7
<1>11. stype(EncodeB(offset, f, s, r))
           = [imm5 |-> imm5, funct3 |-> f, rs1 |-> s, rs2 |-> r, imm7 |-> imm7]
  BY <1>3, <1>10, FieldsOfR
<1>12. Signed(LowBits(o, 13), 13) = offset
  <2>1. Splits(o, 13, 0, o) /\ 13 \in ShiftCount
    BY <1>1, Powers DEF Splits, ShiftCount
  <2>2. LowBits(o, 13) = o
    BY <2>1, SplitBits
  <2> QED BY <1>1, <2>2, Powers DEF Signed
<1>13. get_branch_offset(stype(EncodeB(offset, f, s, r))) = offset
  <2>1. t * 4096 + z * 2048 + y * 32 + x * 2 = o
    BY <1>2
  <2> QED BY <1>9, <1>11, <1>12, <2>1, Powers DEF get_branch_offset, sign_extend_number
<1> QED BY <1>11, <1>13

(* The fields of the offset of a jump to a word: t the sign, h the bits from   *)
(* 12, c the bit at 11, m the word below.                                     *)
JumpFields(offset, t, h, c, m) ==
  /\ t \in 0 .. 1 /\ h \in 0 .. 255 /\ c \in 0 .. 1 /\ m \in 0 .. 511
  /\ offset = 4 * m + 2048 * c + 4096 * h - 1048576 * t

(* get_jump_offset counts all but m twice, and the sign once more at bit 11.  *)
LEMMA JumpBits ==
  ASSUME NEW d \in Register, NEW offset \in Int, NEW t, NEW h, NEW c, NEW m,
         JumpFields(offset, t, h, c, m)
  PROVE  get_jump_offset(utype(EncodeJ(d, offset)))
             = 4 * m + 2048 * t + 4096 * c + 8192 * h + 2097152 * t
<1> DEFINE o == LowBits(offset, 21)
           x == 2 * m
           imm == t * Pow2[19] + x * Pow2[9] + c * Pow2[8] + h
<1>1. /\ t \in 0 .. 1 /\ c \in 0 .. 1 /\ h \in 0 .. 255 /\ m \in 0 .. 511
      /\ offset = 4 * m + 2048 * c + 4096 * h - 1048576 * t
  BY DEF JumpFields
<1>2. o = 2 * x + 2048 * c + 4096 * h + 1048576 * t
  <2> DEFINE p == 4 * m + 2048 * c + 4096 * h + 1048576 * t
  <2>1. offset = p - 2097152 * t /\ p \in Nat /\ p < 2097152
    BY <1>1
  <2> HIDE DEF p
  <2>2. offset % 2097152 = p
    BY <1>1, <2>1
  <2>3. Pow2[21] = 2097152
    BY Powers
  <2>4. o = offset % Pow2[21]
    BY DEF LowBits
  <2>5. p = 2 * x + 2048 * c + 4096 * h + 1048576 * t
    BY <1>1 DEF p
  <2> HIDE DEF o, x
  <2> QED BY <2>2, <2>3, <2>4, <2>5
<1>3. \A n \in 0 .. 21 : n \in ShiftCount
  BY DEF ShiftCount
<1>4. x \in 0 .. 1022 /\ x = 2 * m
  BY <1>1
<1>5. imm = t * 524288 + x * 512 + c * 256 + h
  BY Powers
<1> HIDE DEF o, x, imm
<1>6. imm \in Imm20
  <2>1. t * 524288 + x * 512 + c * 256 + h \in Nat
    BY <1>1, <1>4
  <2>2. t * 524288 + x * 512 + c * 256 + h < 1048576
    BY <1>1, <1>4
  <2> QED BY <1>5, <2>1, <2>2, Powers DEF Imm20
<1>7. /\ Splits(o, 1, x + 1024 * c + 2048 * h + 524288 * t, 0)
      /\ Splits(o, 11, c + 2 * h + 512 * t, 2 * x)
      /\ Splits(o, 12, h + 256 * t, 2 * x + 2048 * c)
      /\ Splits(o, 20, t, 2 * x + 2048 * c + 4096 * h)
  <2>1. Splits(o, 1, x + 1024 * c + 2048 * h + 524288 * t, 0)
    BY <1>1, <1>2, <1>4, Powers DEF Splits
  <2>2. Splits(o, 11, c + 2 * h + 512 * t, 2 * x)
    BY <1>1, <1>2, <1>4, Powers DEF Splits
  <2>3. Splits(o, 12, h + 256 * t, 2 * x + 2048 * c)
    BY <1>1, <1>2, <1>4, Powers DEF Splits
  <2>4. Splits(o, 20, t, 2 * x + 2048 * c + 4096 * h)
    BY <1>1, <1>2, <1>4, Powers DEF Splits
  <2> QED BY <2>1, <2>2, <2>3, <2>4
<1>8. /\ Splits(x + 1024 * c + 2048 * h + 524288 * t, 10, c + 2 * h + 512 * t, x)
      /\ Splits(c + 2 * h + 512 * t, 1, h + 256 * t, c)
      /\ Splits(h + 256 * t, 8, t, h) /\ Splits(t, 1, 0, t)
  BY <1>1, <1>4, Powers DEF Splits
<1>9. /\ BitField(o, 20, 20) = t /\ BitField(o, 10, 1) = x
      /\ BitField(o, 11, 11) = c /\ BitField(o, 19, 12) = h
  BY <1>3, <1>7, <1>8, SplitBits DEF BitField
<1>10. EncodeJ(d, offset) = EncodeU(d, imm)
  BY <1>9 DEF EncodeJ, o, imm
<1>11. utype(EncodeJ(d, offset)) = [rd |-> d, imm |-> imm]
  BY <1>6, <1>10, FieldsOfU
<1>12. imm \in Nat
  BY <1>6 DEF Imm20
<1>13. /\ Splits(imm, 0, imm, 0) /\ Splits(imm, 8, c + 2 * x + 2048 * t, h)
       /\ Splits(imm, 10, m + 512 * t, 256 * c + h)
       /\ Splits(imm, 19, t, 512 * x + 256 * c + h)
       /\ Splits(c + 2 * x + 2048 * t, 1, x + 1024 * t, c)
       /\ Splits(m + 512 * t, 10, 0, m + 512 * t)
  <2>2. Splits(imm, 0, imm, 0)
    BY <1>12, Powers DEF Splits
  <2>3. Splits(imm, 8, c + 2 * x + 2048 * t, h)
    BY <1>1, <1>4, <1>5, <1>12, Powers DEF Splits
  <2>4. Splits(imm, 10, m + 512 * t, 256 * c + h)
    BY <1>1, <1>4, <1>5, <1>12, Powers DEF Splits
  <2>5. Splits(imm, 19, t, 512 * x + 256 * c + h)
    BY <1>1, <1>4, <1>5, <1>12, Powers DEF Splits
  <2>6. Splits(c + 2 * x + 2048 * t, 1, x + 1024 * t, c)
    BY <1>1, <1>4, Powers DEF Splits
  <2>7. Splits(m + 512 * t, 10, 0, m + 512 * t)
    BY <1>1, Powers DEF Splits
  <2> QED BY <2>2, <2>3, <2>4, <2>5, <2>6, <2>7
<1>14. /\ BitField(imm, 19, 19) = t /\ BitField(imm, 7, 0) = h /\ BitField(imm, 8, 8) = c
       /\ BitField(imm, 19, 10) = m + 512 * t
  BY <1>3, <1>8, <1>13, SplitBits DEF BitField
<1>15. get_jump_offset(utype(EncodeJ(d, offset)))
           = 2 * (t * Pow2[20] + h * Pow2[12] + c * Pow2[11] + (m + 512 * t) * 2)
  BY <1>11, <1>14 DEF get_jump_offset
<1> QED BY <1>1, <1>15, Powers

(* The offsets of jumps to words, and those that are right. *)
Near == -2048 .. 2047
Jump == {n \in Int : -Pow2[20] <= n /\ n < Pow2[20] /\ n % 4 = 0}

(* Of the jumps to words, whose offsets have 21 bits, exactly those within    *)
(* 2 KB go where the assembler meant them to.                                 *)
THEOREM JumpOffset ==
  ASSUME NEW offset \in Jump, NEW d \in Register
  PROVE  LET i == utype(EncodeJ(d, offset)) IN
         /\ jump_distance(i) = offset <=> offset \in Near
         /\ offset \in Near /\ offset >= 0 => get_jump_offset(i) = offset
<1>1. offset \in Int /\ -1048576 <= offset /\ offset < 1048576 /\ offset % 4 = 0
  BY Powers DEF Jump
<1>2. PICK t, h, c, m : JumpFields(offset, t, h, c, m)
  <2> DEFINE s == IF offset < 0 THEN 1 ELSE 0
             p == offset + 1048576 * s
             q == p \div 4
             r == q \div 512
             u == r \div 2
             v == r % 2
             w == q % 512
  <2>1. s \in 0 .. 1 /\ p \in Nat /\ p < 1048576 /\ p % 4 = 0 /\ offset = p - 1048576 * s
    BY <1>1
  <2> HIDE DEF s, p
  <2>2. q \in Nat /\ q < 262144 /\ p = 4 * q
    BY <2>1
  <2> HIDE DEF q
  <2>3. r \in Nat /\ r < 512 /\ w \in 0 .. 511 /\ q = 512 * r + w
    BY <2>2
  <2> HIDE DEF r, w
  <2>4. u \in 0 .. 255 /\ v \in 0 .. 1 /\ r = 2 * u + v
    BY <2>3
  <2> HIDE DEF u, v
  <2>5. JumpFields(offset, s, u, v, w)
    BY <2>1, <2>2, <2>3, <2>4 DEF JumpFields
  <2> QED BY <2>5
<1>3. /\ t \in 0 .. 1 /\ c \in 0 .. 1 /\ h \in 0 .. 255 /\ m \in 0 .. 511
       /\ offset = 4 * m + 2048 * c + 4096 * h - 1048576 * t
  BY <1>2 DEF JumpFields
<1> DEFINE g == get_jump_offset(utype(EncodeJ(d, offset)))
<1>4. g = 4 * m + 2048 * t + 4096 * c + 8192 * h + 2097152 * t
  BY <1>1, <1>2, JumpBits
<1>5. PICK u \in 0 .. 1, v \in 0 .. 127 : h = 128 * u + v
  <2>1. h = 128 * (h \div 128) + (h % 128) /\ h \div 128 \in 0 .. 1 /\ h % 128 \in 0 .. 127
    BY <1>3
  <2> QED BY <2>1
<1> DEFINE e == 4 * m + 2048 * t + 4096 * c + 8192 * v
<1>6. Splits(g, 20, u + 2 * t, e) /\ e < 1048576
  <2>1. g = 1048576 * (u + 2 * t) + e
    BY <1>3, <1>4, <1>5
  <2>2. e \in Nat /\ e < 1048576
    BY <1>3, <1>5
  <2>3. g \in Nat
    BY <1>3, <1>5, <2>1, <2>2
  <2> HIDE DEF g, e
  <2> QED BY <1>3, <1>5, <2>1, <2>2, <2>3, Powers DEF Splits
<1>7. 20 \in ShiftCount
  BY DEF ShiftCount
<1>8. jump_distance(utype(EncodeJ(d, offset))) = IF e >= 524288 THEN e - 1048576 ELSE e
  <2>1. LowBits(g, 20) = e
    <3> HIDE DEF g, e
    <3> QED BY <1>6, <1>7, SplitBits
  <2>2. jump_distance(utype(EncodeJ(d, offset))) = Signed(LowBits(g, 20), 20)
    BY DEF jump_distance, sign_extend_number
  <2> HIDE DEF g, e
  <2> QED BY <2>1, <2>2, Powers DEF Signed
<1>9. e >= 524288 <=> v >= 64
  BY <1>3, <1>5
<1> DEFINE Back == (IF e >= 524288 THEN e - 1048576 ELSE e) = offset
<1>10. Back <=> \/ v < 64 /\ 2 * v + c + t = 256 * u - 512 * t
                \/ v >= 64 /\ 2 * v + c + t = 256 * u - 512 * t + 512
  <2>1. CASE v < 64
    BY <1>3, <1>5, <1>9, <2>1
  <2>2. CASE v >= 64
    BY <1>3, <1>5, <1>9, <2>2
  <2> QED BY <1>5, <2>1, <2>2
<1> HIDE DEF e, g
<1>11. Back <=> \/ t = 0 /\ c = 0 /\ h = 0
                \/ t = 1 /\ c = 1 /\ h = 255
  <2>1. CASE t = 0
    BY <1>3, <1>5, <1>10, <2>1
  <2>2. CASE t = 1
    BY <1>3, <1>5, <1>10, <2>2
  <2> QED BY <1>3, <2>1, <2>2
<1>12. offset \in Near <=> \/ t = 0 /\ c = 0 /\ h = 0
                           \/ t = 1 /\ c = 1 /\ h = 255
  BY <1>3 DEF Near
<1>13. offset \in Near /\ offset >= 0 => g = offset
  <2>1. offset \in Near /\ offset >= 0 => t = 0 /\ c = 0 /\ h = 0
    BY <1>3 DEF Near
  <2> QED BY <1>3, <1>4, <2>1
<1>14. jump_distance(utype(EncodeJ(d, offset))) = offset <=> Back
  BY <1>8
<1> QED BY <1>11, <1>12, <1>13, <1>14 DEF g

-----------------------------------------------------------------------------
(***************************************************************************)
(* The invariants of DecodeCheck.                                          *)
(***************************************************************************)

(* The words of the walk have fields that the formats can hold. *)
InWalk == funct3 \in Code3 /\ field \in Imm12

LEMMA InWalkHolds == WalkSpec => []InWalk
<1>1. WalkInit => InWalk
  BY DEF WalkInit, InWalk, Code3, Imm12
<1>2. InWalk /\ [WalkNext]_walk => InWalk'
  <2>1. ASSUME InWalk, NextField PROVE InWalk'
    BY <2>1, Powers DEF InWalk, NextField, Code3, Imm12
  <2>2. ASSUME InWalk, NextFunct3 PROVE InWalk'
    BY <2>2 DEF InWalk, NextFunct3, Code3, Imm12
  <2>3. ASSUME InWalk, UNCHANGED walk PROVE InWalk'
    BY <2>3 DEF InWalk, walk
  <2> QED BY <2>1, <2>2, <2>3 DEF WalkNext
<1> QED BY <1>1, <1>2, PTL DEF WalkSpec

LEMMA WalkFields ==
  ASSUME InWalk
  PROVE  /\ rd \in Register /\ rs1 \in Register /\ rs2 \in Register /\ funct7 \in Code7
         /\ field * 8 + funct3 \in Imm20
<1>1. field \in 0 .. 4095 /\ funct3 \in 0 .. 7
  BY DEF InWalk, Imm12, Code3
<1>2. rd \in 0 .. 31 /\ rs1 \in 0 .. 31
  <2>1. ASSUME NEW n \in Nat PROVE n % 32 \in 0 .. 31
    OBVIOUS
  <2>2. field + 3 \in Nat /\ (field \div 32) + 11 \in Nat
    BY <1>1
  <2> QED BY <2>1, <2>2 DEF rd, rs1
<1>3. rs2 \in 0 .. 31 /\ funct7 \in 0 .. 127
  <2>1. rs2 = field % 32 /\ funct7 = field \div 32
    BY Powers DEF rs2, funct7, LowBits, Shr
  <2> QED BY <1>1, <2>1
<1>4. field * 8 + funct3 \in Imm20
  BY <1>1, Powers DEF Imm20
<1> QED BY <1>2, <1>3, <1>4 DEF Register, Code7

(* What parse_instruction makes of the words of the walk. *)
LEMMA WalkParsed ==
  ASSUME InWalk
  PROVE  /\ Parsed("0x33") = rtype(EncodeR(rd, funct3, rs1, rs2, funct7))
         /\ \A o \in {"0x13", "0x03", "0x73"} : Parsed(o) = itype(EncodeI(rd, funct3, rs1, field))
         /\ Parsed("0x23") = stype(EncodeS(field, funct3, rs1, rd))
         /\ Parsed("0x63") = stype(EncodeB(BranchDistance, funct3, rs1, rd))
         /\ Parsed("0x37") = utype(EncodeU(rd, field * 8 + funct3))
         /\ Parsed("0x6F") = utype(EncodeJ(rd, JumpDistance))
BY DEF Parsed, WordOf, RestOf, parse_instruction

(* A word comes back from parse_instruction with the fields it was made of. *)
THEOREM FieldsRecoveredHolds == WalkSpec => []FieldsRecovered
<1>1. InWalk => FieldsRecovered
  <2> SUFFICES ASSUME InWalk PROVE FieldsRecovered
    OBVIOUS
  <2>1. Parsed("0x33") = [rd |-> rd, funct3 |-> funct3, rs1 |-> rs1, rs2 |-> rs2,
                          funct7 |-> funct7]
    <3>1. /\ rd \in Register /\ funct3 \in Code3 /\ rs1 \in Register /\ rs2 \in Register
          /\ funct7 \in Code7
      BY WalkFields DEF InWalk
    <3>2. Parsed("0x33") = rtype(EncodeR(rd, funct3, rs1, rs2, funct7))
      BY WalkParsed
    <3> QED BY <3>1, <3>2, FieldsOfR
  <2>2. Parsed("0x13") = [rd |-> rd, funct3 |-> funct3, rs1 |-> rs1, imm |-> field]
    BY WalkFields, WalkParsed, FieldsOfI DEF InWalk
  <2>3. Parsed("0x23").rs1 = rs1 /\ Parsed("0x23").rs2 = rd /\ Parsed("0x23").funct3 = funct3
    <3>1. rd \in Register /\ rs1 \in Register /\ funct3 \in Code3 /\ field \in Imm12
      BY WalkFields DEF InWalk
    <3>2. Parsed("0x23") = stype(EncodeS(field, funct3, rs1, rd))
      BY WalkParsed
    <3> QED BY <3>1, <3>2, StoreOffset
  <2>4. Parsed("0x37") = [rd |-> rd, imm |-> field * 8 + funct3]
    BY WalkFields, WalkParsed, FieldsOfU
  <2> QED BY <2>1, <2>2, <2>3, <2>4 DEF FieldsRecovered
<1> QED BY <1>1, InWalkHolds, PTL

(* The distances of the walk are even, and those of branches fit thirteen bits. *)
LEMMA WalkDistances ==
  ASSUME InWalk
  PROVE  /\ BranchDistance \in EvenBranch
         /\ Signed(field, 12) + (IF Signed(field, 12) < 0 THEN 4096 ELSE 0) = field
<1>1. field \in 0 .. 4095 /\ funct3 \in 0 .. 7
  BY DEF InWalk, Imm12, Code3
<1> DEFINE n == Signed(field, 12)
<1>2. n = IF field >= 2048 THEN field - 4096 ELSE field
  BY Powers DEF Signed
<1>3. BranchDistance = 2 * n
  BY DEF BranchDistance
<1> HIDE DEF n
<1>4. n \in -2048 .. 2047 /\ n + (IF n < 0 THEN 4096 ELSE 0) = field
  BY <1>1, <1>2
<1>5. (2 * n) % 2 = 0 /\ 2 * n \in -4096 .. 4095
  BY <1>4
<1>6. BranchDistance \in EvenBranch
  BY <1>3, <1>5 DEF EvenBranch
<1> QED BY <1>4, <1>6 DEF n

(* A branch goes to the label it was assembled for. *)
THEOREM BranchReachesLabelHolds == WalkSpec => []BranchReachesLabel
<1>1. InWalk => BranchReachesLabel
  <2> SUFFICES ASSUME InWalk PROVE BranchReachesLabel
    OBVIOUS
  <2>1. rd \in Register /\ rs1 \in Register /\ funct3 \in Code3 /\ BranchDistance \in EvenBranch
    BY WalkFields, WalkDistances DEF InWalk
  <2>2. Parsed("0x63") = stype(EncodeB(BranchDistance, funct3, rs1, rd))
    BY WalkParsed
  <2>3. get_branch_offset(stype(EncodeB(BranchDistance, funct3, rs1, rd))) = BranchDistance
    BY <2>1, BranchOffset
  <2> QED BY <2>2, <2>3 DEF BranchReachesLabel
<1> QED BY <1>1, InWalkHolds, PTL

(* A jump to a word within 2 KB goes to the label it was assembled for. *)
THEOREM NearJumpReachesLabelHolds == WalkSpec => []NearJumpReachesLabel
<1>1. InWalk => NearJumpReachesLabel
  <2> SUFFICES ASSUME InWalk, JumpDistance \in -2048 .. 2047, JumpDistance % 4 = 0
               PROVE  jump_distance(Parsed("0x6F")) = JumpDistance
    BY DEF NearJumpReachesLabel
  <2>1. rd \in Register
    BY WalkFields
  <2>2. JumpDistance \in Jump /\ JumpDistance \in Near
    BY Powers DEF Jump, Near
  <2>3. Parsed("0x6F") = utype(EncodeJ(rd, JumpDistance))
    BY WalkParsed
  <2>4. jump_distance(utype(EncodeJ(rd, JumpDistance))) = JumpDistance
    BY <2>1, <2>2, JumpOffset
  <2> QED BY <2>3, <2>4
<1> QED BY <1>1, InWalkHolds, PTL

(* A store gets the twelve bits of its immediate back, without their sign. *)
THEOREM StoreOffsetRecoveredHolds == WalkSpec => []StoreOffsetRecovered
<1>1. InWalk => StoreOffsetRecovered
  <2> SUFFICES ASSUME InWalk PROVE StoreOffsetRecovered
    OBVIOUS
  <2>1. rd \in Register /\ rs1 \in Register /\ funct3 \in Code3 /\ field \in Imm12
    BY WalkFields DEF InWalk
  <2>2. Parsed("0x23") = stype(EncodeS(field, funct3, rs1, rd))
    BY WalkParsed
  <2>3. get_store_offset(stype(EncodeS(field, funct3, rs1, rd))) = field
    BY <2>1, StoreOffset
  <2>4. Signed(field, 12) + (IF Signed(field, 12) < 0 THEN 4096 ELSE 0) = field
    BY WalkDistances
  <2> QED BY <2>2, <2>3, <2>4 DEF StoreOffsetRecovered
<1> QED BY <1>1, InWalkHolds, PTL

(* gen_imm gives the execute stage of the pipeline the immediates as utils.c  *)
(* returns them, none of them extended but that of a branch.                  *)
THEOREM ImmediatesReachExecuteHolds == WalkSpec => []ImmediatesReachExecute
<1>1. InWalk => ImmediatesReachExecute
  <2> SUFFICES ASSUME InWalk PROVE ImmediatesReachExecute
    OBVIOUS
  <2>1. gen_imm("0x63", Parsed("0x63")) = BranchDistance
    <3>1. rd \in Register /\ rs1 \in Register /\ funct3 \in Code3 /\ BranchDistance \in EvenBranch
      BY WalkFields, WalkDistances DEF InWalk
    <3>2. Parsed("0x63") = stype(EncodeB(BranchDistance, funct3, rs1, rd))
      BY WalkParsed
    <3>3. get_branch_offset(Parsed("0x63")) = BranchDistance
      BY <3>1, <3>2, BranchOffset
    <3> QED BY <3>3 DEF gen_imm
  <2>2. gen_imm("0x13", Parsed("0x13")) = field
    <3>1. Parsed("0x13").imm = field
      BY WalkFields, WalkParsed, FieldsOfI DEF InWalk
    <3> QED BY <3>1 DEF gen_imm
  <2>3. gen_imm("0x23", Parsed("0x23")) = field
    <3>1. rd \in Register /\ rs1 \in Register /\ funct3 \in Code3 /\ field \in Imm12
      BY WalkFields DEF InWalk
    <3>2. Parsed("0x23") = stype(EncodeS(field, funct3, rs1, rd))
      BY WalkParsed
    <3>3. get_store_offset(Parsed("0x23")) = field
      BY <3>1, <3>2, StoreOffset
    <3> QED BY <3>3 DEF gen_imm
  <2>4. gen_imm("0x37", Parsed("0x37")) = field * 8 + funct3
    <3>1. Parsed("0x37").imm = field * 8 + funct3
      BY WalkFields, WalkParsed, FieldsOfU
    <3> QED BY <3>1 DEF gen_imm
  <2>5. JumpDistance \in 0 .. 2047 /\ JumpDistance % 4 = 0
            => gen_imm("0x6F", Parsed("0x6F")) = JumpDistance
    <3> SUFFICES ASSUME JumpDistance \in 0 .. 2047, JumpDistance % 4 = 0
                 PROVE  gen_imm("0x6F", Parsed("0x6F")) = JumpDistance
      OBVIOUS
    <3>1. JumpDistance \in Jump /\ JumpDistance \in Near /\ JumpDistance >= 0 /\ rd \in Register
      BY WalkFields, Powers DEF Jump, Near
    <3>2. Parsed("0x6F") = utype(EncodeJ(rd, JumpDistance))
      BY WalkParsed
    <3>3. get_jump_offset(utype(EncodeJ(rd, JumpDistance))) = JumpDistance
      BY <3>1, JumpOffset
    <3> QED BY <3>2, <3>3 DEF gen_imm
  <2>6. \A o \in {"0x33", "0x03", "0x73"} : gen_imm(o, Parsed(o)) = 0
    BY DEF gen_imm
  <2> QED BY <2>1, <2>2, <2>3, <2>4, <2>5, <2>6, WalkDistances DEF ImmediatesReachExecute
<1> QED BY <1>1, InWalkHolds, PTL

(* The last assignment of a switch that ends with the sum. *)
LEMMA LastIsZero ==
  ASSUME NEW s \in Seq(Nat), NEW x \in Nat
  PROVE  (s \o <<x, 0>>)[Len(s \o <<x, 0>>)] = 0
<1>1. Len(s) \in Nat /\ <<x, 0>> \in Seq(Nat) /\ Len(<<x, 0>>) = 2
  OBVIOUS
<1>2. Len(s \o <<x, 0>>) = Len(s) + 2 /\ (s \o <<x, 0>>)[Len(s) + 2] = 0
  BY <1>1
<1> QED BY <1>2

LEMMA CodesAreNumbers ==
  ASSUME NEW f \in Code3, NEW c \in Code7
  PROVE  RtypeAssigned(f, c) \in Seq(Nat) /\ ItypeCode[f] \in Nat
<1>1. \A op \in DOMAIN RtypeCode : RtypeCode[op] \in Nat
  BY DEF RtypeCode
<1>2. \A k \in 1 .. 9 - f : RtypeAssigned(f, c)[k] \in Nat
  BY <1>1, ErrorAssumption DEF RtypeAssigned, Code3
<1>3. RtypeAssigned(f, c) \in [1 .. 9 - f -> Nat] /\ 9 - f \in Nat
  BY <1>2 DEF RtypeAssigned, Code3
<1>4. ItypeCode[f] \in Nat
  BY DEF ItypeCode, Code3
<1> QED BY <1>3, <1>4

(* What gen_alu_control chooses.                                              *)
AddsWhateverTheInstruction ==
    \A opcode \in Opcodes :
        gen_alu_control(gen_control(opcode, Parsed(opcode)))
            = CASE opcode \in {"0x33", "0x13", "0x23"} -> 0
                [] opcode = "0x63" -> 1
                [] OTHER -> ErrorCode

(* ChoosesCommentedOperation fails for every operation but add: the switches  *)
(* of gen_alu_control have no break before the sum of the addresses           *)
(* (stage_helpers.h:143, 199), so that the ALU adds whatever the instruction, *)
(* subtracts for a branch, or is given the error code for an opcode that      *)
(* gen_control does not pass on.                                              *)
THEOREM AddsWhateverTheInstructionHolds == WalkSpec => []AddsWhateverTheInstruction
<1>1. InWalk => AddsWhateverTheInstruction
  <2> SUFFICES ASSUME InWalk, NEW o \in Opcodes
               PROVE  gen_alu_control(gen_control(o, Parsed(o)))
                          = CASE o \in {"0x33", "0x13", "0x23"} -> 0
                              [] o = "0x63" -> 1
                              [] OTHER -> ErrorCode
    BY DEF AddsWhateverTheInstruction
  <2> DEFINE c == gen_control(o, Parsed(o))
  <2>1. funct3 \in Code3 /\ funct7 \in Code7
    BY WalkFields DEF InWalk
  <2>2. CASE o = "0x33"
    <3>1. Parsed("0x33").funct3 = funct3 /\ Parsed("0x33").funct7 = funct7
      BY <2>1, WalkFields, WalkParsed, FieldsOfR
    <3>2. c.read_opcode = "0x33" /\ c.read_funct3 = funct3 /\ c.read_funct7 = funct7
      BY <2>2, <3>1 DEF gen_control
    <3> HIDE DEF c
    <3>3. Assigned(c) = RtypeAssigned(funct3, funct7) \o <<ItypeCode[funct3], 0>>
      BY <3>2 DEF Assigned
    <3>4. gen_alu_control(c) = 0
      <4> DEFINE s == RtypeAssigned(funct3, funct7)
                 x == ItypeCode[funct3]
      <4>1. s \in Seq(Nat) /\ x \in Nat
        BY <2>1, CodesAreNumbers
      <4>2. Assigned(c) = s \o <<x, 0>>
        BY <3>3
      <4> HIDE DEF s, x
      <4>3. (s \o <<x, 0>>)[Len(s \o <<x, 0>>)] = 0
        BY <4>1, LastIsZero
      <4> QED BY <4>2, <4>3 DEF gen_alu_control
    <3> QED BY <2>2, <3>4 DEF c
  <2>3. CASE o = "0x13"
    <3>1. Parsed("0x13").funct3 = funct3
      BY WalkFields, WalkParsed, FieldsOfI DEF InWalk
    <3>2. c.read_opcode = "0x13" /\ c.read_funct3 = funct3
      BY <2>3, <3>1 DEF gen_control
    <3> HIDE DEF c
    <3>3. Assigned(c) = <<ItypeCode[funct3], 0>>
      BY <3>2 DEF Assigned
    <3>4. gen_alu_control(c) = 0
      BY <3>3 DEF gen_alu_control
    <3> QED BY <2>3, <3>4 DEF c
  <2>4. CASE o \in {"0x23", "0x63"}
    <3>1. c.read_opcode = o
      BY <2>4 DEF gen_control
    <3> HIDE DEF c
    <3>2. Assigned(c) = IF o = "0x23" THEN <<0>> ELSE <<1>>
      BY <2>4, <3>1 DEF Assigned
    <3>3. gen_alu_control(c) = IF o = "0x23" THEN 0 ELSE 1
      BY <3>2 DEF gen_alu_control
    <3> QED BY <2>4, <3>3 DEF c
  <2>5. CASE o \in {"0x03", "0x73", "0x37", "0x6F"}
    <3>1. c.read_opcode = "0x00"
      BY <2>5 DEF gen_control
    <3> HIDE DEF c
    <3>2. Assigned(c) = <<ErrorCode>>
      BY <3>1 DEF Assigned
    <3>3. gen_alu_control(c) = ErrorCode
      BY <3>2 DEF gen_alu_control
    <3> QED BY <2>5, <3>3 DEF c
  <2> QED BY <2>2, <2>3, <2>4, <2>5 DEF Opcodes
<1> QED BY <1>1, InWalkHolds, PTL

-----------------------------------------------------------------------------
(***************************************************************************)
(* The tables of disasm.c and of emulator.c.                               *)
(***************************************************************************)

(* The mnemonics of the lines printed, those of invalid instructions left out. *)
Mnemonics(lines) == {line.name : line \in {lines[k] : k \in 1 .. Len(lines)} \ {Invalid}}

LEMMA Joined ==
  ASSUME NEW x, NEW y
  PROVE  <<x>> \o <<y>> = <<x, y>> /\ <<x>> \o <<>> = <<x>>
<1> DEFINE S == {x, y}
<1>1. <<x>> \in Seq(S) /\ <<y>> \in Seq(S) /\ <<x, y>> \in Seq(S) /\ <<>> \in Seq(S)
  OBVIOUS
<1>2. Len(<<x>>) = 1 /\ Len(<<y>>) = 1 /\ Len(<<x, y>>) = 2 /\ Len(<<>>) = 0
  OBVIOUS
<1> HIDE DEF S
<1>3. /\ Len(<<x>> \o <<y>>) = 2 /\ Len(<<x>> \o <<>>) = 1
      /\ <<x>> \o <<y>> \in Seq(S) /\ <<x>> \o <<>> \in Seq(S)
  BY <1>1, <1>2
<1>4. /\ (<<x>> \o <<y>>)[1] = x /\ (<<x>> \o <<y>>)[2] = y /\ (<<x>> \o <<>>)[1] = x
  BY <1>1, <1>2
<1>5. \A i \in 1 .. 2 : (<<x>> \o <<y>>)[i] = <<x, y>>[i]
  BY <1>4
<1>6. \A i \in 1 .. 1 : (<<x>> \o <<>>)[i] = <<x>>[i]
  BY <1>4
<1>7. ASSUME NEW s \in Seq(S), NEW t \in Seq(S), Len(s) = Len(t),
             \A i \in 1 .. Len(t) : s[i] = t[i]
      PROVE  s = t
  BY <1>7
<1>8. <<x>> \o <<y>> = <<x, y>>
  BY <1>1, <1>2, <1>3, <1>5, <1>7
<1>9. <<x>> \o <<>> = <<x>>
  BY <1>1, <1>2, <1>3, <1>6, <1>7
<1> QED BY <1>8, <1>9

LEMMA MnemonicsOfOne ==
  ASSUME NEW table, NEW key, NEW args,
         key \in DOMAIN table => table[key] # "Invalid"
  PROVE  LET one == One(table, key, args) IN
         /\ Mnemonics(one) = IF key \in DOMAIN table THEN {table[key]} ELSE {}
         /\ Mnemonics(one \o <<Invalid>>) = Mnemonics(one)
         /\ one \o <<>> = one
<1> DEFINE line == Line(table[key], args)
<1>1. ASSUME NEW l
      PROVE  /\ {<<l>>[k] : k \in 1 .. Len(<<l>>)} = {l}
             /\ <<l>> \o <<Invalid>> = <<l, Invalid>> /\ <<l>> \o <<>> = <<l>>
             /\ {<<l, Invalid>>[k] : k \in 1 .. Len(<<l, Invalid>>)} = {l, Invalid}
  <2>1. <<l>> \o <<Invalid>> = <<l, Invalid>> /\ <<l>> \o <<>> = <<l>>
    BY Joined
  <2>2. Len(<<l>>) = 1 /\ Len(<<l, Invalid>>) = 2
    OBVIOUS
  <2>3. <<l>>[1] = l /\ <<l, Invalid>>[1] = l /\ <<l, Invalid>>[2] = Invalid
    OBVIOUS
  <2>4. 1 .. 1 = {1} /\ 1 .. 2 = {1, 2}
    OBVIOUS
  <2> QED BY <2>1, <2>2, <2>3, <2>4
<1>2. Mnemonics(<<Invalid>>) = {} /\ Mnemonics(<<Invalid, Invalid>>) = {}
  BY <1>1 DEF Mnemonics
<1>3. ASSUME key \in DOMAIN table
      PROVE  /\ Mnemonics(<<line>>) = {table[key]}
             /\ Mnemonics(<<line, Invalid>>) = {table[key]}
  <2>1. line.name = table[key] /\ Invalid.name = "Invalid"
    BY DEF Line, Invalid
  <2>2. line # Invalid
    BY <1>3, <2>1
  <2>3. {line} \ {Invalid} = {line} /\ {line, Invalid} \ {Invalid} = {line}
    BY <2>2
  <2> HIDE DEF line
  <2> QED BY <1>1, <2>1, <2>3 DEF Mnemonics
<1> HIDE DEF line
<1>4. CASE key \in DOMAIN table
  <2>1. One(table, key, args) = <<line>>
    BY <1>4 DEF One, line
  <2> QED BY <1>1, <1>3, <1>4, <2>1
<1>5. CASE key \notin DOMAIN table
  <2>1. One(table, key, args) = <<Invalid>>
    BY <1>5 DEF One
  <2> QED BY <1>1, <1>2, <1>5, <2>1
<1> QED BY <1>4, <1>5

(* The R-type instructions. *)
LEMMA RtypeTables ==
  ASSUME NEW f \in Code3, NEW c \in Code7
  PROVE  /\ c \in DOMAIN rtype_inner[f] <=> <<f, c>> \in DOMAIN RtypeName
         /\ c \in DOMAIN rtype_inner[f] => /\ rtype_inner[f][c] = RtypeName[<<f, c>>]
                                           /\ rtype_inner[f][c] # "Invalid"
                                           /\ rtype_inner[f][c] # "invalid"
<1>1. DOMAIN rtype_inner[f] = {0, 1} \cup IF f \in {0, 5} THEN {32} ELSE {}
  BY DEF rtype_inner, Two, Three, Code3
<1>2. DOMAIN RtypeName = (0 .. 7) \X {0, 1} \cup {<<0, 32>>, <<5, 32>>}
  BY DEF RtypeName
<1>3. <<f, c>> \in DOMAIN RtypeName <=> c \in {0, 1} \/ (f \in {0, 5} /\ c = 32)
  <2>1. f \in 0 .. 7
    BY DEF Code3
  <2>2. <<f, c>> \in (0 .. 7) \X {0, 1} <=> c \in {0, 1}
    BY <2>1
  <2>3. <<f, c>> \in {<<0, 32>>, <<5, 32>>} <=> f \in {0, 5} /\ c = 32
    OBVIOUS
  <2>4. <<f, c>> \in DOMAIN RtypeName
            <=> <<f, c>> \in (0 .. 7) \X {0, 1} \/ <<f, c>> \in {<<0, 32>>, <<5, 32>>}
    BY <1>2, Zenon
  <2>5. c \in {0, 1} \/ (f \in {0, 5} /\ c = 32) <=> <<f, c>> \in DOMAIN RtypeName
    BY <2>2, <2>3, <2>4, Zenon
  <2> QED BY <2>5, Zenon
<1>4. ASSUME c = 0
      PROVE  /\ rtype_inner[f][c] = RtypeName[<<f, c>>]
             /\ rtype_inner[f][c] \notin {"Invalid", "invalid"}
  <2>1. RtypeName[<<f, 0>>] = <<"add", "sll", "slt", "sltu", "xor", "srl", "or", "and">>[f + 1]
    BY DEF RtypeName, Code3
  <2>2. CASE f \in 0 .. 3
    BY <1>4, <2>1, <2>2 DEF rtype_inner, Two, Three
  <2>3. CASE f \in 4 .. 7
    BY <1>4, <2>1, <2>3 DEF rtype_inner, Two, Three
  <2> QED BY <2>2, <2>3 DEF Code3
<1>5. ASSUME c = 1
      PROVE  /\ rtype_inner[f][c] = RtypeName[<<f, c>>]
             /\ rtype_inner[f][c] \notin {"Invalid", "invalid"}
  <2>1. RtypeName[<<f, 1>>]
            = <<"mul", "mulh", "mulsu", "mulu", "div", "divu", "rem", "remu">>[f + 1]
    BY DEF RtypeName, Code3
  <2>2. CASE f \in 0 .. 3
    BY <1>5, <2>1, <2>2 DEF rtype_inner, Two, Three
  <2>3. CASE f \in 4 .. 7
    BY <1>5, <2>1, <2>3 DEF rtype_inner, Two, Three
  <2> QED BY <2>2, <2>3 DEF Code3
<1>6. ASSUME c = 32, f \in {0, 5}
      PROVE  /\ rtype_inner[f][c] = RtypeName[<<f, c>>]
             /\ rtype_inner[f][c] \notin {"Invalid", "invalid"}
  BY <1>6 DEF rtype_inner, Two, Three, RtypeName
<1>7. c \in DOMAIN rtype_inner[f] <=> c = 0 \/ c = 1 \/ (c = 32 /\ f \in {0, 5})
  <2> DEFINE codes == {0, 1} \cup (IF f \in {0, 5} THEN {32} ELSE {})
  <2>1. CASE f \in {0, 5}
    <3>1. codes = {0, 1, 32}
      BY <2>1
    <3>2. DOMAIN rtype_inner[f] = {0, 1, 32}
      BY <1>1, <3>1
    <3> QED BY <2>1, <3>2
  <2>2. CASE f \notin {0, 5}
    <3>1. codes = {0, 1}
      BY <2>2
    <3>2. DOMAIN rtype_inner[f] = {0, 1}
      BY <1>1, <3>1
    <3> QED BY <2>2, <3>2
  <2> QED BY <2>1, <2>2
<1>8. c \in DOMAIN rtype_inner[f] => /\ rtype_inner[f][c] = RtypeName[<<f, c>>]
                                     /\ rtype_inner[f][c] \notin {"Invalid", "invalid"}
  BY <1>4, <1>5, <1>6, <1>7, Zenon
<1>9. c \in DOMAIN rtype_inner[f] <=> <<f, c>> \in DOMAIN RtypeName
  <2>1. c \in {0, 1} <=> c = 0 \/ c = 1
    OBVIOUS
  <2> QED BY <1>3, <1>7, <2>1, Zenon
<1>10. ASSUME NEW x, x \notin {"Invalid", "invalid"} PROVE x # "Invalid" /\ x # "invalid"
  BY <1>10
<1> QED BY <1>8, <1>9, <1>10

(* The instructions told apart by funct3 alone. *)
LEMMA CodeTables ==
  /\ branch_names = BranchName /\ load_names = LoadName /\ store_names = StoreName
  /\ \A table \in {branch_names, load_names, store_names} : \A key \in DOMAIN table :
         table[key] \notin {"Invalid", "invalid"}
<1>1. branch_names = BranchName
  BY DEF branch_names, BranchName
<1>2. load_names = LoadName
  BY DEF load_names, LoadName
<1>3. store_names = StoreName
  <2>1. ASSUME NEW f \in 0 .. 2 PROVE store_names[f] = StoreName[f]
    BY DEF store_names, StoreName
  <2> QED BY <2>1 DEF store_names, StoreName
<1>4. \A key \in DOMAIN branch_names : branch_names[key] \notin {"Invalid", "invalid"}
  BY DEF branch_names
<1>5. \A key \in DOMAIN load_names : load_names[key] \notin {"Invalid", "invalid"}
  BY DEF load_names
<1>6. \A key \in DOMAIN store_names : store_names[key] \notin {"Invalid", "invalid"}
  BY DEF store_names
<1> QED BY <1>1, <1>2, <1>3, <1>4, <1>5, <1>6

(* The I-type instructions, for the widths of the program. *)
LEMMA ItypeTables ==
  ASSUME immBits = 12, shamtBits = 5,
         NEW i, i.funct3 \in Code3, i.imm \in Imm12
  PROVE  Mnemonics(write_itype_except_load(i)) = {ItypeName(i.funct3, i.imm)} \ {"invalid"}
<1> DEFINE high == Shr(i.imm, 5)
           name == ItypeName(i.funct3, i.imm)
           lines == write_itype_except_load(i)
<1> SUFFICES Mnemonics(lines) = {name} \ {"invalid"}
  OBVIOUS
<1>1. ArithmeticShift = 32
  BY Powers DEF ArithmeticShift
<1>2. high = Shr(i.imm, shamtBits)
  OBVIOUS
<1> HIDE DEF high
<1>3. CASE i.funct3 = 1
  <2>1. name = IF high = 0 THEN "slli" ELSE "invalid"
    BY <1>2, <1>3 DEF ItypeName
  <2>2. lines = One(left_shifts, high, print_itype(i, i.imm))
    BY <1>3 DEF write_itype_except_load, high
  <2>3. DOMAIN left_shifts = {0} /\ left_shifts[0] = "slli"
    BY DEF left_shifts
  <2>4. Mnemonics(One(left_shifts, high, print_itype(i, i.imm)))
            = IF high \in DOMAIN left_shifts THEN {left_shifts[high]} ELSE {}
    <3>1. high \in DOMAIN left_shifts => left_shifts[high] # "Invalid"
      BY <2>3
    <3> QED BY <3>1, MnemonicsOfOne
  <2> HIDE DEF name, lines
  <2>5. CASE high = 0
    BY <2>1, <2>2, <2>3, <2>4, <2>5
  <2>6. CASE high # 0
    BY <2>1, <2>2, <2>3, <2>4, <2>6
  <2> QED BY <2>5, <2>6
<1>4. CASE i.funct3 = 5
  <2>1. name = IF high = 0 THEN "srli" ELSE IF high = 32 THEN "srai" ELSE "invalid"
    BY <1>1, <1>2, <1>4 DEF ItypeName
  <2>2. lines = One(right_shifts, high, print_itype(i, LowBits(i.imm, 5)))
    BY <1>4 DEF write_itype_except_load, high
  <2>3. DOMAIN right_shifts = {0, 32} /\ right_shifts[0] = "srli" /\ right_shifts[32] = "srai"
    BY DEF right_shifts
  <2>4. Mnemonics(One(right_shifts, high, print_itype(i, LowBits(i.imm, 5))))
            = IF high \in DOMAIN right_shifts THEN {right_shifts[high]} ELSE {}
    <3>1. high \in DOMAIN right_shifts => right_shifts[high] # "Invalid"
      BY <2>3
    <3> QED BY <3>1, MnemonicsOfOne
  <2> HIDE DEF name, lines
  <2>5. CASE high = 0
    BY <2>1, <2>2, <2>3, <2>4, <2>5
  <2>6. CASE high = 32
    BY <2>1, <2>2, <2>3, <2>4, <2>6
  <2>7. CASE high \notin {0, 32}
    BY <2>1, <2>2, <2>3, <2>4, <2>7
  <2> QED BY <2>5, <2>6, <2>7
<1>5. CASE i.funct3 \in {0, 2, 3, 4, 6, 7}
  <2>1. name = itype_names[i.funct3] /\ i.funct3 \in DOMAIN itype_names
    BY <1>5 DEF ItypeName, itype_names
  <2>2. name \notin {"Invalid", "invalid"}
    BY <1>5, <2>1 DEF itype_names
  <2>3. lines = One(itype_names, i.funct3, print_itype(i, i.imm))
    BY <1>5 DEF write_itype_except_load
  <2> HIDE DEF name, lines
  <2>4. Mnemonics(One(itype_names, i.funct3, print_itype(i, i.imm))) = {name}
    BY <2>1, <2>2, MnemonicsOfOne
  <2> QED BY <2>2, <2>3, <2>4
<1> QED BY <1>3, <1>4, <1>5 DEF Code3

(* The lines printed of the words of the walk. *)
LEMMA WalkPrinted ==
  /\ Printed("0x33") = write_rtype(Parsed("0x33"))
  /\ Printed("0x13") = write_itype_except_load(Parsed("0x13"))
  /\ Printed("0x03") = write_load(Parsed("0x03"))
  /\ Printed("0x23") = write_store(Parsed("0x23"))
  /\ Printed("0x63") = write_branch(Parsed("0x63"))
  /\ Printed("0x37") = <<Line("lui", print_lui(Parsed("0x37")))>>
  /\ Printed("0x6F") = <<Line("jal", print_jal(Parsed("0x6F")))>>
  /\ Printed("0x73") = <<Line("ecall", <<>>)>>
<1>1. \A o \in Opcodes : WordOf(o).opcode = o /\ parse_instruction(WordOf(o)) = Parsed(o)
  BY DEF WordOf, Parsed
<1>2. ASSUME NEW word, NEW i, parse_instruction(word) = i
      PROVE  /\ word.opcode = "0x33" => decode_instruction(word) = write_rtype(i)
             /\ word.opcode = "0x13" => decode_instruction(word) = write_itype_except_load(i)
             /\ word.opcode = "0x03" => decode_instruction(word) = write_load(i)
             /\ word.opcode = "0x23" => decode_instruction(word) = write_store(i)
             /\ word.opcode = "0x63" => decode_instruction(word) = write_branch(i)
             /\ word.opcode = "0x37" => decode_instruction(word) = <<Line("lui", print_lui(i))>>
             /\ word.opcode = "0x6F" => decode_instruction(word) = <<Line("jal", print_jal(i))>>
             /\ word.opcode = "0x73" => decode_instruction(word) = <<Line("ecall", <<>>)>>
  BY <1>2 DEF decode_instruction
<1> QED BY <1>1, <1>2 DEF Printed, Opcodes

(* A line of a table is printed under the name of the table, and nothing but  *)
(* an invalid line of what the table does not know.                           *)
LEMMA NameOfOne ==
  ASSUME NEW table, NEW key, NEW args,
         key \in DOMAIN table => table[key] \notin {"Invalid", "invalid"}
  PROVE  Mnemonics(One(table, key, args))
             = {IF key \in DOMAIN table THEN table[key] ELSE "invalid"} \ {"invalid"}
<1>1. Mnemonics(One(table, key, args)) = IF key \in DOMAIN table THEN {table[key]} ELSE {}
  BY MnemonicsOfOne
<1>2. CASE key \in DOMAIN table
  BY <1>1, <1>2
<1>3. CASE key \notin DOMAIN table
  BY <1>1, <1>3
<1> QED BY <1>2, <1>3

(* The mnemonic that the disassembler prints is the one under which the       *)
(* emulator executes the word, and it prints none for what the emulator calls *)
(* invalid.                                                                   *)
THEOREM PrintsWhatRunsHolds ==
  ASSUME immBits = 12, shamtBits = 5
  PROVE  WalkSpec => []PrintsWhatRuns
<1>1. InWalk => PrintsWhatRuns
  <2> SUFFICES ASSUME InWalk, NEW o \in Opcodes
               PROVE  Mnemonics(Printed(o)) = {Executed(o)} \ {"invalid"}
    BY DEF PrintsWhatRuns, Mnemonics
  <2>0. funct3 \in Code3 /\ funct7 \in Code7 /\ field \in Imm12
    BY WalkFields DEF InWalk
  <2>1. CASE o = "0x33"
    <3> DEFINE i == Parsed("0x33")
               one == One(rtype_inner[i.funct3], i.funct7, print_rtype(i))
    <3>1. i.funct3 \in Code3 /\ i.funct7 \in Code7
      BY <2>0, WalkFields, WalkParsed, FieldsOfR
    <3> HIDE DEF i
    <3>2. Executed("0x33") = IF <<i.funct3, i.funct7>> \in DOMAIN RtypeName
                             THEN RtypeName[<<i.funct3, i.funct7>>] ELSE "invalid"
      BY DEF Executed, i
    <3>3. Mnemonics(one) = {IF i.funct7 \in DOMAIN rtype_inner[i.funct3]
                            THEN rtype_inner[i.funct3][i.funct7] ELSE "invalid"} \ {"invalid"}
      <4>1. i.funct7 \in DOMAIN rtype_inner[i.funct3]
                => rtype_inner[i.funct3][i.funct7] \notin {"Invalid", "invalid"}
        BY <3>1, RtypeTables
      <4> QED BY <4>1, NameOfOne
    <3>4. Mnemonics(write_rtype(i)) = Mnemonics(one)
      <4>1. i.funct7 \in DOMAIN rtype_inner[i.funct3]
                => rtype_inner[i.funct3][i.funct7] # "Invalid"
        BY <3>1, RtypeTables
      <4>2. Mnemonics(one \o <<Invalid>>) = Mnemonics(one) /\ one \o <<>> = one
        BY <4>1, MnemonicsOfOne
      <4>3. write_rtype(i) = one \o (IF i.funct3 \in FallsThrough THEN <<Invalid>> ELSE <<>>)
        BY DEF write_rtype
      <4> HIDE DEF one
      <4> QED BY <4>2, <4>3
    <3>5. Mnemonics(one) = {Executed("0x33")} \ {"invalid"}
      <4> HIDE DEF one
      <4>1. CASE <<i.funct3, i.funct7>> \in DOMAIN RtypeName
        BY <3>1, <3>2, <3>3, <4>1, RtypeTables
      <4>2. CASE <<i.funct3, i.funct7>> \notin DOMAIN RtypeName
        BY <3>1, <3>2, <3>3, <4>2, RtypeTables
      <4> QED BY <4>1, <4>2
    <3> HIDE DEF one
    <3> QED BY <2>1, <3>4, <3>5, WalkPrinted DEF i
  <2>2. CASE o = "0x13"
    <3>1. Parsed("0x13").funct3 \in Code3 /\ Parsed("0x13").imm \in Imm12
      BY <2>0, WalkFields, WalkParsed, FieldsOfI
    <3>2. Executed("0x13") = ItypeName(Parsed("0x13").funct3, Parsed("0x13").imm)
      BY DEF Executed
    <3> QED BY <2>2, <3>1, <3>2, ItypeTables, WalkPrinted
  <2>3. CASE o = "0x03"
    <3> DEFINE i == Parsed("0x03")
    <3>1. Executed("0x03") = IF i.funct3 \in DOMAIN LoadName THEN LoadName[i.funct3] ELSE "invalid"
      BY DEF Executed
    <3> HIDE DEF i
    <3>2. Mnemonics(write_load(i)) = {IF i.funct3 \in DOMAIN LoadName
                                      THEN LoadName[i.funct3] ELSE "invalid"} \ {"invalid"}
      BY CodeTables, NameOfOne DEF write_load
    <3> QED BY <2>3, <3>1, <3>2, WalkPrinted DEF i
  <2>4. CASE o = "0x23"
    <3> DEFINE i == Parsed("0x23")
    <3>1. Executed("0x23") = IF i.funct3 \in DOMAIN StoreName THEN StoreName[i.funct3] ELSE "invalid"
      BY DEF Executed
    <3> HIDE DEF i
    <3>2. Mnemonics(write_store(i)) = {IF i.funct3 \in DOMAIN StoreName
                                       THEN StoreName[i.funct3] ELSE "invalid"} \ {"invalid"}
      BY CodeTables, NameOfOne DEF write_store
    <3> QED BY <2>4, <3>1, <3>2, WalkPrinted DEF i
  <2>5. CASE o = "0x63"
    <3> DEFINE i == Parsed("0x63")
    <3>1. Executed("0x63") = IF i.funct3 \in DOMAIN BranchName THEN BranchName[i.funct3] ELSE "invalid"
      BY DEF Executed
    <3> HIDE DEF i
    <3>2. Mnemonics(write_branch(i)) = {IF i.funct3 \in DOMAIN BranchName
                                        THEN BranchName[i.funct3] ELSE "invalid"} \ {"invalid"}
      BY CodeTables, NameOfOne DEF write_branch
    <3> QED BY <2>5, <3>1, <3>2, WalkPrinted DEF i
  <2>6. CASE o \in {"0x37", "0x6F", "0x73"}
    <3>1. ASSUME NEW name \in {"lui", "jal", "ecall"}, NEW args
          PROVE  Mnemonics(<<Line(name, args)>>) = {name} \ {"invalid"}
      <4> DEFINE table == [k \in {0} |-> name]
      <4>1. One(table, 0, args) = <<Line(name, args)>>
        BY DEF One
      <4>2. Mnemonics(One(table, 0, args)) = {IF 0 \in DOMAIN table THEN table[0] ELSE "invalid"}
                                                 \ {"invalid"}
        BY NameOfOne
      <4>3. 0 \in DOMAIN table /\ table[0] = name
        OBVIOUS
      <4> HIDE DEF table
      <4> QED BY <4>1, <4>2, <4>3
    <3>2. /\ Executed("0x37") = "lui" /\ Executed("0x6F") = "jal" /\ Executed("0x73") = "ecall"
      BY DEF Executed
    <3> QED BY <2>6, <3>1, <3>2, WalkPrinted
  <2> QED BY <2>1, <2>2, <2>3, <2>4, <2>5, <2>6 DEF Opcodes
<1> QED BY <1>1, InWalkHolds, PTL

-----------------------------------------------------------------------------
(***************************************************************************)
(* The words of InstructionWords and the instructions of Emulator.         *)
(***************************************************************************)

(* A field of a word is below the power of two of its width. *)
LEMMA FieldBelow ==
  ASSUME NEW w \in Nat, NEW hi \in Nat, NEW lo \in ShiftCount, hi - lo + 1 \in ShiftCount
  PROVE  BitField(w, hi, lo) \in Nat /\ BitField(w, hi, lo) < Pow2[hi - lo + 1]
<1>1. Shr(w, lo) \in Nat
  BY ShrType
<1>2. BitField(w, hi, lo) \in 0 .. Pow2[hi - lo + 1] - 1
  BY <1>1, LowBitsType DEF BitField
<1> QED BY <1>2, Pow2Facts

(* The fields that utils.c takes out of a word are those of the formats. *)
LEMMA FieldTypes ==
  ASSUME NEW w \in Nat
  PROVE  /\ BitField(w, 4, 0) \in Register /\ BitField(w, 7, 5) \in Code3
         /\ BitField(w, 12, 8) \in Register /\ BitField(w, 17, 13) \in Register
         /\ BitField(w, 24, 18) \in Code7 /\ BitField(w, 24, 13) \in Imm12
         /\ BitField(w, 24, 5) \in Imm20
<1>1. /\ 0 \in ShiftCount /\ 5 \in ShiftCount /\ 8 \in ShiftCount /\ 13 \in ShiftCount
      /\ 18 \in ShiftCount /\ 3 \in ShiftCount /\ 7 \in ShiftCount /\ 12 \in ShiftCount
      /\ 20 \in ShiftCount
  BY DEF ShiftCount
<1>2. /\ 4 - 0 + 1 = 5 /\ 7 - 5 + 1 = 3 /\ 12 - 8 + 1 = 5 /\ 17 - 13 + 1 = 5
      /\ 24 - 18 + 1 = 7 /\ 24 - 13 + 1 = 12 /\ 24 - 5 + 1 = 20
  OBVIOUS
<1>3. /\ BitField(w, 4, 0) \in Nat /\ BitField(w, 4, 0) < Pow2[5]
      /\ BitField(w, 7, 5) \in Nat /\ BitField(w, 7, 5) < Pow2[3]
  BY <1>1, <1>2, FieldBelow
<1>4. /\ BitField(w, 12, 8) \in Nat /\ BitField(w, 12, 8) < Pow2[5]
      /\ BitField(w, 17, 13) \in Nat /\ BitField(w, 17, 13) < Pow2[5]
  BY <1>1, <1>2, FieldBelow
<1>5. /\ BitField(w, 24, 18) \in Nat /\ BitField(w, 24, 18) < Pow2[7]
      /\ BitField(w, 24, 13) \in Nat /\ BitField(w, 24, 13) < Pow2[12]
  BY <1>1, <1>2, FieldBelow
<1>6. BitField(w, 24, 5) \in Nat /\ BitField(w, 24, 5) < Pow2[20]
  BY <1>1, <1>2, FieldBelow
<1>7. \A x \in Nat : /\ x < Pow2[5] => x \in Register
                     /\ x < Pow2[3] => x \in Code3
                     /\ x < Pow2[7] => x \in Code7
                     /\ x < Pow2[12] => x \in Imm12
                     /\ x < Pow2[20] => x \in Imm20
  <2>1. Pow2[3] = 8 /\ Pow2[5] = 32 /\ Pow2[7] = 128 /\ Pow2[12] = 4096
    BY Powers
  <2> QED BY <2>1 DEF Register, Code3, Code7, Imm12, Imm20
<1> QED BY <1>3, <1>4, <1>5, <1>6, <1>7

(* The low bits of a number as a signed number are an integer. *)
LEMMA SignExtended ==
  ASSUME NEW w \in Nat, NEW n \in ShiftCount
  PROVE  sign_extend_number(w, n) \in Int
<1>1. LowBits(w, n) \in Int
  BY LowBitsType
<1>2. Pow2[n] \in Int
  BY Pow2Facts
<1> QED BY <1>1, <1>2 DEF sign_extend_number, Signed

(* The offsets that the helpers of utils.c make of any fields. *)
LEMMA OffsetTypes ==
  ASSUME NEW w \in Nat
  PROVE  /\ get_store_offset(stype(w)) \in Imm12
         /\ get_branch_offset(stype(w)) \in Int
         /\ jump_distance(utype(w)) \in Int
<1> DEFINE i == stype(w)
           j == utype(w)
<1>1. i.imm5 \in Register /\ i.imm7 \in Code7
  <2>1. i.imm5 = BitField(w, 4, 0) /\ i.imm7 = BitField(w, 24, 18)
    BY DEF stype
  <2> HIDE DEF i
  <2> QED BY <2>1, FieldTypes
<1>2. j.imm \in Nat
  BY FieldTypes DEF utype, Imm20
<1> HIDE DEF i, j
<1>3. get_store_offset(i) \in Imm12
  <2>1. get_store_offset(i) = i.imm7 * 32 + i.imm5
    BY Powers DEF get_store_offset
  <2>2. ASSUME NEW x \in Code7, NEW y \in Register PROVE x * 32 + y \in Imm12
    BY DEF Code7, Register, Imm12
  <2> QED BY <1>1, <2>1, <2>2
<1>4. get_branch_offset(i) \in Int
  <2>1. i.imm5 \in Nat /\ i.imm7 \in Nat
    BY <1>1 DEF Register, Code7
  <2>2. /\ 6 - 6 + 1 = 1 /\ 0 - 0 + 1 = 1 /\ 5 - 0 + 1 = 6 /\ 4 - 1 + 1 = 4
        /\ 0 \in ShiftCount /\ 1 \in ShiftCount /\ 4 \in ShiftCount /\ 6 \in ShiftCount
        /\ 13 \in ShiftCount
    BY DEF ShiftCount
  <2>3. BitField(i.imm7, 6, 6) \in Nat /\ BitField(i.imm5, 0, 0) \in Nat
    BY <2>1, <2>2, FieldBelow
  <2>4. BitField(i.imm7, 5, 0) \in Nat /\ BitField(i.imm5, 4, 1) \in Nat
    BY <2>1, <2>2, FieldBelow
  <2>5. ASSUME NEW x \in Nat, NEW y \in Nat, NEW z \in Nat, NEW u \in Nat
        PROVE  x * Pow2[12] + y * Pow2[11] + z * Pow2[5] + u * 2 \in Nat
    <3>1. Pow2[12] = 4096 /\ Pow2[11] = 2048 /\ Pow2[5] = 32
      BY Powers
    <3> QED BY <3>1
  <2>6. BitField(i.imm7, 6, 6) * Pow2[12] + BitField(i.imm5, 0, 0) * Pow2[11]
            + BitField(i.imm7, 5, 0) * Pow2[5] + BitField(i.imm5, 4, 1) * 2 \in Nat
    BY <2>3, <2>4, <2>5
  <2> QED BY <2>2, <2>6, SignExtended DEF get_branch_offset
<1>5. jump_distance(j) \in Int
  <2>1. /\ 19 - 19 + 1 = 1 /\ 7 - 0 + 1 = 8 /\ 8 - 8 + 1 = 1 /\ 19 - 10 + 1 = 10
        /\ 0 \in ShiftCount /\ 1 \in ShiftCount /\ 8 \in ShiftCount /\ 10 \in ShiftCount
        /\ 19 \in ShiftCount /\ 20 \in ShiftCount
    BY DEF ShiftCount
  <2>2. BitField(j.imm, 19, 19) \in Nat /\ BitField(j.imm, 7, 0) \in Nat
    BY <1>2, <2>1, FieldBelow
  <2>3. BitField(j.imm, 8, 8) \in Nat /\ BitField(j.imm, 19, 10) \in Nat
    BY <1>2, <2>1, FieldBelow
  <2>4. ASSUME NEW x \in Nat, NEW y \in Nat, NEW z \in Nat, NEW u \in Nat
        PROVE  2 * (x * Pow2[20] + y * Pow2[12] + z * Pow2[11] + u * 2) \in Nat
    <3>1. Pow2[20] = 1048576 /\ Pow2[12] = 4096 /\ Pow2[11] = 2048
      BY Powers
    <3> QED BY <3>1
  <2>5. get_jump_offset(j) \in Nat
    BY <2>2, <2>3, <2>4 DEF get_jump_offset
  <2> QED BY <2>1, <2>5, SignExtended DEF jump_distance
<1> QED BY <1>3, <1>4, <1>5 DEF i, j

(* The numbers of the opcodes have seven bits and tell the opcodes apart. *)
LEMMA OpcodeNumbers ==
  /\ \A o \in Opcodes : OpcodeNumber[o] \in 1 .. 127
  /\ \A o, p \in Opcodes : OpcodeNumber[o] = OpcodeNumber[p] => o = p
<1>1. /\ OpcodeNumber["0x33"] = 51 /\ OpcodeNumber["0x13"] = 19 /\ OpcodeNumber["0x03"] = 3
      /\ OpcodeNumber["0x73"] = 115 /\ OpcodeNumber["0x23"] = 35 /\ OpcodeNumber["0x63"] = 99
      /\ OpcodeNumber["0x37"] = 55 /\ OpcodeNumber["0x6F"] = 111
  BY DEF OpcodeNumber, Opcodes
<1> QED BY <1>1 DEF Opcodes

(* The opcode and the rest of a number that parse_instruction accepts. *)
LEMMA WordSplit ==
  ASSUME NEW n, NEW o \in Opcodes, LowBits(n, 7) = OpcodeNumber[o]
  PROVE  WordOfNumber(n) = [opcode |-> o, rest |-> Shr(n, 7)]
<1>1. \A p \in Opcodes : LowBits(n, 7) = OpcodeNumber[p] <=> p = o
  BY OpcodeNumbers
<1>2. (CHOOSE p \in Opcodes : LowBits(n, 7) = OpcodeNumber[p]) = o
  BY <1>1
<1> QED BY <1>2 DEF WordOfNumber

(* What Decoded makes of a word of each format. *)
LEMMA DecodedFormats ==
  ASSUME NEW w
  PROVE  /\ Decoded([opcode |-> "0x33", rest |-> w])
                = [opcode |-> "0x33", rd |-> rtype(w).rd, funct3 |-> rtype(w).funct3,
                   rs1 |-> rtype(w).rs1, rs2 |-> rtype(w).rs2, funct7 |-> rtype(w).funct7]
         /\ \A o \in {"0x13", "0x03"} : Decoded([opcode |-> o, rest |-> w])
                = [opcode |-> o, rd |-> itype(w).rd, funct3 |-> itype(w).funct3,
                   rs1 |-> itype(w).rs1, imm |-> itype(w).imm]
         /\ Decoded([opcode |-> "0x23", rest |-> w])
                = [opcode |-> "0x23", funct3 |-> stype(w).funct3, rs1 |-> stype(w).rs1,
                   rs2 |-> stype(w).rs2, imm |-> get_store_offset(stype(w))]
         /\ Decoded([opcode |-> "0x63", rest |-> w])
                = [opcode |-> "0x63", funct3 |-> stype(w).funct3, rs1 |-> stype(w).rs1,
                   rs2 |-> stype(w).rs2, imm |-> get_branch_offset(stype(w))]
         /\ Decoded([opcode |-> "0x6F", rest |-> w])
                = [opcode |-> "0x6F", rd |-> utype(w).rd, imm |-> jump_distance(utype(w))]
         /\ Decoded([opcode |-> "0x37", rest |-> w])
                = [opcode |-> "0x37", rd |-> utype(w).rd, imm |-> utype(w).imm]
         /\ Decoded([opcode |-> "0x73", rest |-> w]) = [opcode |-> "0x73"]
<1>1. ASSUME NEW word, NEW i, parse_instruction(word) = i
      PROVE  /\ word.opcode = "0x33" => Decoded(word) =
                   [opcode |-> "0x33", rd |-> i.rd, funct3 |-> i.funct3, rs1 |-> i.rs1,
                    rs2 |-> i.rs2, funct7 |-> i.funct7]
             /\ \A o \in {"0x13", "0x03"} : word.opcode = o => Decoded(word) =
                   [opcode |-> o, rd |-> i.rd, funct3 |-> i.funct3, rs1 |-> i.rs1, imm |-> i.imm]
             /\ word.opcode = "0x23" => Decoded(word) =
                   [opcode |-> "0x23", funct3 |-> i.funct3, rs1 |-> i.rs1, rs2 |-> i.rs2,
                    imm |-> get_store_offset(i)]
             /\ word.opcode = "0x63" => Decoded(word) =
                   [opcode |-> "0x63", funct3 |-> i.funct3, rs1 |-> i.rs1, rs2 |-> i.rs2,
                    imm |-> get_branch_offset(i)]
             /\ word.opcode = "0x6F" => Decoded(word) =
                   [opcode |-> "0x6F", rd |-> i.rd, imm |-> jump_distance(i)]
             /\ word.opcode = "0x37" => Decoded(word) =
                   [opcode |-> "0x37", rd |-> i.rd, imm |-> i.imm]
             /\ word.opcode = "0x73" => Decoded(word) = [opcode |-> "0x73"]
  BY <1>1 DEF Decoded
<1>2. /\ parse_instruction([opcode |-> "0x33", rest |-> w]) = rtype(w)
      /\ \A o \in {"0x13", "0x03"} : parse_instruction([opcode |-> o, rest |-> w]) = itype(w)
      /\ \A o \in {"0x23", "0x63"} : parse_instruction([opcode |-> o, rest |-> w]) = stype(w)
      /\ \A o \in {"0x37", "0x6F"} : parse_instruction([opcode |-> o, rest |-> w]) = utype(w)
  BY DEF parse_instruction
<1>3. \A o \in Opcodes : [opcode |-> o, rest |-> w].opcode = o
  OBVIOUS
<1> QED BY <1>1, <1>2, <1>3 DEF Opcodes

(* The immediates of the formats are those of Instructions. *)
LEMMA ImmediateSets ==
  ASSUME byteBits = 8, immBits = 12
  PROVE  /\ Imm12 = 0 .. Pow2[immBits] - 1
         /\ Imm20 = 0 .. Pow2[WordBits - immBits] - 1
<1>1. WordBits - immBits = 20 /\ Pow2[immBits] = 4096
  BY Powers DEF WordBits
<1>2. Pow2[20] \in Nat
  BY Pow2Facts DEF ShiftCount
<1>3. \A p \in Nat : {t \in Nat : t < p} = 0 .. p - 1
  OBVIOUS
<1> QED BY <1>1, <1>2, <1>3 DEF Imm12, Imm20

(* The instruction of a word has the fields of its format, whatever the word. *)
LEMMA InstructionOfWord ==
  ASSUME byteBits = 8, immBits = 12, Regs = Register, NEW o \in Opcodes, NEW w \in Nat
  PROVE  Decoded([opcode |-> o, rest |-> w]) \in Instructions
<1> DEFINE i == Decoded([opcode |-> o, rest |-> w])
<1>1. Imm12 = 0 .. Pow2[immBits] - 1 /\ Imm20 = 0 .. Pow2[WordBits - immBits] - 1
  BY ImmediateSets
<1>2. /\ rtype(w).rd \in Regs /\ rtype(w).funct3 \in 0 .. 7 /\ rtype(w).rs1 \in Regs
      /\ rtype(w).rs2 \in Regs /\ rtype(w).funct7 \in 0 .. 127
  BY FieldTypes DEF rtype, Code3, Code7
<1>3. /\ itype(w).rd \in Regs /\ itype(w).funct3 \in 0 .. 7 /\ itype(w).rs1 \in Regs
      /\ itype(w).imm \in Imm12
  BY FieldTypes DEF itype, Code3
<1>4. stype(w).funct3 \in 0 .. 7 /\ stype(w).rs1 \in Regs /\ stype(w).rs2 \in Regs
  BY FieldTypes DEF stype, Code3
<1>5. utype(w).rd \in Regs /\ utype(w).imm \in Imm20
  BY FieldTypes DEF utype
<1>6. CASE o = "0x33"
  <2>1. i = [opcode |-> "0x33", rd |-> rtype(w).rd, funct3 |-> rtype(w).funct3,
             rs1 |-> rtype(w).rs1, rs2 |-> rtype(w).rs2, funct7 |-> rtype(w).funct7]
    BY <1>6, DecodedFormats
  <2> HIDE DEF i
  <2>2. i \in [opcode : {"0x33"}, rd : Regs, funct3 : 0 .. 7, rs1 : Regs, rs2 : Regs,
               funct7 : 0 .. 127]
    BY <1>2, <2>1
  <2> QED BY <2>2 DEF Instructions, i
<1>7. CASE o \in {"0x13", "0x03"}
  <2>1. i = [opcode |-> o, rd |-> itype(w).rd, funct3 |-> itype(w).funct3,
             rs1 |-> itype(w).rs1, imm |-> itype(w).imm]
    BY <1>7, DecodedFormats
  <2> HIDE DEF i
  <2>2. i \in [opcode : {"0x13", "0x03"}, rd : Regs, funct3 : 0 .. 7, rs1 : Regs, imm : Imm12]
    BY <1>3, <1>7, <2>1
  <2> QED BY <1>1, <2>2 DEF Instructions, i
<1>8. CASE o = "0x23"
  <2>1. i = [opcode |-> "0x23", funct3 |-> stype(w).funct3, rs1 |-> stype(w).rs1,
             rs2 |-> stype(w).rs2, imm |-> get_store_offset(stype(w))]
    BY <1>8, DecodedFormats
  <2> HIDE DEF i
  <2>2. i \in [opcode : {"0x23"}, funct3 : 0 .. 7, rs1 : Regs, rs2 : Regs, imm : Imm12]
    BY <1>4, <2>1, OffsetTypes
  <2> QED BY <1>1, <2>2 DEF Instructions, i
<1>9. CASE o = "0x63"
  <2>1. i = [opcode |-> "0x63", funct3 |-> stype(w).funct3, rs1 |-> stype(w).rs1,
             rs2 |-> stype(w).rs2, imm |-> get_branch_offset(stype(w))]
    BY <1>9, DecodedFormats
  <2> HIDE DEF i
  <2>2. i \in [opcode : {"0x63"}, funct3 : 0 .. 7, rs1 : Regs, rs2 : Regs, imm : Int]
    BY <1>4, <2>1, OffsetTypes
  <2> QED BY <2>2 DEF Instructions, i
<1>10. CASE o = "0x6F"
  <2>1. i = [opcode |-> "0x6F", rd |-> utype(w).rd, imm |-> jump_distance(utype(w))]
    BY <1>10, DecodedFormats
  <2> HIDE DEF i
  <2>2. i \in [opcode : {"0x6F"}, rd : Regs, imm : Int]
    BY <1>5, <2>1, OffsetTypes
  <2> QED BY <2>2 DEF Instructions, i
<1>11. CASE o = "0x37"
  <2>1. i = [opcode |-> "0x37", rd |-> utype(w).rd, imm |-> utype(w).imm]
    BY <1>11, DecodedFormats
  <2> HIDE DEF i
  <2>2. i \in [opcode : {"0x37"}, rd : Regs, imm : Imm20]
    BY <1>5, <2>1
  <2> QED BY <1>1, <2>2 DEF Instructions, i
<1>12. CASE o = "0x73"
  <2>1. i = [opcode |-> "0x73"]
    BY <1>12, DecodedFormats
  <2> HIDE DEF i
  <2>2. i \in [opcode : {"0x73"}]
    BY <2>1
  <2> QED BY <2>2 DEF Instructions, i
<1> QED BY <1>6, <1>7, <1>8, <1>9, <1>10, <1>11, <1>12 DEF Opcodes

(* The words that the table knows are words of memory and not zero, and what  *)
(* it makes of them are instructions: the machine of module Emulator may take *)
(* it for InstructionOf.                                                      *)
THEOREM TableOfInstructions ==
  ASSUME byteBits = 8, immBits = 12, Regs = Register
  PROVE  \A n \in DOMAIN InstructionTable :
             n \in Word \ {0} /\ InstructionTable[n] \in Instructions
<1> SUFFICES ASSUME NEW n \in Decodable
             PROVE  n \in Word \ {0} /\ Decoded(WordOfNumber(n)) \in Instructions
  BY DEF InstructionTable
<1> DEFINE w == Shr(n, 7)
<1>1. n \in Word /\ n \in Nat /\ 7 \in ShiftCount
  BY WordWidth DEF Decodable, Word, ShiftCount
<1>2. PICK o \in Opcodes : LowBits(n, 7) = OpcodeNumber[o]
  BY DEF Decodable
<1>3. n # 0
  <2>1. LowBits(0, 7) = 0
    BY Powers DEF LowBits
  <2> QED BY <1>2, <2>1, OpcodeNumbers
<1>4. WordOfNumber(n) = [opcode |-> o, rest |-> w]
  BY <1>2, WordSplit
<1>5. w \in Nat
  BY <1>1, ShrType
<1> HIDE DEF w
<1>6. Decoded([opcode |-> o, rest |-> w]) \in Instructions
  BY <1>5, InstructionOfWord
<1> QED BY <1>1, <1>3, <1>4, <1>6

(* The word made of an opcode and 25 bits is one that the table knows, and is *)
(* taken apart into the two.                                                  *)
LEMMA WordMade ==
  ASSUME byteBits = 8, NEW o \in Opcodes, NEW w \in Nat, w < Pow2[25]
  PROVE  LET n == OpcodeNumber[o] + Pow2[7] * w IN
         n \in Decodable /\ WordOfNumber(n) = [opcode |-> o, rest |-> w]
<1> DEFINE n == OpcodeNumber[o] + Pow2[7] * w
<1>1. OpcodeNumber[o] \in 1 .. 127
  BY OpcodeNumbers
<1>2. Pow2[7] = 128 /\ 7 \in ShiftCount
  BY Powers DEF ShiftCount
<1>3. n \in Nat /\ n = OpcodeNumber[o] + 128 * w
  BY <1>1, <1>2
<1>4. n \in Word
  <2>1. /\ WordBits = 32 /\ 7 + 25 = 32
        /\ 7 \in ShiftCount /\ 25 \in ShiftCount /\ 7 + 25 \in ShiftCount
    BY DEF WordBits, ShiftCount
  <2>2. Pow2[25] \in Nat
    BY <2>1, Pow2Facts
  <2>6. Pow2[32] = Pow2[7] * Pow2[25]
    <3>1. Pow2[7 + 25] = Pow2[7] * Pow2[25]
      BY <2>1, Pow2Sum, ZenonT(30)
    <3> QED BY <2>1, <3>1
  <2> HIDE DEF n
  <2>3. n < 128 * Pow2[25]
    BY <1>1, <1>3, <2>2
  <2>4. n < Pow2[WordBits]
    BY <1>2, <2>1, <2>3, <2>6
  <2>5. Pow2[WordBits] \in Nat
    BY WordWidth
  <2> QED BY <1>3, <2>4, <2>5 DEF Word
<1>5. Splits(n, 7, w, OpcodeNumber[o])
  BY <1>1, <1>2, <1>3 DEF Splits
<1> HIDE DEF n
<1>6. Shr(n, 7) = w /\ LowBits(n, 7) = OpcodeNumber[o]
  BY <1>2, <1>5, SplitBits
<1>7. n \in Decodable
  BY <1>4, <1>6 DEF Decodable
<1>8. WordOfNumber(n) = [opcode |-> o, rest |-> w]
  BY <1>6, WordSplit
<1> QED BY <1>7, <1>8 DEF n

(* The words of the formats have 25 bits besides the opcode. *)
LEMMA FormatsFit ==
  ASSUME NEW d \in Register, NEW f \in Code3, NEW s \in Register, NEW r \in Register
  PROVE  /\ \A c \in Code7 : EncodeR(d, f, s, r, c) \in Nat /\ EncodeR(d, f, s, r, c) < Pow2[25]
         /\ \A t \in Imm12 : EncodeI(d, f, s, t) \in Nat /\ EncodeI(d, f, s, t) < Pow2[25]
         /\ \A t \in Imm20 : EncodeU(d, t) \in Nat /\ EncodeU(d, t) < Pow2[25]
<1>1. Pow2[25] = 32 * 1048576
  <2>1. 5 \in ShiftCount /\ 20 \in ShiftCount /\ 5 + 20 \in ShiftCount /\ 5 + 20 = 25
    BY DEF ShiftCount
  <2>2. Pow2[25] = Pow2[5] * Pow2[20]
    BY <2>1, Pow2Sum
  <2> QED BY <2>2, Powers
<1>2. d \in 0 .. 31 /\ f \in 0 .. 7 /\ s \in 0 .. 31 /\ r \in 0 .. 31
  BY DEF Register, Code3
<1>3. ASSUME NEW c \in Code7
      PROVE  EncodeR(d, f, s, r, c) \in Nat /\ EncodeR(d, f, s, r, c) < Pow2[25]
  <2>1. EncodeR(d, f, s, r, c) = d + f * 32 + s * 256 + r * 8192 + c * 262144
    BY Powers DEF EncodeR
  <2>2. c \in 0 .. 127
    BY DEF Code7
  <2> QED BY <1>1, <1>2, <2>1, <2>2
<1>4. ASSUME NEW t \in Imm12
      PROVE  EncodeI(d, f, s, t) \in Nat /\ EncodeI(d, f, s, t) < Pow2[25]
  <2>1. EncodeI(d, f, s, t) = d + f * 32 + s * 256 + t * 8192
    BY Powers DEF EncodeI
  <2>2. t \in 0 .. 4095
    BY DEF Imm12
  <2> QED BY <1>1, <1>2, <2>1, <2>2
<1>5. ASSUME NEW t \in Imm20
      PROVE  EncodeU(d, t) \in Nat /\ EncodeU(d, t) < Pow2[25]
  <2>1. EncodeU(d, t) = d + t * 32
    BY Powers DEF EncodeU
  <2>2. t \in Nat /\ t < 1048576
    BY Powers DEF Imm20
  <2> QED BY <1>1, <1>2, <2>1, <2>2
<1> QED BY <1>3, <1>4, <1>5

(* The words whose immediate is divided are words of those formats; a jal      *)
(* keeps its register.                                                        *)
LEMMA DividedFit ==
  ASSUME NEW d \in Register, NEW f \in Code3, NEW s \in Register, NEW r \in Register
  PROVE  /\ \A t \in Imm12 : EncodeS(t, f, s, r) \in Nat /\ EncodeS(t, f, s, r) < Pow2[25]
         /\ \A t \in Int : EncodeB(t, f, s, r) \in Nat /\ EncodeB(t, f, s, r) < Pow2[25]
         /\ \A t \in Int : /\ EncodeJ(d, t) \in Nat /\ EncodeJ(d, t) < Pow2[25]
                           /\ utype(EncodeJ(d, t)).rd = d
<1>1. \A n \in 0 .. 21 : n \in ShiftCount
  BY DEF ShiftCount
<1>2. ASSUME NEW x \in Int, NEW n \in {13, 21} PROVE LowBits(x, n) \in Nat
  <2>1. Pow2[n] \in Nat \ {0}
    BY <1>1, Pow2Facts
  <2>2. \A p \in Nat \ {0} : x % p \in Nat
    OBVIOUS
  <2> QED BY <2>1, <2>2 DEF LowBits
<1>3. ASSUME NEW x \in Nat
      PROVE  /\ BitField(x, 4, 0) \in Nat /\ BitField(x, 4, 0) < Pow2[5]
             /\ BitField(x, 11, 5) \in Nat /\ BitField(x, 11, 5) < Pow2[7]
             /\ BitField(x, 4, 1) \in Nat /\ BitField(x, 4, 1) < Pow2[4]
             /\ BitField(x, 10, 5) \in Nat /\ BitField(x, 10, 5) < Pow2[6]
             /\ BitField(x, 11, 11) \in Nat /\ BitField(x, 11, 11) < Pow2[1]
             /\ BitField(x, 12, 12) \in Nat /\ BitField(x, 12, 12) < Pow2[1]
             /\ BitField(x, 20, 20) \in Nat /\ BitField(x, 20, 20) < Pow2[1]
             /\ BitField(x, 10, 1) \in Nat /\ BitField(x, 10, 1) < Pow2[10]
             /\ BitField(x, 19, 12) \in Nat /\ BitField(x, 19, 12) < Pow2[8]
  <2>1. /\ 4 - 0 + 1 = 5 /\ 11 - 5 + 1 = 7 /\ 4 - 1 + 1 = 4 /\ 10 - 5 + 1 = 6
        /\ 11 - 11 + 1 = 1 /\ 12 - 12 + 1 = 1 /\ 20 - 20 + 1 = 1 /\ 10 - 1 + 1 = 10
        /\ 19 - 12 + 1 = 8
    OBVIOUS
  <2>2. /\ 0 \in ShiftCount /\ 1 \in ShiftCount /\ 4 \in ShiftCount /\ 5 \in ShiftCount
        /\ 6 \in ShiftCount /\ 7 \in ShiftCount /\ 8 \in ShiftCount /\ 10 \in ShiftCount
        /\ 11 \in ShiftCount /\ 12 \in ShiftCount /\ 20 \in ShiftCount
    BY DEF ShiftCount
  <2>3. /\ BitField(x, 4, 0) \in Nat /\ BitField(x, 4, 0) < Pow2[5]
        /\ BitField(x, 11, 5) \in Nat /\ BitField(x, 11, 5) < Pow2[7]
    BY <2>1, <2>2, FieldBelow
  <2>4. /\ BitField(x, 4, 1) \in Nat /\ BitField(x, 4, 1) < Pow2[4]
        /\ BitField(x, 10, 5) \in Nat /\ BitField(x, 10, 5) < Pow2[6]
    BY <2>1, <2>2, FieldBelow
  <2>5. /\ BitField(x, 11, 11) \in Nat /\ BitField(x, 11, 11) < Pow2[1]
        /\ BitField(x, 12, 12) \in Nat /\ BitField(x, 12, 12) < Pow2[1]
    BY <2>1, <2>2, FieldBelow
  <2>6. /\ BitField(x, 20, 20) \in Nat /\ BitField(x, 20, 20) < Pow2[1]
        /\ BitField(x, 10, 1) \in Nat /\ BitField(x, 10, 1) < Pow2[10]
    BY <2>1, <2>2, FieldBelow
  <2>7. BitField(x, 19, 12) \in Nat /\ BitField(x, 19, 12) < Pow2[8]
    BY <2>1, <2>2, FieldBelow
  <2> QED BY <2>3, <2>4, <2>5, <2>6, <2>7
<1>4. ASSUME NEW t \in Imm12
      PROVE  EncodeS(t, f, s, r) \in Nat /\ EncodeS(t, f, s, r) < Pow2[25]
  <2>1. t \in Nat
    BY DEF Imm12
  <2>2. BitField(t, 4, 0) \in Nat /\ BitField(t, 4, 0) < Pow2[5]
    BY <1>3, <2>1
  <2>3. BitField(t, 11, 5) \in Nat /\ BitField(t, 11, 5) < Pow2[7]
    BY <1>3, <2>1
  <2>4. BitField(t, 4, 0) \in Register /\ BitField(t, 11, 5) \in Code7
    BY <2>2, <2>3, Powers DEF Register, Code7
  <2> QED BY <2>4, FormatsFit DEF EncodeS
<1>5. ASSUME NEW t \in Int
      PROVE  EncodeB(t, f, s, r) \in Nat /\ EncodeB(t, f, s, r) < Pow2[25]
  <2> DEFINE o == LowBits(t, 13)
             u == BitField(o, 4, 1)
             v == BitField(o, 11, 11)
             y == BitField(o, 12, 12)
             z == BitField(o, 10, 5)
  <2>1. o \in Nat
    BY <1>2
  <2> HIDE DEF o
  <2>2. u \in Nat /\ u < Pow2[4] /\ v \in Nat /\ v < Pow2[1]
    BY <1>3, <2>1
  <2>3. y \in Nat /\ y < Pow2[1] /\ z \in Nat /\ z < Pow2[6]
    BY <1>3, <2>1
  <2> HIDE DEF u, v, y, z
  <2>4. u * 2 + v \in Register /\ y * Pow2[6] + z \in Code7
    BY <2>2, <2>3, Powers DEF Register, Code7
  <2>5. EncodeB(t, f, s, r) = EncodeR(u * 2 + v, f, s, r, y * Pow2[6] + z)
    BY DEF EncodeB, o, u, v, y, z
  <2> QED BY <2>4, <2>5, FormatsFit
<1>6. ASSUME NEW t \in Int
      PROVE  /\ EncodeJ(d, t) \in Nat /\ EncodeJ(d, t) < Pow2[25]
             /\ utype(EncodeJ(d, t)).rd = d
  <2> DEFINE o == LowBits(t, 21)
             u == BitField(o, 20, 20)
             v == BitField(o, 10, 1)
             y == BitField(o, 11, 11)
             z == BitField(o, 19, 12)
             m == u * Pow2[19] + v * Pow2[9] + y * Pow2[8] + z
  <2>1. o \in Nat
    BY <1>2
  <2> HIDE DEF o
  <2>2. u \in Nat /\ u < Pow2[1] /\ v \in Nat /\ v < Pow2[10]
    BY <1>3, <2>1
  <2>3. y \in Nat /\ y < Pow2[1] /\ z \in Nat /\ z < Pow2[8]
    BY <1>3, <2>1
  <2> HIDE DEF u, v, y, z
  <2>4. m = u * 524288 + v * 512 + y * 256 + z /\ m \in Nat /\ m < 1048576
    BY <2>2, <2>3, Powers
  <2> HIDE DEF m
  <2>5. m \in Imm20
    BY <2>4, Powers DEF Imm20
  <2>6. EncodeJ(d, t) = EncodeU(d, m)
    BY DEF EncodeJ, m, o, u, v, y, z
  <2>7. utype(EncodeJ(d, t)) = [rd |-> d, imm |-> m]
    BY <2>5, <2>6, FieldsOfU
  <2> QED BY <2>5, <2>6, <2>7, FormatsFit
<1> QED BY <1>4, <1>5, <1>6

(* The format of an instruction follows from its opcode. *)
LEMMA InstructionFormats ==
  ASSUME byteBits = 8, immBits = 12, Regs = Register, NEW i \in Instructions
  PROVE  /\ i.opcode \in Opcodes
         /\ i.opcode = "0x33" => i \in [opcode : {"0x33"}, rd : Register, funct3 : Code3,
                                        rs1 : Register, rs2 : Register, funct7 : Code7]
         /\ i.opcode \in {"0x13", "0x03"} =>
                i \in [opcode : {"0x13", "0x03"}, rd : Register, funct3 : Code3,
                       rs1 : Register, imm : Imm12]
         /\ i.opcode = "0x23" => i \in [opcode : {"0x23"}, funct3 : Code3, rs1 : Register,
                                        rs2 : Register, imm : Imm12]
         /\ i.opcode = "0x63" => i \in [opcode : {"0x63"}, funct3 : Code3, rs1 : Register,
                                        rs2 : Register, imm : Int]
         /\ i.opcode = "0x6F" => i \in [opcode : {"0x6F"}, rd : Register, imm : Int]
         /\ i.opcode = "0x37" => i \in [opcode : {"0x37"}, rd : Register, imm : Imm20]
         /\ i.opcode = "0x73" => i \in [opcode : {"0x73"}]
<1> DEFINE Rs == [opcode : {"0x33"}, rd : Register, funct3 : Code3, rs1 : Register,
                  rs2 : Register, funct7 : Code7]
           Is == [opcode : {"0x13", "0x03"}, rd : Register, funct3 : Code3, rs1 : Register,
                  imm : Imm12]
           Ss == [opcode : {"0x23"}, funct3 : Code3, rs1 : Register, rs2 : Register, imm : Imm12]
           Bs == [opcode : {"0x63"}, funct3 : Code3, rs1 : Register, rs2 : Register, imm : Int]
           Js == [opcode : {"0x6F"}, rd : Register, imm : Int]
           Us == [opcode : {"0x37"}, rd : Register, imm : Imm20]
           Es == [opcode : {"0x73"}]
<1>1. i \in Rs \cup Is \cup Ss \cup Bs \cup Js \cup Us \cup Es
  BY ImmediateSets DEF Instructions, Code3, Code7
<1>2. /\ i \in Rs => i.opcode = "0x33"
      /\ i \in Is => i.opcode \in {"0x13", "0x03"}
      /\ i \in Ss => i.opcode = "0x23"
      /\ i \in Bs => i.opcode = "0x63"
      /\ i \in Js => i.opcode = "0x6F"
      /\ i \in Us => i.opcode = "0x37"
      /\ i \in Es => i.opcode = "0x73"
  OBVIOUS
<1> HIDE DEF Rs, Is, Ss, Bs, Js, Us, Es
<1>3. /\ i.opcode \in Opcodes
      /\ i.opcode = "0x33" => i \in Rs
      /\ i.opcode \in {"0x13", "0x03"} => i \in Is
      /\ i.opcode = "0x23" => i \in Ss
      /\ i.opcode = "0x63" => i \in Bs
      /\ i.opcode = "0x6F" => i \in Js
      /\ i.opcode = "0x37" => i \in Us
      /\ i.opcode = "0x73" => i \in Es
  BY <1>1, <1>2 DEF Opcodes
<1> QED BY <1>3 DEF Rs, Is, Ss, Bs, Js, Us, Es

(* What an assembler writes for an instruction the table takes for that       *)
(* instruction: all of it but a jal, and a jal exactly if it jumps no further *)
(* than 2 KB.                                                                 *)
THEOREM AssembledComesBack ==
  ASSUME byteBits = 8, immBits = 12, Regs = Register, NEW i \in Instructions,
         i.opcode = "0x63" => i.imm \in EvenBranch,
         i.opcode = "0x6F" => i.imm \in Jump
  PROVE  /\ Assembled(i) \in DOMAIN InstructionTable
         /\ InstructionTable[Assembled(i)] = i <=> (i.opcode = "0x6F" => i.imm \in Near)
<1> DEFINE o == i.opcode
           w == AssembledRest(i)
           Fits == w \in Nat /\ w < Pow2[25]
           Back == Decoded([opcode |-> o, rest |-> w]) = i
<1>1. ASSUME Fits
      PROVE  Assembled(i) \in DOMAIN InstructionTable
             /\ InstructionTable[Assembled(i)] = Decoded([opcode |-> o, rest |-> w])
  <2>1. o \in Opcodes
    BY InstructionFormats
  <2>2. Assembled(i) = OpcodeNumber[o] + Pow2[7] * w
    BY DEF Assembled
  <2> HIDE DEF w, o
  <2>3. /\ Assembled(i) \in Decodable
        /\ WordOfNumber(Assembled(i)) = [opcode |-> o, rest |-> w]
    BY <1>1, <2>1, <2>2, WordMade
  <2> QED BY <2>3 DEF InstructionTable
<1>2. CASE o = "0x33"
  <2>1. i \in [opcode : {"0x33"}, rd : Register, funct3 : Code3, rs1 : Register,
               rs2 : Register, funct7 : Code7]
    BY <1>2, InstructionFormats
  <2>2. w = EncodeR(i.rd, i.funct3, i.rs1, i.rs2, i.funct7)
    BY <1>2 DEF AssembledRest
  <2> HIDE DEF w
  <2>3. Fits
    BY <2>1, <2>2, FormatsFit
  <2>4. /\ rtype(w).rd = i.rd /\ rtype(w).funct3 = i.funct3 /\ rtype(w).rs1 = i.rs1
        /\ rtype(w).rs2 = i.rs2 /\ rtype(w).funct7 = i.funct7
    BY <2>1, <2>2, FieldsOfR
  <2>5. Decoded([opcode |-> o, rest |-> w])
            = [opcode |-> "0x33", rd |-> i.rd, funct3 |-> i.funct3, rs1 |-> i.rs1,
               rs2 |-> i.rs2, funct7 |-> i.funct7]
    BY <1>2, <2>4, DecodedFormats
  <2>6. Back
    BY <2>1, <2>5
  <2> HIDE DEF Fits
  <2> QED BY <1>1, <1>2, <2>3, <2>6
<1>3. CASE o \in {"0x13", "0x03"}
  <2>1. i \in [opcode : {"0x13", "0x03"}, rd : Register, funct3 : Code3, rs1 : Register,
               imm : Imm12]
    BY <1>3, InstructionFormats
  <2>2. w = EncodeI(i.rd, i.funct3, i.rs1, i.imm)
    BY <1>3 DEF AssembledRest
  <2> HIDE DEF w
  <2>3. Fits
    BY <2>1, <2>2, FormatsFit
  <2>4. /\ itype(w).rd = i.rd /\ itype(w).funct3 = i.funct3 /\ itype(w).rs1 = i.rs1
        /\ itype(w).imm = i.imm
    BY <2>1, <2>2, FieldsOfI
  <2>5. Decoded([opcode |-> o, rest |-> w])
            = [opcode |-> o, rd |-> i.rd, funct3 |-> i.funct3, rs1 |-> i.rs1, imm |-> i.imm]
    BY <1>3, <2>4, DecodedFormats
  <2>6. Back
    BY <2>1, <2>5
  <2> HIDE DEF Fits
  <2> QED BY <1>1, <1>3, <2>3, <2>6
<1>4. CASE o = "0x23"
  <2>1. i \in [opcode : {"0x23"}, funct3 : Code3, rs1 : Register, rs2 : Register, imm : Imm12]
    BY <1>4, InstructionFormats
  <2>2. w = EncodeS(i.imm, i.funct3, i.rs1, i.rs2)
    BY <1>4 DEF AssembledRest
  <2> HIDE DEF w
  <2>3. Fits
    BY <2>1, <2>2, DividedFit
  <2>4. /\ get_store_offset(stype(w)) = i.imm
        /\ stype(w).funct3 = i.funct3 /\ stype(w).rs1 = i.rs1 /\ stype(w).rs2 = i.rs2
    BY <2>1, <2>2, StoreOffset
  <2>5. Decoded([opcode |-> o, rest |-> w])
            = [opcode |-> "0x23", funct3 |-> i.funct3, rs1 |-> i.rs1, rs2 |-> i.rs2,
               imm |-> i.imm]
    BY <1>4, <2>4, DecodedFormats
  <2>6. Back
    BY <2>1, <2>5
  <2> HIDE DEF Fits
  <2> QED BY <1>1, <1>4, <2>3, <2>6
<1>5. CASE o = "0x63"
  <2>1. i \in [opcode : {"0x63"}, funct3 : Code3, rs1 : Register, rs2 : Register, imm : Int]
        /\ i.imm \in EvenBranch
    BY <1>5, InstructionFormats
  <2>2. w = EncodeB(i.imm, i.funct3, i.rs1, i.rs2)
    BY <1>5 DEF AssembledRest
  <2> HIDE DEF w
  <2>3. Fits
    BY <2>1, <2>2, DividedFit
  <2>4. /\ get_branch_offset(stype(w)) = i.imm
        /\ stype(w).funct3 = i.funct3 /\ stype(w).rs1 = i.rs1 /\ stype(w).rs2 = i.rs2
    BY <2>1, <2>2, BranchOffset
  <2>5. Decoded([opcode |-> o, rest |-> w])
            = [opcode |-> "0x63", funct3 |-> i.funct3, rs1 |-> i.rs1, rs2 |-> i.rs2,
               imm |-> i.imm]
    BY <1>5, <2>4, DecodedFormats
  <2>6. Back
    BY <2>1, <2>5
  <2> HIDE DEF Fits
  <2> QED BY <1>1, <1>5, <2>3, <2>6
<1>6. CASE o = "0x37"
  <2>1. i \in [opcode : {"0x37"}, rd : Register, imm : Imm20]
    BY <1>6, InstructionFormats
  <2>2. w = EncodeU(i.rd, i.imm)
    BY <1>6 DEF AssembledRest
  <2> HIDE DEF w
  <2>3. Fits
    BY <2>1, <2>2, FormatsFit DEF Code3
  <2>4. utype(w).rd = i.rd /\ utype(w).imm = i.imm
    BY <2>1, <2>2, FieldsOfU
  <2>5. Decoded([opcode |-> o, rest |-> w]) = [opcode |-> "0x37", rd |-> i.rd, imm |-> i.imm]
    BY <1>6, <2>4, DecodedFormats
  <2>6. Back
    BY <2>1, <2>5
  <2> HIDE DEF Fits
  <2> QED BY <1>1, <1>6, <2>3, <2>6
<1>7. CASE o = "0x6F"
  <2>1. i \in [opcode : {"0x6F"}, rd : Register, imm : Int] /\ i.imm \in Jump
    BY <1>7, InstructionFormats
  <2>2. w = EncodeJ(i.rd, i.imm)
    BY <1>7 DEF AssembledRest
  <2> HIDE DEF w
  <2>3. i.rd \in Register /\ 0 \in Register /\ 0 \in Code3 /\ i.imm \in Int
    BY <2>1 DEF Register, Code3
  <2>4. Fits
    BY <2>2, <2>3, DividedFit
  <2>5. utype(w).rd = i.rd
    BY <2>2, <2>3, DividedFit
  <2>6. Decoded([opcode |-> o, rest |-> w])
            = [opcode |-> "0x6F", rd |-> i.rd, imm |-> jump_distance(utype(w))]
    BY <1>7, <2>5, DecodedFormats
  <2>7. jump_distance(utype(w)) = i.imm <=> i.imm \in Near
    BY <2>1, <2>2, JumpOffset
  <2>8. Back <=> i.imm \in Near
    BY <2>1, <2>6, <2>7
  <2> HIDE DEF Fits
  <2> QED BY <1>1, <1>7, <2>4, <2>8
<1>8. CASE o = "0x73"
  <2>1. i \in [opcode : {"0x73"}]
    BY <1>8, InstructionFormats
  <2>2. w = 0
    BY <1>8 DEF AssembledRest
  <2> HIDE DEF w
  <2>3. Fits
    BY <2>2, Pow2Facts DEF ShiftCount
  <2>5. Decoded([opcode |-> o, rest |-> w]) = [opcode |-> "0x73"]
    BY <1>8, DecodedFormats
  <2>6. Back
    BY <2>1, <2>5
  <2> HIDE DEF Fits
  <2> QED BY <1>1, <1>8, <2>3, <2>6
<1>9. o \in Opcodes
  BY InstructionFormats
<1> HIDE DEF o
<1> QED BY <1>2, <1>3, <1>4, <1>5, <1>6, <1>7, <1>8, <1>9 DEF Opcodes

=============================================================================
