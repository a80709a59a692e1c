---------------------------- MODULE CacheProofs -----------------------------
(***************************************************************************)
(* Theorems about module Cache, for every geometry, every replacement      *)
(* policy and every set of addresses.                                      *)
(***************************************************************************)
EXTENDS CacheRefinement, BitsProofs, FiniteSetTheorems, SequenceTheorems

-----------------------------------------------------------------------------
(* The address arithmetic. *)

LEMMA GeometryTypes ==
  /\ 0 \in SetIndex
  /\ 0 \in LineIndex
  /\ SetIndex \subseteq Nat
  /\ LineIndex \subseteq Nat
  /\ blockBits \in ShiftCount
  /\ setBits \in ShiftCount
<1>1. Pow2[setBits] \in Nat \ {0}
  BY GeometryAssumption, Pow2Facts
<1> QED BY <1>1, GeometryAssumption DEF SetIndex, LineIndex

(* Every address has a block, a set and a tag, and its block has the same set
   and tag as the address. *)
LEMMA AddressParts ==
  ASSUME NEW a \in Nat
  PROVE  /\ address_to_block(a) \in Nat
         /\ cache_tag(a) \in Nat
         /\ cache_set(a) \in SetIndex
         /\ address_to_block(address_to_block(a)) = address_to_block(a)
         /\ cache_set(address_to_block(a)) = cache_set(a)
         /\ cache_tag(address_to_block(a)) = cache_tag(a)
<1> DEFINE q == Shr(a, blockBits)
<1>1. q \in Nat
  BY ShrType, GeometryTypes
<1>2. Shl(q, blockBits) \in Nat /\ Shr(Shl(q, blockBits), blockBits) = q
  <2> HIDE DEF q
  <2> QED BY <1>1, ShlType, GeometryTypes
<1>3. cache_tag(a) \in Nat
  <2>1. Shr(q, setBits) \in Nat
    BY <1>1, ShrType, GeometryTypes
  <2> QED BY <2>1 DEF cache_tag
<1>4. cache_set(a) \in SetIndex
  <2>1. LowBits(q, setBits) \in 0 .. Pow2[setBits] - 1
    BY <1>1, LowBitsType, GeometryTypes
  <2> QED BY <2>1 DEF cache_set, SetIndex
<1> QED BY <1>2, <1>3, <1>4 DEF address_to_block, cache_set, cache_tag

LEMMA IncType == ASSUME NEW n \in CInt PROVE Inc(n) \in CInt
BY BoundsAssumption DEF CInt, Inc

-----------------------------------------------------------------------------
(* The scan for a victim.  Its recursion has a solution, whose n-th value  *)
(* is the best victim among the first n lines.                             *)
Scan(ls, n) ==
  {f \in [0 .. n -> LineIndex] :
      \A k \in 0 .. n :
          f[k] = IF k = 0 THEN 0
                 ELSE IF Better(ls[k - 1], ls[f[k - 1]]) THEN k - 1 ELSE f[k - 1]}

LEMMA ScanExists ==
  ASSUME NEW ls, NEW n \in 0 .. linesPerSet
  PROVE  Scan(ls, n) # {}
<1> DEFINE A == {k \in Nat : k <= linesPerSet => Scan(ls, k) # {}}
<1>1. 0 \in A
  <2>1. [k \in 0 .. 0 |-> 0] \in Scan(ls, 0)
    BY GeometryTypes DEF Scan
  <2> QED BY <2>1
<1>2. ASSUME NEW k \in A, k < n PROVE k + 1 \in A
  <2>1. k \in LineIndex /\ k <= linesPerSet
    BY <1>2, GeometryAssumption DEF LineIndex
  <2>2. PICK f \in Scan(ls, k) : TRUE
    BY <2>1
  <2>3. /\ f \in [0 .. k -> LineIndex]
        /\ \A i \in 0 .. k :
              f[i] = IF i = 0 THEN 0
                     ELSE IF Better(ls[i - 1], ls[f[i - 1]]) THEN i - 1 ELSE f[i - 1]
    BY <2>2 DEF Scan
  <2> DEFINE new == IF Better(ls[k], ls[f[k]]) THEN k ELSE f[k]
             g == [i \in 0 .. k + 1 |-> IF i = k + 1 THEN new ELSE f[i]]
  <2>4. new \in LineIndex
    BY <2>1, <2>3
  <2>5. g \in [0 .. k + 1 -> LineIndex]
    <3>1. \A i \in 0 .. k + 1 : i # k + 1 => i \in 0 .. k
      OBVIOUS
    <3> HIDE DEF new
    <3> QED BY <2>3, <2>4, <3>1
  <2>6. ASSUME NEW i \in 0 .. k + 1
        PROVE  g[i] = IF i = 0 THEN 0
                      ELSE IF Better(ls[i - 1], ls[g[i - 1]]) THEN i - 1 ELSE g[i - 1]
    <3>1. CASE i = k + 1
      <4>1. i # 0 /\ i - 1 = k /\ g[i - 1] = f[k] /\ g[i] = new
        BY <3>1
      <4> QED BY <4>1
    <3>2. CASE i \in 0 .. k /\ i # 0
      <4>1. g[i] = f[i] /\ g[i - 1] = f[i - 1]
        BY <3>2
      <4> QED BY <2>3, <3>2, <4>1
    <3>3. CASE i = 0
      BY <2>3, <3>3
    <3> QED BY <3>1, <3>2, <3>3
  <2>7. g \in Scan(ls, k + 1)
    <3> HIDE DEF g
    <3> QED BY <2>5, <2>6 DEF Scan
  <2> QED BY <2>7
<1>3. n \in A
  <2>1. A \in SUBSET Nat /\ n \in Nat
    BY GeometryAssumption DEF A
  <2> HIDE DEF A
  <2> QED BY <1>1, <1>2, <2>1, NaturalInduction
<1> QED BY <1>3

(* What victim_cacheline computes: the last value of such a scan. *)
LEMMA VictimLineScan ==
  ASSUME NEW ls
  PROVE  \E f \in Scan(ls, linesPerSet) : VictimLine(ls) = f[linesPerSet]
<1> DEFINE Step(f) == [n \in 0 .. linesPerSet |->
                          IF n = 0 THEN 0
                          ELSE IF Better(ls[n - 1], ls[f[n - 1]]) THEN n - 1
                               ELSE f[n - 1]]
           best == CHOOSE f : f = Step(f)
<1>1. VictimLine(ls) = best[linesPerSet]
  BY DEF VictimLine
<1>2. PICK f \in Scan(ls, linesPerSet) : TRUE
  <2>1. linesPerSet \in 0 .. linesPerSet
    BY GeometryAssumption
  <2> QED BY <2>1, ScanExists
<1>3. f = Step(f)
  BY <1>2 DEF Scan
<1>4. best = Step(best)
  BY <1>3
<1>5. best[linesPerSet] = f[linesPerSet]
  <2> DEFINE A == {n \in Nat : n <= linesPerSet => best[n] = f[n]}
  <2>1. \A n \in 0 .. linesPerSet :
           /\ best[n] = Step(best)[n]
           /\ f[n] = Step(f)[n]
    BY <1>3, <1>4
  <2> HIDE DEF best
  <2>2. 0 \in A
    BY <2>1, GeometryAssumption
  <2>3. ASSUME NEW k \in A, k < linesPerSet PROVE k + 1 \in A
    <3>1. k \in 0 .. linesPerSet /\ k + 1 \in 0 .. linesPerSet /\ k + 1 # 0
      BY <2>3, GeometryAssumption
    <3>2. best[k] = f[k]
      BY <2>3, <3>1
    <3>3. best[k + 1] = f[k + 1]
      BY <2>1, <3>1, <3>2
    <3> QED BY <3>1, <3>3
  <2>4. linesPerSet \in A
    <3>1. A \in SUBSET Nat /\ linesPerSet \in Nat
      BY GeometryAssumption DEF A
    <3> HIDE DEF A
    <3> QED BY <2>2, <2>3, <3>1, NaturalInduction
  <2> QED BY <2>4, GeometryAssumption
<1> QED BY <1>1, <1>2, <1>5

(* The victim is a line of the set. *)
LEMMA VictimLineType ==
  ASSUME NEW ls
  PROVE  VictimLine(ls) \in LineIndex
<1>1. PICK f \in Scan(ls, linesPerSet) : VictimLine(ls) = f[linesPerSet]
  BY VictimLineScan
<1> QED BY <1>1, GeometryAssumption DEF Scan

(* In a full set, the policy ranks no line behind the victim. *)
LEMMA VictimRanksLast ==
  ASSUME NEW ls \in [LineIndex -> Line], \A i \in LineIndex : ls[i].valid,
         lfu \in {0, 1}
  PROVE  \A i \in LineIndex : RanksLast(ls[VictimLine(ls)], ls[i])
<1>1. PICK f \in Scan(ls, linesPerSet) : VictimLine(ls) = f[linesPerSet]
  BY VictimLineScan
<1>2. /\ f \in [0 .. linesPerSet -> LineIndex]
      /\ f[0] = 0
      /\ \A k \in 0 .. linesPerSet : k # 0 =>
            f[k] = IF Better(ls[k - 1], ls[f[k - 1]]) THEN k - 1 ELSE f[k - 1]
  BY <1>1, GeometryAssumption DEF Scan
<1> DEFINE A == {k \in Nat : k <= linesPerSet =>
                    \A i \in 0 .. k - 1 : RanksLast(ls[f[k]], ls[i])}
<1>3. 0 \in A
  OBVIOUS
<1>4. ASSUME NEW k \in A, k < linesPerSet PROVE k + 1 \in A
  <2>1. /\ k \in LineIndex /\ k \in 0 .. linesPerSet /\ k + 1 \in 0 .. linesPerSet
        /\ \A i \in 0 .. k - 1 : i \in LineIndex /\ RanksLast(ls[f[k]], ls[i])
    BY <1>4, GeometryAssumption DEF LineIndex
  <2>2. f[k + 1] = IF Better(ls[k], ls[f[k]]) THEN k ELSE f[k]
    BY <1>2, <2>1
  <2>3. ASSUME NEW i \in 0 .. k PROVE RanksLast(ls[f[k + 1]], ls[i])
    <3>1. i \in LineIndex /\ f[k] \in LineIndex
      BY <1>2, <2>1 DEF LineIndex
    <3>2. /\ ls[i] \in Line /\ ls[k] \in Line /\ ls[f[k]] \in Line
          /\ ls[k].valid
      BY <2>1, <3>1
    <3>3. CASE i = k
      BY <2>2, <3>2, <3>3 DEF Better, RanksLast, Line, CInt
    <3>4. CASE i \in 0 .. k - 1
      <4>1. RanksLast(ls[f[k]], ls[i])
        BY <2>1, <3>4
      <4> QED BY <2>2, <3>2, <4>1 DEF Better, RanksLast, Line, CInt
    <3> QED BY <3>3, <3>4
  <2> QED BY <2>3
<1>5. linesPerSet \in A
  <2>1. A \in SUBSET Nat /\ linesPerSet \in Nat
    BY GeometryAssumption DEF A
  <2> HIDE DEF A
  <2> QED BY <1>3, <1>4, <2>1, NaturalInduction
<1> QED BY <1>1, <1>5, GeometryAssumption DEF LineIndex

-----------------------------------------------------------------------------
(* The loops that stop at the first line write at most one line. *)
LEMMA FirstIsUnique ==
  ASSUME NEW S \in SUBSET Nat, NEW i \in S, NEW j \in S, First(i, S), First(j, S)
  PROVE  i = j
BY DEF First

(* The type of a line written. *)
LEMMA NewLineType ==
  ASSUME NEW a \in Addrs, NEW now \in CInt
  PROVE  NewLine(a, now) \in Line
<1>1. address_to_block(a) \in Nat /\ cache_tag(a) \in Nat
  BY AddressParts, AddrsAssumption
<1>2. 1 \in CInt
  BY BoundsAssumption DEF CInt
<1> QED BY <1>1, <1>2 DEF NewLine, Line

LEMMA TouchedType ==
  ASSUME NEW l \in Line, NEW now \in CInt
  PROVE  Touched(l, now) \in Line
<1>1. Inc(l.access_counter) \in CInt
  BY IncType DEF Line
<1> QED BY <1>1 DEF Touched, Line

(* An access keeps the types. *)
LEMMA TypeStep ==
  ASSUME TypeOK, NEW a \in Addrs, operateCache(a)
  PROVE  TypeOK'
<1> DEFINE s == cache_set(a)
<1>1. a \in Nat /\ s \in SetIndex /\ address_to_block(a) \in Nat
  BY AddressParts, AddrsAssumption
<1>2. Now(a) \in CInt
  BY <1>1, IncType DEF TypeOK, Now
<1>3. NewLine(a, Now(a)) \in Line
  BY <1>2, NewLineType
<1>4. AdvanceClock(a) => (lru_clock \in [SetIndex -> CInt])'
  BY IncType DEF AdvanceClock, TypeOK
<1>5. CASE Hit(a)
  <2>1. (lines \in [SetIndex -> [LineIndex -> Line]])'
    <3>1. ASSUME NEW i \in LineIndex
          PROVE  Touched(lines[s][i], Now(a)) \in Line
      BY <1>1, <1>2, TouchedType DEF TypeOK
    <3> QED BY <1>1, <1>5, <3>1 DEF Hit, hit_cacheline, TypeOK
  <2>2. (hit_count \in CInt)'
    BY <1>5, IncType DEF Hit, TypeOK
  <2> QED BY <1>4, <1>5, <2>1, <2>2 DEF Hit, TypeOK, result
<1>6. CASE Miss(a)
  <2>1. (lines \in [SetIndex -> [LineIndex -> Line]])'
    BY <1>1, <1>3, <1>6 DEF Miss, insert_cacheline, TypeOK
  <2>2. (miss_count \in CInt)'
    BY <1>6, IncType DEF Miss, TypeOK
  <2> QED BY <1>1, <1>4, <1>6, <2>1, <2>2 DEF Miss, TypeOK, result
<1>7. CASE Evict(a)
  <2>1. victim_cacheline(s) \in Nat
    <3>1. VictimLine(lines[s]) \in LineIndex
      BY VictimLineType
    <3> QED BY <1>1, <3>1 DEF victim_cacheline, TypeOK, Line
  <2>2. (lines \in [SetIndex -> [LineIndex -> Line]])'
    BY <1>1, <1>3, <1>7 DEF Evict, replace_cacheline, TypeOK
  <2>3. (miss_count \in CInt)' /\ (eviction_count \in CInt)'
    BY <1>7, IncType DEF Evict, TypeOK
  <2> QED BY <1>1, <1>4, <1>7, <2>1, <2>2, <2>3 DEF Evict, TypeOK, result
<1> QED BY <1>5, <1>6, <1>7 DEF operateCache

(* The counters stay C ints, wrapping around if they must, and the lines keep *)
(* the shape of the struct: this needs no bound on the number of accesses.    *)
THEOREM TypeCorrect == Spec => []TypeOK
<1>1. Init => TypeOK
  BY BoundsAssumption DEF Init, cacheSetUp, TypeOK, Line, CInt, result
<1>2. TypeOK /\ [Next]_vars => TypeOK'
  <2>1. ASSUME TypeOK, UNCHANGED vars PROVE TypeOK'
    BY <2>1 DEF vars, TypeOK
  <2> QED BY <2>1, TypeStep DEF Next
<1> QED BY <1>1, <1>2, PTL DEF Spec

-----------------------------------------------------------------------------
(***************************************************************************)
(* The inductive invariant.  Distinct clocks alone are not inductive: a    *)
(* hit or an insertion stamps a line with the clock of its set, which is   *)
(* new only because no clock lies in the future and none has wrapped       *)
(* around, hence the bounds.  That no block is held twice rests on tags    *)
(* and block addresses saying the same thing of a line.                    *)
(***************************************************************************)
UsesBounded ==
  \A s \in SetIndex : \A i \in Valid(s) :
      lines[s][i].access_counter \in 1 .. lru_clock[s]

LineInv == TagsMatchBlocks /\ NoBlockTwice /\ ClocksOrderLines /\ UsesBounded

CountersBounded ==
  /\ hit_count \in Nat
  /\ miss_count \in Nat
  /\ eviction_count \in 0 .. miss_count
  /\ accesses <= MaxAccesses
  /\ \A s \in SetIndex : lru_clock[s] \in 0 .. accesses

IInv == TypeOK /\ LineInv /\ CountersBounded

(* The step writes line `new' over the first line of W in set s, and advances *)
(* the clock of s.                                                            *)
Writes(s, W, new) ==
  /\ lines' = [lines EXCEPT ![s] = [i \in LineIndex |->
                  IF First(i, W) THEN new ELSE lines[s][i]]]
  /\ lru_clock' = [lru_clock EXCEPT ![s] = lru_clock[s] + 1]

(* The line `new' belongs in set s, carries the advanced clock of s, and no   *)
(* line of s that stays has its tag.                                          *)
Fits(s, W, new) ==
  /\ s \in SetIndex /\ lru_clock[s] \in Nat
  /\ W \in SUBSET LineIndex
  /\ new \in Line /\ new.valid
  /\ address_to_block(new.block_addr) = new.block_addr
  /\ cache_set(new.block_addr) = s
  /\ cache_tag(new.block_addr) = new.tag
  /\ new.lru_clock = lru_clock[s] + 1
  /\ new.access_counter \in 1 .. lru_clock[s] + 1
  /\ \A j \in Valid(s) : lines[s][j].tag = new.tag => First(j, W)

(* Such a write keeps what is known of the lines. *)
LEMMA OneLineWritten ==
  ASSUME TypeOK, LineInv, NEW s, NEW W, NEW new, Fits(s, W, new), Writes(s, W, new)
  PROVE  LineInv'
<1> USE DEF Fits, Writes
<1>1. /\ \A t \in SetIndex : t # s => lines'[t] = lines[t] /\ lru_clock'[t] = lru_clock[t]
      /\ \A i \in LineIndex : lines'[s][i] = IF First(i, W) THEN new ELSE lines[s][i]
      /\ lru_clock'[s] = lru_clock[s] + 1
  BY DEF TypeOK
<1>2. ASSUME NEW t \in SetIndex, t # s
      PROVE  Valid(t)' = Valid(t) /\ lines'[t] = lines[t] /\ lru_clock'[t] = lru_clock[t]
  BY <1>1, <1>2 DEF Valid
<1>3. ASSUME NEW i \in Valid(s)'
      PROVE  /\ i \in LineIndex
             /\ First(i, W) => lines'[s][i] = new
             /\ ~First(i, W) => i \in Valid(s) /\ lines'[s][i] = lines[s][i]
  BY <1>1, <1>3 DEF Valid
<1>4. ASSUME NEW i \in LineIndex, NEW j \in LineIndex, First(i, W), First(j, W)
      PROVE  i = j
  <2>1. W \in SUBSET Nat /\ i \in W /\ j \in W
    BY <1>4, GeometryTypes DEF First
  <2> QED BY <1>4, <2>1, FirstIsUnique
<1>5. \A i \in Valid(s) : /\ lines[s][i].lru_clock \in 1 .. lru_clock[s]
                          /\ lines[s][i].access_counter \in 1 .. lru_clock[s]
  BY DEF LineInv, ClocksOrderLines, UsesBounded
<1>6. TagsMatchBlocks'
  <2> SUFFICES ASSUME NEW t \in SetIndex, NEW i \in Valid(t)'
               PROVE  /\ address_to_block(lines'[t][i].block_addr) = lines'[t][i].block_addr
                      /\ cache_set(lines'[t][i].block_addr) = t
                      /\ cache_tag(lines'[t][i].block_addr) = lines'[t][i].tag
    BY DEF TagsMatchBlocks
  <2>1. CASE t # s
    BY <1>2, <2>1 DEF LineInv, TagsMatchBlocks
  <2>2. CASE t = s
    BY <1>3, <2>2 DEF LineInv, TagsMatchBlocks
  <2> QED BY <2>1, <2>2
<1>7. NoBlockTwice'
  <2> SUFFICES ASSUME NEW t \in SetIndex, NEW i \in Valid(t)', NEW j \in Valid(t)',
                      lines'[t][i].tag = lines'[t][j].tag
               PROVE  i = j
    BY DEF NoBlockTwice
  <2>1. CASE t # s
    BY <1>2, <2>1 DEF LineInv, NoBlockTwice
  <2>2. CASE t = s
    <3>1. CASE First(i, W) /\ First(j, W)
      BY <1>3, <1>4, <2>2, <3>1
    <3>2. CASE ~First(i, W) /\ ~First(j, W)
      <4>1. /\ i \in Valid(s) /\ lines'[s][i] = lines[s][i]
            /\ j \in Valid(s) /\ lines'[s][j] = lines[s][j]
        BY <1>3, <2>2, <3>2
      <4>2. lines[s][i].tag = lines[s][j].tag
        BY <2>2, <4>1
      <4> QED BY <4>1, <4>2 DEF LineInv, NoBlockTwice
    <3>3. CASE First(i, W) /\ ~First(j, W)
      BY <1>3, <2>2, <3>3
    <3>4. CASE ~First(i, W) /\ First(j, W)
      BY <1>3, <2>2, <3>4
    <3> QED BY <3>1, <3>2, <3>3, <3>4
  <2> QED BY <2>1, <2>2
<1>8. ClocksOrderLines'
  <2> SUFFICES ASSUME NEW t \in SetIndex, NEW i \in Valid(t)'
               PROVE  /\ lines'[t][i].lru_clock \in 1 .. lru_clock'[t]
                      /\ \A j \in Valid(t)' :
                            lines'[t][i].lru_clock = lines'[t][j].lru_clock => i = j
    BY DEF ClocksOrderLines
  <2>1. CASE t # s
    BY <1>2, <2>1 DEF LineInv, ClocksOrderLines
  <2>2. CASE t = s
    <3>1. lines'[s][i].lru_clock \in 1 .. lru_clock'[s]
      BY <1>1, <1>3, <1>5, <2>2
    <3>2. ASSUME NEW j \in Valid(s)', lines'[s][i].lru_clock = lines'[s][j].lru_clock
          PROVE  i = j
      <4>1. CASE First(i, W) /\ First(j, W)
        BY <1>3, <1>4, <2>2, <4>1
      <4>2. CASE ~First(i, W) /\ ~First(j, W)
        <5>1. /\ i \in Valid(s) /\ lines'[s][i] = lines[s][i]
              /\ j \in Valid(s) /\ lines'[s][j] = lines[s][j]
          BY <1>3, <2>2, <4>2
        <5>2. lines[s][i].lru_clock = lines[s][j].lru_clock
          BY <3>2, <5>1
        <5> QED BY <5>1, <5>2 DEF LineInv, ClocksOrderLines
      <4>3. CASE First(i, W) /\ ~First(j, W)
        BY <1>3, <1>5, <2>2, <3>2, <4>3
      <4>4. CASE ~First(i, W) /\ First(j, W)
        BY <1>3, <1>5, <2>2, <3>2, <4>4
      <4> QED BY <4>1, <4>2, <4>3, <4>4
    <3> QED BY <2>2, <3>1, <3>2
  <2> QED BY <2>1, <2>2
<1>9. UsesBounded'
  <2> SUFFICES ASSUME NEW t \in SetIndex, NEW i \in Valid(t)'
               PROVE  lines'[t][i].access_counter \in 1 .. lru_clock'[t]
    BY DEF UsesBounded
  <2>1. CASE t # s
    BY <1>2, <2>1 DEF LineInv, UsesBounded
  <2>2. CASE t = s
    BY <1>1, <1>3, <1>5, <2>2
  <2> QED BY <2>1, <2>2
<1> QED BY <1>6, <1>7, <1>8, <1>9 DEF LineInv

(* Without overflow the clock of a set goes up by one. *)
LEMMA NowIsNext ==
  ASSUME MaxAccesses <= IntMax, TypeOK, CountersBounded, accesses < MaxAccesses,
         NEW s \in SetIndex
  PROVE  /\ lru_clock[s] \in Nat
         /\ Inc(lru_clock[s]) = lru_clock[s] + 1
         /\ Inc(hit_count) = hit_count + 1
         /\ Inc(miss_count) = miss_count + 1
         /\ Inc(eviction_count) = eviction_count + 1
BY BoundsAssumption DEF CountersBounded, Inc, accesses

(* The line written for a missing address fits, whichever line it replaces. *)
LEMMA NewLineFits ==
  ASSUME TypeOK, NEW a \in Addrs, ~probe_cache(a),
         lru_clock[cache_set(a)] \in Nat,
         Now(a) = lru_clock[cache_set(a)] + 1, Now(a) \in CInt,
         NEW W \in SUBSET LineIndex
  PROVE  Fits(cache_set(a), W, NewLine(a, Now(a)))
<1>1. a \in Nat
  BY AddrsAssumption
<1>2. NewLine(a, Now(a)) \in Line
  BY NewLineType
<1>3. \A j \in Valid(cache_set(a)) : lines[cache_set(a)][j].tag # cache_tag(a)
  BY DEF probe_cache, Matching
<1> QED BY <1>1, <1>2, <1>3, AddressParts DEF NewLine, Fits

(* A step keeps what is known of the lines. *)
LEMMA LineInvStep ==
  ASSUME MaxAccesses <= IntMax, IInv, accesses < MaxAccesses,
         NEW a \in Addrs, operateCache(a)
  PROVE  LineInv'
<1> DEFINE s == cache_set(a)
<1>1. /\ a \in Nat /\ s \in SetIndex
      /\ TypeOK /\ LineInv /\ CountersBounded
  BY AddressParts, AddrsAssumption DEF IInv
<1>2. lru_clock[s] \in Nat /\ Now(a) = lru_clock[s] + 1
  BY <1>1, NowIsNext DEF Now
<1>3. Now(a) \in CInt
  BY <1>1, IncType DEF Now, TypeOK
<1>4. AdvanceClock(a) => lru_clock' = [lru_clock EXCEPT ![s] = lru_clock[s] + 1]
  BY <1>1, <1>2 DEF AdvanceClock, Now
<1>5. CASE Hit(a)
  <2>1. PICK w \in Matching(a) : First(w, Matching(a))
    <3>1. Matching(a) \in SUBSET Nat /\ Matching(a) # {}
      BY <1>5, GeometryTypes DEF Hit, probe_cache, Matching, Valid
    <3> QED BY <3>1, LeastNatural DEF First
  <2>2. /\ w \in LineIndex /\ w \in Valid(s)
        /\ lines[s][w].tag = cache_tag(a)
        /\ lines[s][w] \in Line /\ lines[s][w].valid
    BY <1>1, <2>1 DEF Matching, Valid, TypeOK
  <2> DEFINE new == Touched(lines[s][w], Now(a))
  <2>3. lines[s][w].access_counter \in 1 .. lru_clock[s]
    BY <1>1, <2>2 DEF LineInv, UsesBounded
  <2>4. Inc(lines[s][w].access_counter) \in 1 .. lru_clock[s] + 1
    <3>1. lru_clock[s] < IntMax
      BY <1>1, BoundsAssumption DEF CountersBounded, accesses
    <3> QED BY <1>2, <2>3, <3>1, BoundsAssumption DEF Inc
  <2>5. new \in Line
    BY <1>3, <2>2, TouchedType
  <2>6. /\ new.valid /\ new.tag = lines[s][w].tag
        /\ new.block_addr = lines[s][w].block_addr
        /\ new.lru_clock = Now(a)
        /\ new.access_counter = Inc(lines[s][w].access_counter)
    BY <2>2 DEF Touched, Line
  <2>7. /\ address_to_block(lines[s][w].block_addr) = lines[s][w].block_addr
        /\ cache_set(lines[s][w].block_addr) = s
        /\ cache_tag(lines[s][w].block_addr) = lines[s][w].tag
    BY <1>1, <2>2 DEF LineInv, TagsMatchBlocks
  <2>8. \A j \in Valid(s) : lines[s][j].tag = new.tag => First(j, Matching(a))
    BY <1>1, <2>1, <2>2, <2>6 DEF LineInv, NoBlockTwice
  <2>9. lines' = [lines EXCEPT ![s] = [i \in LineIndex |->
                     IF First(i, Matching(a)) THEN new ELSE lines[s][i]]]
    <3>1. \A i \in LineIndex : First(i, Matching(a)) => i = w
      <4>1. Matching(a) \in SUBSET Nat
        BY GeometryTypes DEF Matching, Valid
      <4> QED BY <2>1, <4>1, FirstIsUnique DEF First
    <3>2. [i \in LineIndex |-> IF First(i, Matching(a))
                               THEN Touched(lines[s][i], Now(a)) ELSE lines[s][i]]
          = [i \in LineIndex |-> IF First(i, Matching(a)) THEN new ELSE lines[s][i]]
      BY <3>1
    <3> QED BY <1>5, <3>2 DEF Hit, hit_cacheline
  <2>10. lru_clock' = [lru_clock EXCEPT ![s] = lru_clock[s] + 1]
    BY <1>4, <1>5 DEF Hit
  <2>11. Matching(a) \in SUBSET LineIndex
    BY DEF Matching, Valid
  <2>12. Fits(s, Matching(a), new)
    <3> HIDE DEF new, s
    <3> QED BY <1>1, <1>2, <2>4, <2>5, <2>6, <2>7, <2>8, <2>11 DEF Fits
  <2>13. Writes(s, Matching(a), new)
    BY <2>9, <2>10 DEF Writes
  <2> HIDE DEF new, s
  <2> QED BY <1>1, <2>12, <2>13, OneLineWritten
<1>6. CASE Miss(a)
  <2>1. Writes(s, Invalid(s), NewLine(a, Now(a))) /\ ~probe_cache(a)
    BY <1>4, <1>6 DEF Miss, insert_cacheline, Writes
  <2>2. Fits(s, Invalid(s), NewLine(a, Now(a)))
    <3>1. Invalid(s) \in SUBSET LineIndex
      BY DEF Invalid
    <3> QED BY <1>1, <1>2, <1>3, <2>1, <3>1, NewLineFits
  <2> QED BY <1>1, <2>1, <2>2, OneLineWritten
<1>7. CASE Evict(a)
  <2> DEFINE W == Holding(s, victim_cacheline(s))
  <2>1. Writes(s, W, NewLine(a, Now(a))) /\ ~probe_cache(a)
    BY <1>4, <1>7 DEF Evict, replace_cacheline, Writes
  <2>2. Fits(s, W, NewLine(a, Now(a)))
    <3>1. W \in SUBSET LineIndex
      BY DEF Holding, Valid
    <3> HIDE DEF W
    <3> QED BY <1>1, <1>2, <1>3, <2>1, <3>1, NewLineFits
  <2> QED BY <1>1, <2>1, <2>2, OneLineWritten
<1> QED BY <1>5, <1>6, <1>7 DEF operateCache

(* A step counts one access, of one set. *)
LEMMA CountersStep ==
  ASSUME MaxAccesses <= IntMax, IInv, accesses < MaxAccesses,
         NEW a \in Addrs, operateCache(a)
  PROVE  CountersBounded'
<1>1. /\ cache_set(a) \in SetIndex
      /\ TypeOK /\ CountersBounded
  BY AddressParts, AddrsAssumption DEF IInv
<1>2. /\ \A s \in SetIndex : lru_clock[s] \in Nat /\ Inc(lru_clock[s]) = lru_clock[s] + 1
      /\ Inc(hit_count) = hit_count + 1
      /\ Inc(miss_count) = miss_count + 1
      /\ Inc(eviction_count) = eviction_count + 1
  BY <1>1, NowIsNext
<1>3. AdvanceClock(a) =>
         \A s \in SetIndex : lru_clock'[s] = lru_clock[s] \/ lru_clock'[s] = lru_clock[s] + 1
  BY <1>1, <1>2 DEF AdvanceClock, TypeOK
<1>4. /\ hit_count \in Nat /\ miss_count \in Nat /\ eviction_count \in 0 .. miss_count
      /\ hit_count + miss_count < MaxAccesses
      /\ \A s \in SetIndex : lru_clock[s] \in 0 .. hit_count + miss_count
  BY <1>1 DEF CountersBounded, accesses
<1>5. \/ /\ AdvanceClock(a)
         /\ hit_count' = hit_count + 1 /\ miss_count' = miss_count
         /\ eviction_count' = eviction_count
      \/ /\ AdvanceClock(a)
         /\ hit_count' = hit_count /\ miss_count' = miss_count + 1
         /\ eviction_count' \in {eviction_count, eviction_count + 1}
  BY <1>2 DEF operateCache, Hit, Miss, Evict
<1>6. hit_count' + miss_count' = hit_count + miss_count + 1
  BY <1>4, <1>5
<1> QED BY <1>3, <1>4, <1>5, <1>6, BoundsAssumption DEF CountersBounded, accesses

LEMMA InductiveInvariant ==
  ASSUME MaxAccesses <= IntMax
  PROVE  /\ Init => IInv
         /\ IInv /\ [Next]_vars => LineInv' /\ CountersBounded'
<1>1. ASSUME Init PROVE IInv
  <2>1. TypeOK
    BY <1>1, BoundsAssumption DEF Init, cacheSetUp, TypeOK, Line, CInt, result
  <2>2. \A s \in SetIndex : Valid(s) = {}
    BY <1>1 DEF Init, cacheSetUp, Valid
  <2>3. LineInv
    BY <2>2 DEF LineInv, TagsMatchBlocks, NoBlockTwice, ClocksOrderLines, UsesBounded
  <2>4. CountersBounded
    BY <1>1, BoundsAssumption DEF Init, cacheSetUp, CountersBounded, accesses
  <2> QED BY <2>1, <2>3, <2>4 DEF IInv
<1>2. ASSUME IInv, [Next]_vars PROVE LineInv' /\ CountersBounded'
  <2>1. CASE UNCHANGED vars
    BY <1>2, <2>1 DEF vars, IInv, LineInv, TagsMatchBlocks, NoBlockTwice, ClocksOrderLines,
       UsesBounded, Valid, CountersBounded, accesses
  <2>2. CASE Next
    BY <1>2, <2>2, LineInvStep, CountersStep DEF Next
  <2> QED BY <1>2, <2>1, <2>2
<1> QED BY <1>1, <1>2

(* As long as no counter can overflow, a valid line holds an aligned block of *)
(* its own set under that block's tag, no block is held twice, and the clocks *)
(* of the lines of a set are distinct and not in the future.                  *)
THEOREM LinesSound ==
  ASSUME MaxAccesses <= IntMax
  PROVE  Spec => [](TagsMatchBlocks /\ NoBlockTwice /\ ClocksOrderLines)
<1>1. Init => LineInv /\ CountersBounded
  BY InductiveInvariant DEF IInv
<1>2. TypeOK /\ (LineInv /\ CountersBounded) /\ [Next]_vars => (LineInv /\ CountersBounded)'
  BY InductiveInvariant DEF IInv
<1>3. LineInv => TagsMatchBlocks /\ NoBlockTwice /\ ClocksOrderLines
  BY DEF LineInv
<1> QED BY <1>1, <1>2, <1>3, TypeCorrect, PTL DEF Spec

(* Whatever the clocks and counters hold, wrapped around or not, an eviction  *)
(* takes a line that the policy ranks last in its set.                        *)
THEOREM EvictionFollowsPolicy ==
  ASSUME lfu \in {0, 1}
  PROVE  Spec => EvictsByPolicy
<1> DEFINE ByPolicy ==
      \A a \in Addrs : Evict(a) =>
         LET s == cache_set(a) IN
         \E v \in LineIndex :
            /\ lines[s][v].block_addr = r'.victim_block_addr
            /\ \A i \in LineIndex : RanksLast(lines[s][v], lines[s][i])
<1>1. ASSUME TypeOK, NEW a \in Addrs, Evict(a)
      PROVE  LET s == cache_set(a) IN
             \E v \in LineIndex :
                /\ lines[s][v].block_addr = r'.victim_block_addr
                /\ \A i \in LineIndex : RanksLast(lines[s][v], lines[s][i])
  <2> DEFINE s == cache_set(a)
  <2>1. s \in SetIndex /\ lines[s] \in [LineIndex -> Line]
    BY <1>1, AddressParts, AddrsAssumption DEF TypeOK
  <2>2. \A i \in LineIndex : lines[s][i].valid
    BY <1>1 DEF Evict, Invalid, Valid
  <2>3. VictimLine(lines[s]) \in LineIndex
    BY VictimLineType
  <2>4. \A i \in LineIndex : RanksLast(lines[s][VictimLine(lines[s])], lines[s][i])
    <3> HIDE DEF s
    <3> QED BY <2>1, <2>2, VictimRanksLast
  <2>5. r'.victim_block_addr = lines[s][VictimLine(lines[s])].block_addr
    BY <1>1 DEF Evict, victim_cacheline
  <2> QED BY <2>3, <2>4, <2>5
<1>2. TypeOK => ByPolicy
  BY <1>1
<1>3. TypeOK /\ [Next]_vars => [ByPolicy]_vars
  BY <1>2
<1>4. EvictsByPolicy <=> [][ByPolicy]_vars
  BY DEF EvictsByPolicy
<1> HIDE DEF ByPolicy
<1> QED BY <1>3, <1>4, TypeCorrect, PTL DEF Spec

-----------------------------------------------------------------------------
(***************************************************************************)
(* What one access writes: a single line of the set of its address.        *)
(***************************************************************************)
OneLine(s, w) ==
  /\ w \in LineIndex
  /\ \A t \in SetIndex : t # s => lines'[t] = lines[t]
  /\ \A i \in LineIndex : i # w => lines'[s][i] = lines[s][i]

LEMMA FirstExists ==
  ASSUME NEW S \in SUBSET LineIndex, S # {}
  PROVE  \E w \in S : First(w, S) /\ \A i \in LineIndex : First(i, S) => i = w
<1>1. S \in SUBSET Nat
  BY GeometryTypes
<1>2. PICK w \in S : \A i \in S : w <= i
  BY <1>1, LeastNatural
<1>3. First(w, S)
  BY <1>2 DEF First
<1>4. ASSUME NEW i \in LineIndex, First(i, S) PROVE i = w
  <2>1. i \in S
    BY <1>4 DEF First
  <2> QED BY <1>1, <1>3, <1>4, <2>1, FirstIsUnique
<1> QED BY <1>3, <1>4

LEMMA HitLine ==
  ASSUME TypeOK, NEW a \in Addrs, Hit(a)
  PROVE  LET s == cache_set(a) IN
         \E w \in LineIndex :
            /\ OneLine(s, w)
            /\ lines[s][w].valid /\ lines[s][w].tag = cache_tag(a)
            /\ lines'[s][w] = Touched(lines[s][w], Now(a))
<1> DEFINE s == cache_set(a)
           S == Matching(a)
<1>1. s \in SetIndex
  BY AddressParts, AddrsAssumption
<1>2. S \in SUBSET LineIndex /\ S # {}
  BY DEF Matching, Valid, Hit, probe_cache
<1>3. PICK w \in S : First(w, S) /\ \A i \in LineIndex : First(i, S) => i = w
  <2> HIDE DEF S
  <2> QED BY <1>2, FirstExists
<1>4. w \in LineIndex /\ lines[s][w].valid /\ lines[s][w].tag = cache_tag(a)
  BY DEF Matching, Valid
<1>5. lines' = [lines EXCEPT ![s] = [i \in LineIndex |->
                   IF First(i, S) THEN Touched(lines[s][i], Now(a)) ELSE lines[s][i]]]
  BY DEF Hit, hit_cacheline
<1> HIDE DEF S, s
<1>6. /\ \A t \in SetIndex : t # s => lines'[t] = lines[t]
      /\ \A i \in LineIndex :
            lines'[s][i] = IF First(i, S) THEN Touched(lines[s][i], Now(a)) ELSE lines[s][i]
  BY <1>1, <1>5 DEF TypeOK
<1>7. OneLine(s, w) /\ lines'[s][w] = Touched(lines[s][w], Now(a))
  BY <1>3, <1>4, <1>6 DEF OneLine
<1> QED BY <1>4, <1>7 DEF s

LEMMA MissLine ==
  ASSUME TypeOK, NEW a \in Addrs, Miss(a)
  PROVE  LET s == cache_set(a) IN
         \E w \in LineIndex :
            /\ OneLine(s, w)
            /\ ~lines[s][w].valid
            /\ lines'[s][w] = NewLine(a, Now(a))
<1> DEFINE s == cache_set(a)
           S == Invalid(s)
<1>1. s \in SetIndex
  BY AddressParts, AddrsAssumption
<1>2. S \in SUBSET LineIndex /\ S # {}
  BY DEF Invalid, Miss
<1>3. PICK w \in S : First(w, S) /\ \A i \in LineIndex : First(i, S) => i = w
  <2> HIDE DEF S
  <2> QED BY <1>2, FirstExists
<1>4. w \in LineIndex /\ ~lines[s][w].valid
  BY DEF Invalid, Valid
<1>5. lines' = [lines EXCEPT ![s] = [i \in LineIndex |->
                   IF First(i, S) THEN NewLine(a, Now(a)) ELSE lines[s][i]]]
  BY DEF Miss, insert_cacheline
<1> HIDE DEF S, s
<1>6. /\ \A t \in SetIndex : t # s => lines'[t] = lines[t]
      /\ \A i \in LineIndex :
            lines'[s][i] = IF First(i, S) THEN NewLine(a, Now(a)) ELSE lines[s][i]
  BY <1>1, <1>5 DEF TypeOK
<1>7. OneLine(s, w) /\ lines'[s][w] = NewLine(a, Now(a))
  BY <1>3, <1>4, <1>6 DEF OneLine
<1> QED BY <1>4, <1>7 DEF s

(* Replacing by block address hits the very line that the scan chose. *)
LEMMA EvictLine ==
  ASSUME TypeOK, LineInv, NEW a \in Addrs, Evict(a)
  PROVE  LET s == cache_set(a)
             w == VictimLine(lines[s])
         IN  /\ OneLine(s, w)
             /\ \A i \in LineIndex : lines[s][i].valid
             /\ lines'[s][w] = NewLine(a, Now(a))
             /\ r'.victim_block_addr = lines[s][w].block_addr
             /\ lines[s][w].block_addr \in Nat
<1> DEFINE s == cache_set(a)
           w == VictimLine(lines[s])
           v == lines[s][w].block_addr
           S == Holding(s, v)
<1>1. s \in SetIndex /\ w \in LineIndex
  BY AddressParts, AddrsAssumption, VictimLineType
<1>2. \A i \in LineIndex : lines[s][i].valid
  BY DEF Evict, Invalid, Valid
<1>3. /\ r'.victim_block_addr = v
      /\ lines' = [lines EXCEPT ![s] = [i \in LineIndex |->
                   IF First(i, S) THEN NewLine(a, Now(a)) ELSE lines[s][i]]]
  BY DEF Evict, victim_cacheline, replace_cacheline
<1>4. v \in Nat
  <2> HIDE DEF s, w
  <2> QED BY <1>1 DEF TypeOK, Line
<1>5. S = {w}
  <2>1. \A i \in LineIndex : i \in Valid(s) /\ cache_tag(lines[s][i].block_addr) = lines[s][i].tag
    <3> HIDE DEF s, w
    <3> QED BY <1>1, <1>2 DEF Valid, LineInv, TagsMatchBlocks
  <2>2. ASSUME NEW i \in S PROVE i = w
    <3>1. i \in LineIndex /\ lines[s][i].block_addr = lines[s][w].block_addr
      BY DEF Holding, Valid
    <3>2. lines[s][i].tag = lines[s][w].tag
      <4> HIDE DEF s, w
      <4> QED BY <1>1, <2>1, <3>1
    <3>3. i \in Valid(s) /\ w \in Valid(s)
      BY <1>1, <2>1, <3>1
    <3> HIDE DEF s, w
    <3> QED BY <1>1, <3>2, <3>3 DEF LineInv, NoBlockTwice
  <2>3. w \in S
    BY <1>1, <2>1 DEF Holding
  <2> HIDE DEF S, w
  <2> QED BY <2>2, <2>3
<1> HIDE DEF S, s, w, v
<1>6. \A i \in LineIndex : First(i, S) <=> i = w
  BY <1>1, <1>5, GeometryTypes DEF First
<1>7. /\ \A t \in SetIndex : t # s => lines'[t] = lines[t]
      /\ \A i \in LineIndex :
            lines'[s][i] = IF First(i, S) THEN NewLine(a, Now(a)) ELSE lines[s][i]
  BY <1>1, <1>3 DEF TypeOK
<1>8. OneLine(s, w) /\ lines'[s][w] = NewLine(a, Now(a))
  BY <1>1, <1>6, <1>7 DEF OneLine
<1> QED BY <1>2, <1>3, <1>4, <1>8 DEF s, w, v

(* An aligned block is known by its set and its tag. *)
LEMMA SameBlock ==
  ASSUME NEW x \in Nat, NEW y \in Nat,
         cache_set(x) = cache_set(y), cache_tag(x) = cache_tag(y)
  PROVE  address_to_block(x) = address_to_block(y)
<1> DEFINE p == Shr(x, blockBits)
           q == Shr(y, blockBits)
<1>1. p \in Nat /\ q \in Nat
  BY ShrType, GeometryTypes
<1>2. LowBits(p, setBits) = LowBits(q, setBits) /\ Shr(p, setBits) = Shr(q, setBits)
  BY DEF cache_set, cache_tag
<1>3. p = q
  <2> HIDE DEF p, q
  <2> QED BY <1>1, <1>2, HighAndLowBits, GeometryTypes
<1> QED BY <1>3 DEF address_to_block

LEMMA InvariantHolds ==
  ASSUME MaxAccesses <= IntMax
  PROVE  Spec => []IInv
<1>1. Init => LineInv /\ CountersBounded
  BY InductiveInvariant DEF IInv
<1>2. TypeOK /\ (LineInv /\ CountersBounded) /\ [Next]_vars => (LineInv /\ CountersBounded)'
  BY InductiveInvariant DEF IInv
<1>3. TypeOK /\ (LineInv /\ CountersBounded) => IInv
  BY DEF IInv
<1> QED BY <1>1, <1>2, <1>3, TypeCorrect, PTL DEF Spec

-----------------------------------------------------------------------------
(***************************************************************************)
(* Which blocks come and go.                                               *)
(***************************************************************************)
AllResident == UNION {Resident(t) : t \in SetIndex}

(* The block of an address is resident exactly if probe_cache finds it. *)
LEMMA ProbeFindsBlock ==
  ASSUME TypeOK, LineInv, NEW a \in Addrs
  PROVE  /\ \A i \in Matching(a) : lines[cache_set(a)][i].block_addr = address_to_block(a)
         /\ address_to_block(a) \in AllResident <=> probe_cache(a)
         /\ address_to_block(a) \in Resident(cache_set(a)) <=> probe_cache(a)
<1> DEFINE s == cache_set(a)
           b == address_to_block(a)
<1>1. a \in Nat /\ s \in SetIndex /\ b \in Nat
      /\ cache_set(b) = s /\ cache_tag(b) = cache_tag(a) /\ address_to_block(b) = b
  BY AddressParts, AddrsAssumption
<1>2. ASSUME NEW t \in SetIndex, NEW i \in Valid(t)
      PROVE  /\ lines[t][i].block_addr \in Nat
             /\ address_to_block(lines[t][i].block_addr) = lines[t][i].block_addr
             /\ cache_set(lines[t][i].block_addr) = t
             /\ cache_tag(lines[t][i].block_addr) = lines[t][i].tag
  BY DEF TypeOK, Line, Valid, LineInv, TagsMatchBlocks
<1>3. ASSUME NEW i \in Matching(a) PROVE lines[s][i].block_addr = b
  <2>1. i \in Valid(s) /\ lines[s][i].tag = cache_tag(a)
    BY DEF Matching
  <2> HIDE DEF s, b
  <2>2. /\ lines[s][i].block_addr \in Nat
        /\ address_to_block(lines[s][i].block_addr) = lines[s][i].block_addr
        /\ cache_set(lines[s][i].block_addr) = cache_set(b)
        /\ cache_tag(lines[s][i].block_addr) = cache_tag(b)
    BY <1>1, <1>2, <2>1
  <2> QED BY <1>1, <2>2, SameBlock
<1>4. ASSUME NEW t \in SetIndex, NEW i \in Valid(t), lines[t][i].block_addr = b
      PROVE  t = s /\ i \in Matching(a)
  <2>1. t = s /\ lines[t][i].tag = cache_tag(a)
    BY <1>1, <1>2, <1>4
  <2> QED BY <2>1 DEF Matching
<1>5. Matching(a) \subseteq Valid(s)
  BY DEF Matching
<1>6. ASSUME NEW t \in SetIndex, b \in Resident(t) PROVE probe_cache(a)
  BY <1>4, <1>6 DEF Resident, probe_cache
<1>7. ASSUME probe_cache(a) PROVE b \in Resident(s)
  BY <1>3, <1>5, <1>7 DEF Resident, probe_cache
<1> QED BY <1>1, <1>3, <1>6, <1>7 DEF AllResident

(* What is resident after line w of set s was written over. *)
LEMMA ResidentAfter ==
  ASSUME TypeOK, LineInv, NEW s \in SetIndex, NEW w, OneLine(s, w),
         lines'[s][w].valid
  PROVE  LET new == lines'[s][w].block_addr IN
         /\ new \in Resident(s)'
         /\ lines[s][w].valid =>
               /\ lines[s][w].block_addr \in AllResident
               /\ AllResident' = (AllResident \ {lines[s][w].block_addr}) \cup {new}
         /\ ~lines[s][w].valid => AllResident' = AllResident \cup {new}
<1> DEFINE new == lines'[s][w].block_addr
           old == lines[s][w].block_addr
<1>1. /\ w \in LineIndex
      /\ \A t \in SetIndex : t # s => lines'[t] = lines[t]
      /\ \A i \in LineIndex : i # w => lines'[s][i] = lines[s][i]
  BY DEF OneLine
<1>2. \A x : x \in AllResident <=> \E t \in SetIndex : \E i \in LineIndex :
                                      lines[t][i].valid /\ lines[t][i].block_addr = x
  BY DEF AllResident, Resident, Valid
<1>3. \A x : x \in AllResident' <=> \E t \in SetIndex : \E i \in LineIndex :
                                      lines'[t][i].valid /\ lines'[t][i].block_addr = x
  BY DEF AllResident, Resident, Valid
<1>4. new \in Resident(s)' /\ new \in AllResident'
  BY <1>1 DEF AllResident, Resident, Valid
<1>5. ASSUME NEW x, x # new, x \in AllResident'
      PROVE  /\ x \in AllResident
             /\ lines[s][w].valid => x # old
  <2>1. PICK t \in SetIndex, i \in LineIndex :
               lines'[t][i].valid /\ lines'[t][i].block_addr = x
    BY <1>3, <1>5
  <2>2. ~(t = s /\ i = w) /\ lines[t][i].valid /\ lines[t][i].block_addr = x
    BY <1>1, <1>5, <2>1
  <2>3. x \in AllResident
    BY <1>2, <2>2
  <2>4. ASSUME lines[s][w].valid, x = old PROVE FALSE
    <3>1. t = s
      BY <1>1, <2>2, <2>4 DEF LineInv, TagsMatchBlocks, Valid
    <3>2. lines[s][i].tag = lines[s][w].tag
      BY <1>1, <2>2, <2>4, <3>1 DEF LineInv, TagsMatchBlocks, Valid
    <3>3. i = w
      BY <1>1, <2>2, <2>4, <3>1, <3>2 DEF LineInv, NoBlockTwice, Valid
    <3> QED BY <2>2, <3>1, <3>3
  <2> QED BY <2>3, <2>4
<1>6. ASSUME NEW x, x \in AllResident, ~(lines[s][w].valid /\ x = old)
      PROVE  x \in AllResident'
  <2>1. PICK t \in SetIndex, i \in LineIndex :
               lines[t][i].valid /\ lines[t][i].block_addr = x
    BY <1>2, <1>6
  <2>2. lines'[t][i].valid /\ lines'[t][i].block_addr = x
    BY <1>1, <1>6, <2>1
  <2> QED BY <1>3, <2>2
<1>7. lines[s][w].valid => old \in AllResident
  BY <1>1, <1>2
<1> HIDE DEF new, old
<1>8. lines[s][w].valid => AllResident' = (AllResident \ {old}) \cup {new}
  BY <1>4, <1>5, <1>6
<1>9. ~lines[s][w].valid => AllResident' = AllResident \cup {new}
  BY <1>4, <1>5, <1>6
<1> QED BY <1>4, <1>7, <1>8, <1>9 DEF new, old

(* As long as no counter can overflow, the block of an access is resident     *)
(* after it, the block reported as victim was and no longer is, and no other  *)
(* block comes or goes.                                                       *)
THEOREM AccessMovesOneBlockHolds ==
  ASSUME MaxAccesses <= IntMax
  PROVE  Spec => AccessMovesOneBlock
<1> DEFINE Moves ==
      \A a \in Addrs : operateCache(a) =>
         LET s == cache_set(a)
             gone == (UNION {Resident(t) : t \in SetIndex})
                         \ (UNION {Resident(t)' : t \in SetIndex})
             come == (UNION {Resident(t)' : t \in SetIndex})
                         \ (UNION {Resident(t) : t \in SetIndex})
         IN  /\ address_to_block(a) \in Resident(s)'
             /\ gone = {r'.victim_block_addr} \ {Unset}
             /\ come = {r'.insert_block_addr} \ {Unset}
<1>1. ASSUME IInv, NEW a \in Addrs, operateCache(a)
      PROVE  /\ address_to_block(a) \in Resident(cache_set(a))'
             /\ AllResident \ AllResident' = {r'.victim_block_addr} \ {Unset}
             /\ AllResident' \ AllResident = {r'.insert_block_addr} \ {Unset}
  <2> DEFINE s == cache_set(a)
             b == address_to_block(a)
  <2>1. TypeOK /\ LineInv /\ s \in SetIndex /\ b \in Nat /\ Unset \notin Nat
    BY <1>1, AddressParts, AddrsAssumption DEF IInv, Unset
  <2>2. CASE Hit(a)
    <3>1. PICK w \in LineIndex :
                 /\ OneLine(s, w)
                 /\ lines[s][w].valid /\ lines[s][w].tag = cache_tag(a)
                 /\ lines'[s][w] = Touched(lines[s][w], Now(a))
      BY <2>1, <2>2, HitLine
    <3>2. lines[s][w].block_addr = b
      <4>1. w \in Matching(a)
        BY <3>1 DEF Matching, Valid
      <4> QED BY <2>1, <4>1, ProbeFindsBlock
    <3>3. lines'[s][w].valid /\ lines'[s][w].block_addr = b
      <4>1. lines[s][w] \in Line
        BY <2>1 DEF TypeOK
      <4> QED BY <3>1, <3>2, <4>1 DEF Touched, Line
    <3>4. r'.victim_block_addr = Unset /\ r'.insert_block_addr = Unset
      BY <2>2 DEF Hit
    <3> HIDE DEF s, b
    <3>5. b \in Resident(s)' /\ b \in AllResident /\ AllResident' = (AllResident \ {b}) \cup {b}
      BY <2>1, <3>1, <3>2, <3>3, ResidentAfter
    <3> QED BY <3>4, <3>5 DEF s, b
  <2>3. CASE Miss(a)
    <3>1. PICK w \in LineIndex :
                 OneLine(s, w) /\ ~lines[s][w].valid /\ lines'[s][w] = NewLine(a, Now(a))
      BY <2>1, <2>3, MissLine
    <3>2. lines'[s][w].valid /\ lines'[s][w].block_addr = b
      BY <3>1 DEF NewLine
    <3>3. r'.victim_block_addr = Unset /\ r'.insert_block_addr = b
      BY <2>3 DEF Miss
    <3>4. b \notin AllResident
      BY <2>1, <2>3, ProbeFindsBlock DEF Miss
    <3> HIDE DEF s, b
    <3>5. b \in Resident(s)' /\ AllResident' = AllResident \cup {b}
      BY <2>1, <3>1, <3>2, ResidentAfter
    <3> QED BY <2>1, <3>3, <3>4, <3>5 DEF s, b
  <2>4. CASE Evict(a)
    <3> DEFINE w == VictimLine(lines[s])
               v == lines[s][w].block_addr
    <3>1. /\ OneLine(s, w) /\ lines[s][w].valid /\ lines'[s][w] = NewLine(a, Now(a))
          /\ r'.victim_block_addr = v /\ v \in Nat
      BY <2>1, <2>4, EvictLine, VictimLineType
    <3>2. lines'[s][w].valid /\ lines'[s][w].block_addr = b
      BY <3>1 DEF NewLine
    <3>3. r'.insert_block_addr = b
      BY <2>4 DEF Evict
    <3>4. b \notin AllResident
      BY <2>1, <2>4, ProbeFindsBlock DEF Evict
    <3> HIDE DEF s, b, w
    <3>5. b \in Resident(s)' /\ v \in AllResident /\ AllResident' = (AllResident \ {v}) \cup {b}
      BY <2>1, <3>1, <3>2, ResidentAfter
    <3> HIDE DEF v
    <3> QED BY <2>1, <3>1, <3>3, <3>4, <3>5 DEF s, b
  <2> QED BY <1>1, <2>2, <2>3, <2>4 DEF operateCache
<1>2. IInv => Moves
  <2>1. /\ AllResident = UNION {Resident(t) : t \in SetIndex}
        /\ AllResident' = UNION {Resident(t)' : t \in SetIndex}
    BY DEF AllResident
  <2> SUFFICES ASSUME IInv, NEW a \in Addrs, operateCache(a)
               PROVE  /\ address_to_block(a) \in Resident(cache_set(a))'
                      /\ (UNION {Resident(t) : t \in SetIndex})
                             \ (UNION {Resident(t)' : t \in SetIndex})
                         = {r'.victim_block_addr} \ {Unset}
                      /\ (UNION {Resident(t)' : t \in SetIndex})
                             \ (UNION {Resident(t) : t \in SetIndex})
                         = {r'.insert_block_addr} \ {Unset}
    OBVIOUS
  <2>2. /\ address_to_block(a) \in Resident(cache_set(a))'
        /\ AllResident \ AllResident' = {r'.victim_block_addr} \ {Unset}
        /\ AllResident' \ AllResident = {r'.insert_block_addr} \ {Unset}
    BY <1>1
  <2> QED BY <2>1, <2>2
<1>3. IInv /\ [Next]_vars => [Moves]_vars
  BY <1>2
<1>4. AccessMovesOneBlock <=> [][Moves]_vars
  BY DEF AccessMovesOneBlock
<1> HIDE DEF Moves
<1> QED BY <1>3, <1>4, InvariantHolds, PTL DEF Spec

-----------------------------------------------------------------------------
(***************************************************************************)
(* The block that came in last.  What ties the result of an access to the  *)
(* next one: its block lies in a line with the latest clock of its set.    *)
(***************************************************************************)
NewestStamped ==
  r.insert_block_addr # Unset =>
     \E s \in SetIndex : \E i \in Valid(s) :
        /\ lines[s][i].block_addr = r.insert_block_addr
        /\ lines[s][i].lru_clock = lru_clock[s]

LEMMA NewestStampedHolds ==
  ASSUME MaxAccesses <= IntMax
  PROVE  Spec => []NewestStamped
<1>1. Init => NewestStamped
  BY DEF Init, NewestStamped, Unset
<1>2. ASSUME IInv, NewestStamped, [Next]_vars PROVE NewestStamped'
  <2>1. CASE UNCHANGED vars
    BY <1>2, <2>1 DEF vars, NewestStamped, Valid
  <2>2. ASSUME NEW a \in Addrs, operateCache(a) PROVE NewestStamped'
    <3> DEFINE s == cache_set(a)
    <3>1. s \in SetIndex /\ TypeOK /\ LineInv
      BY <1>2, AddressParts, AddrsAssumption DEF IInv
    <3>2. CASE Hit(a)
      BY <3>2 DEF Hit, NewestStamped
    <3>3. ASSUME NEW w \in LineIndex, lines'[s][w] = NewLine(a, Now(a)),
                 AdvanceClock(a), r'.insert_block_addr = address_to_block(a)
          PROVE  NewestStamped'
      <4>1. /\ lines'[s][w].valid
            /\ lines'[s][w].block_addr = r'.insert_block_addr
            /\ lines'[s][w].lru_clock = Now(a)
        BY <3>3 DEF NewLine
      <4>2. lru_clock'[s] = Now(a)
        BY <3>1, <3>3 DEF AdvanceClock, Now, TypeOK
      <4> HIDE DEF s
      <4> QED BY <3>1, <4>1, <4>2 DEF NewestStamped, Valid
    <3>4. CASE Miss(a)
      <4>1. \E w \in LineIndex : lines'[s][w] = NewLine(a, Now(a))
        BY <3>1, <3>4, MissLine
      <4> QED BY <3>3, <3>4, <4>1 DEF Miss
    <3>5. CASE Evict(a)
      <4>1. \E w \in LineIndex : lines'[s][w] = NewLine(a, Now(a))
        BY <3>1, <3>5, EvictLine, VictimLineType
      <4> QED BY <3>3, <3>5, <4>1 DEF Evict
    <3> QED BY <2>2, <3>2, <3>4, <3>5 DEF operateCache
  <2> QED BY <1>2, <2>1, <2>2 DEF Next
<1> QED BY <1>1, <1>2, InvariantHolds, PTL DEF Spec

(* Under LRU, as long as no counter can overflow, a set of several lines does *)
(* not give up the block that came in with the access before.  (Under LFU it  *)
(* may: the newest block was used least.)                                     *)
THEOREM NewestSurvivesHolds ==
  ASSUME MaxAccesses <= IntMax, lfu = 0
  PROVE  Spec => NewestSurvives
<1> DEFINE Survives == linesPerSet > 1 /\ r'.victim_block_addr # Unset
                          => r'.victim_block_addr # r.insert_block_addr
<1>1. ASSUME IInv, NewestStamped, linesPerSet > 1, NEW a \in Addrs, Evict(a),
             r'.victim_block_addr = r.insert_block_addr
      PROVE  FALSE
  <2> DEFINE s == cache_set(a)
             w == VictimLine(lines[s])
  <2>1. TypeOK /\ LineInv /\ s \in SetIndex /\ w \in LineIndex
    BY <1>1, AddressParts, AddrsAssumption, VictimLineType DEF IInv
  <2>2. /\ \A i \in LineIndex : lines[s][i].valid
        /\ lines[s][w].block_addr = r.insert_block_addr
        /\ lines[s][w].block_addr \in Nat
    BY <1>1, <2>1, EvictLine
  <2>3. \A i \in LineIndex : RanksLast(lines[s][w], lines[s][i])
    <3>1. lines[s] \in [LineIndex -> Line] /\ lfu \in {0, 1}
      BY <2>1 DEF TypeOK
    <3> HIDE DEF s
    <3> QED BY <2>2, <3>1, VictimRanksLast
  <2> HIDE DEF s, w
  <2>4. \A i \in LineIndex : i \in Valid(s)
    BY <2>2 DEF Valid
  <2>5. PICK t \in SetIndex : \E i \in Valid(t) :
               /\ lines[t][i].block_addr = r.insert_block_addr
               /\ lines[t][i].lru_clock = lru_clock[t]
    BY <1>1, <2>2 DEF NewestStamped, Unset
  <2>6. PICK i \in Valid(t) : /\ lines[t][i].block_addr = r.insert_block_addr
                              /\ lines[t][i].lru_clock = lru_clock[t]
    BY <2>5
  <2>7. lines[s][w].lru_clock = lru_clock[s]
    <3>1. t = s /\ lines[t][i].tag = lines[s][w].tag
      BY <2>1, <2>2, <2>4, <2>6 DEF LineInv, TagsMatchBlocks
    <3>2. i = w
      BY <2>1, <2>4, <2>6, <3>1 DEF LineInv, NoBlockTwice
    <3> QED BY <2>6, <3>1, <3>2
  <2>8. PICK j \in LineIndex : j # w
    <3>1. 0 \in LineIndex /\ 1 \in LineIndex
      BY <1>1, GeometryAssumption DEF LineIndex
    <3> QED BY <3>1
  <2>9. /\ lines[s][j].lru_clock \in 1 .. lru_clock[s]
        /\ lines[s][j].lru_clock # lines[s][w].lru_clock
    BY <2>1, <2>4, <2>8 DEF LineInv, ClocksOrderLines
  <2>10. lines[s][w].lru_clock <= lines[s][j].lru_clock
    BY <2>3 DEF RanksLast
  <2>11. lru_clock[s] \in Int
    BY <2>1 DEF TypeOK, CInt
  <2> QED BY <2>7, <2>9, <2>10, <2>11
<1>2. ASSUME IInv, NewestStamped, Next PROVE Survives
  <2>1. PICK a \in Addrs : operateCache(a)
    BY <1>2 DEF Next
  <2>2. CASE Hit(a) \/ Miss(a)
    BY <2>2 DEF Hit, Miss
  <2>3. CASE Evict(a)
    BY <1>1, <1>2, <2>3
  <2> QED BY <2>1, <2>2, <2>3 DEF operateCache
<1>3. IInv /\ NewestStamped /\ [Next]_vars => [Survives]_vars
  BY <1>2
<1>4. NewestSurvives <=> [][Survives]_vars
  BY DEF NewestSurvives
<1> HIDE DEF Survives
<1> QED BY <1>3, <1>4, InvariantHolds, NewestStampedHolds, PTL DEF Spec

-----------------------------------------------------------------------------
(***************************************************************************)
(* The statistics.  The sum of the clocks that StatisticsAddUp forms has a *)
(* solution, and one clock advanced by one adds one to it.                 *)
(***************************************************************************)
SetCount == Pow2[setBits]

Sums(c, n) ==
  {f \in [0 .. n -> Nat] :
      \A k \in 0 .. n : f[k] = IF k = 0 THEN 0 ELSE f[k - 1] + c[k - 1]}

ClockTotal(c) ==
  LET Total[n \in 0 .. Pow2[setBits]] ==
          IF n = 0 THEN 0 ELSE Total[n - 1] + c[n - 1]
  IN  Total[Pow2[setBits]]

LEMMA SetCountType == SetCount \in Nat \ {0} /\ SetIndex = 0 .. SetCount - 1
BY GeometryAssumption, Pow2Facts DEF SetCount, SetIndex

LEMMA SumsExist ==
  ASSUME NEW c \in [SetIndex -> Nat], NEW n \in 0 .. SetCount
  PROVE  Sums(c, n) # {}
<1> DEFINE A == {k \in Nat : k <= SetCount => Sums(c, k) # {}}
<1>1. 0 \in A
  <2>1. [k \in 0 .. 0 |-> 0] \in Sums(c, 0)
    BY DEF Sums
  <2> QED BY <2>1
<1>2. ASSUME NEW k \in A, k < n PROVE k + 1 \in A
  <2>1. k \in SetIndex /\ k <= SetCount /\ k \in Nat
    BY <1>2, SetCountType
  <2>2. PICK f \in Sums(c, k) : TRUE
    BY <2>1
  <2> DEFINE new == f[k] + c[k]
             g == [i \in 0 .. k + 1 |-> IF i = k + 1 THEN new ELSE f[i]]
  <2>3. /\ f \in [0 .. k -> Nat]
        /\ \A i \in 0 .. k : f[i] = IF i = 0 THEN 0 ELSE f[i - 1] + c[i - 1]
    BY <2>2 DEF Sums
  <2>4. new \in Nat
    BY <2>1, <2>3
  <2>5. g \in [0 .. k + 1 -> Nat]
    <3>1. \A i \in 0 .. k + 1 : i # k + 1 => i \in 0 .. k
      BY <2>1
    <3> HIDE DEF new
    <3> QED BY <2>3, <2>4, <3>1
  <2>6. ASSUME NEW i \in 0 .. k + 1
        PROVE  g[i] = IF i = 0 THEN 0 ELSE g[i - 1] + c[i - 1]
    <3>1. CASE i = k + 1
      <4>1. i # 0 /\ i - 1 = k /\ g[i - 1] = f[k] /\ g[i] = new
        BY <2>1, <3>1
      <4> QED BY <4>1
    <3>2. CASE i \in 0 .. k /\ i # 0
      <4>1. g[i] = f[i] /\ g[i - 1] = f[i - 1]
        BY <2>1, <3>2
      <4> QED BY <2>3, <3>2, <4>1
    <3>3. CASE i = 0
      BY <2>1, <2>3, <3>3
    <3> QED BY <2>1, <3>1, <3>2, <3>3
  <2>7. g \in Sums(c, k + 1)
    <3> HIDE DEF g
    <3> QED BY <2>5, <2>6 DEF Sums
  <2> QED BY <2>1, <2>7
<1>3. n \in A
  <2>1. A \in SUBSET Nat /\ n \in Nat
    BY SetCountType DEF A
  <2> HIDE DEF A
  <2> QED BY <1>1, <1>2, <2>1, NaturalInduction
<1> QED BY <1>3, SetCountType

LEMMA ClockTotalSum ==
  ASSUME NEW c \in [SetIndex -> Nat]
  PROVE  \E f \in Sums(c, SetCount) : ClockTotal(c) = f[SetCount]
<1> DEFINE Step(f) == [n \in 0 .. SetCount |->
                          IF n = 0 THEN 0 ELSE f[n - 1] + c[n - 1]]
           sum == CHOOSE f : f = Step(f)
<1>1. ClockTotal(c) = sum[SetCount]
  BY DEF ClockTotal, SetCount
<1>2. PICK f \in Sums(c, SetCount) : TRUE
  <2>1. SetCount \in 0 .. SetCount
    BY SetCountType
  <2> QED BY <2>1, SumsExist
<1>3. f = Step(f)
  BY <1>2 DEF Sums
<1>4. sum = Step(sum)
  BY <1>3
<1>5. sum[SetCount] = f[SetCount]
  <2> DEFINE A == {n \in Nat : n <= SetCount => sum[n] = f[n]}
  <2>1. \A n \in 0 .. SetCount : sum[n] = Step(sum)[n] /\ f[n] = Step(f)[n]
    BY <1>3, <1>4
  <2> HIDE DEF sum
  <2>2. 0 \in A
    BY <2>1, SetCountType
  <2>3. ASSUME NEW k \in A, k < SetCount PROVE k + 1 \in A
    <3>1. k \in 0 .. SetCount /\ k + 1 \in 0 .. SetCount /\ k + 1 # 0 /\ (k + 1) - 1 = k
      BY <2>3, SetCountType
    <3>2. sum[k] = f[k]
      BY <2>3, <3>1
    <3>3. sum[k + 1] = f[k + 1]
      BY <2>1, <3>1, <3>2
    <3> QED BY <3>1, <3>3
  <2>4. SetCount \in A
    <3>1. A \in SUBSET Nat /\ SetCount \in Nat
      BY SetCountType DEF A
    <3> HIDE DEF A
    <3> QED BY <2>2, <2>3, <3>1, NaturalInduction
  <2> QED BY <2>4, SetCountType
<1> QED BY <1>1, <1>2, <1>5

(* The sum after n sets, with the clock of set s advanced. *)
LEMMA OneClockAdvanced ==
  ASSUME NEW c \in [SetIndex -> Nat], NEW s \in SetIndex
  PROVE  ClockTotal([c EXCEPT ![s] = c[s] + 1]) = ClockTotal(c) + 1
<1> DEFINE d == [c EXCEPT ![s] = c[s] + 1]
<1>1. d \in [SetIndex -> Nat]
  BY SetCountType
<1>2. PICK f \in Sums(c, SetCount) : ClockTotal(c) = f[SetCount]
  BY ClockTotalSum
<1>3. PICK g \in Sums(d, SetCount) : ClockTotal(d) = g[SetCount]
  <2> HIDE DEF d
  <2> QED BY <1>1, ClockTotalSum
<1>4. /\ f \in [0 .. SetCount -> Nat]
      /\ \A k \in 0 .. SetCount : f[k] = IF k = 0 THEN 0 ELSE f[k - 1] + c[k - 1]
  BY <1>2 DEF Sums
<1>5. /\ g \in [0 .. SetCount -> Nat]
      /\ \A k \in 0 .. SetCount : g[k] = IF k = 0 THEN 0 ELSE g[k - 1] + d[k - 1]
  BY <1>3 DEF Sums
<1>6. \A k \in SetIndex : d[k] = IF k = s THEN c[k] + 1 ELSE c[k]
  OBVIOUS
<1> DEFINE A == {k \in Nat : k <= SetCount => g[k] = IF k > s THEN f[k] + 1 ELSE f[k]}
<1> HIDE DEF d
<1>7. 0 \in A
  BY <1>4, <1>5, SetCountType
<1>8. ASSUME NEW k \in A, k < SetCount PROVE k + 1 \in A
  <2>1. /\ k \in SetIndex /\ k \in 0 .. SetCount /\ k + 1 \in 0 .. SetCount
        /\ k + 1 # 0 /\ (k + 1) - 1 = k /\ s \in Nat
    BY <1>8, SetCountType
  <2>2. g[k] = IF k > s THEN f[k] + 1 ELSE f[k]
    BY <2>1
  <2>3. f[k + 1] = f[k] + c[k] /\ g[k + 1] = g[k] + d[k]
    BY <1>4, <1>5, <2>1
  <2>4. f[k] \in Nat /\ c[k] \in Nat /\ d[k] = IF k = s THEN c[k] + 1 ELSE c[k]
    BY <1>4, <1>6, <2>1
  <2>5. g[k + 1] = IF k + 1 > s THEN f[k + 1] + 1 ELSE f[k + 1]
    BY <2>1, <2>2, <2>3, <2>4
  <2> QED BY <2>1, <2>5
<1>9. SetCount \in A
  <2>1. A \in SUBSET Nat /\ SetCount \in Nat
    BY SetCountType DEF A
  <2> HIDE DEF A
  <2> QED BY <1>7, <1>8, <2>1, NaturalInduction
<1>10. g[SetCount] = f[SetCount] + 1
  BY <1>9, SetCountType
<1> QED BY <1>2, <1>3, <1>10 DEF d

LEMMA NoClockAdvanced ==
  ASSUME NEW c, c = [s \in SetIndex |-> 0]
  PROVE  ClockTotal(c) = 0
<1>1. c \in [SetIndex -> Nat]
  OBVIOUS
<1>2. PICK f \in Sums(c, SetCount) : ClockTotal(c) = f[SetCount]
  BY <1>1, ClockTotalSum
<1>3. /\ f \in [0 .. SetCount -> Nat]
      /\ \A k \in 0 .. SetCount : f[k] = IF k = 0 THEN 0 ELSE f[k - 1] + c[k - 1]
  BY <1>2 DEF Sums
<1> DEFINE A == {k \in Nat : k <= SetCount => f[k] = 0}
<1>4. 0 \in A
  BY <1>3, SetCountType
<1>5. ASSUME NEW k \in A, k < SetCount PROVE k + 1 \in A
  <2>1. /\ k \in SetIndex /\ k \in 0 .. SetCount /\ k + 1 \in 0 .. SetCount
        /\ k + 1 # 0 /\ (k + 1) - 1 = k
    BY <1>5, SetCountType
  <2>2. f[k] = 0 /\ f[k + 1] = f[k] + c[k] /\ c[k] = 0
    BY <1>3, <2>1
  <2> QED BY <2>1, <2>2
<1>6. SetCount \in A
  <2>1. A \in SUBSET Nat /\ SetCount \in Nat
    BY SetCountType DEF A
  <2> HIDE DEF A
  <2> QED BY <1>4, <1>5, <2>1, NaturalInduction
<1> QED BY <1>2, <1>6, SetCountType

ValidLines == {p \in SetIndex \X LineIndex : lines[p[1]][p[2]].valid}

LEMMA ValidLinesFinite == IsFiniteSet(ValidLines)
<1>1. IsFiniteSet(SetIndex) /\ IsFiniteSet(LineIndex)
  <2>1. SetCount - 1 \in Int /\ linesPerSet - 1 \in Int /\ 0 \in Int
    BY SetCountType, GeometryAssumption
  <2> QED BY <2>1, FS_Interval, SetCountType DEF LineIndex
<1>2. IsFiniteSet(SetIndex \X LineIndex)
  BY <1>1, FS_Product
<1>3. ValidLines \in SUBSET (SetIndex \X LineIndex)
  BY DEF ValidLines
<1> QED BY <1>2, <1>3, FS_Subset

(* Writing a valid line over an invalid one makes one more valid line.        *)
LEMMA ValidLinesAfter ==
  ASSUME NEW s \in SetIndex, NEW w, OneLine(s, w), lines'[s][w].valid
  PROVE  Cardinality(ValidLines') = IF lines[s][w].valid THEN Cardinality(ValidLines)
                                    ELSE Cardinality(ValidLines) + 1
<1>1. ValidLines' = ValidLines \cup {<<s, w>>}
  BY DEF ValidLines, OneLine
<1>2. <<s, w>> \in ValidLines <=> lines[s][w].valid
  BY DEF ValidLines, OneLine
<1> QED BY <1>1, <1>2, ValidLinesFinite, FS_AddElement

(* As long as no counter can overflow, the accesses of all sets are the hits  *)
(* and misses counted, and the misses are the evictions and the lines filled. *)
THEOREM StatisticsAddUpHolds ==
  ASSUME MaxAccesses <= IntMax
  PROVE  Spec => []StatisticsAddUp
<1> DEFINE Stats == /\ hit_count + miss_count = ClockTotal(lru_clock)
                    /\ miss_count = eviction_count + Cardinality(ValidLines)
<1>1. Stats => StatisticsAddUp
  BY DEF ClockTotal, ValidLines, StatisticsAddUp
<1>2. ASSUME Init PROVE Stats
  <2>1. ValidLines = {}
    BY <1>2 DEF Init, cacheSetUp, ValidLines
  <2>2. ClockTotal(lru_clock) = 0
    BY <1>2, NoClockAdvanced DEF Init, cacheSetUp
  <2>3. Cardinality(ValidLines) = 0
    BY <2>1, FS_EmptySet
  <2> QED BY <1>2, <2>2, <2>3 DEF Init, cacheSetUp
<1>3. ASSUME IInv, Stats, [Next]_vars PROVE Stats'
  <2>1. CASE UNCHANGED vars
    BY <1>3, <2>1 DEF vars, ClockTotal, ValidLines
  <2>2. ASSUME accesses < MaxAccesses, NEW a \in Addrs, operateCache(a) PROVE Stats'
    <3> DEFINE s == cache_set(a)
    <3>1. s \in SetIndex /\ TypeOK /\ LineInv /\ CountersBounded
      BY <1>3, AddressParts, AddrsAssumption DEF IInv
    <3>2. /\ Inc(lru_clock[s]) = lru_clock[s] + 1
          /\ Inc(hit_count) = hit_count + 1
          /\ Inc(miss_count) = miss_count + 1
          /\ Inc(eviction_count) = eviction_count + 1
          /\ lru_clock \in [SetIndex -> Nat]
      BY <2>2, <3>1, NowIsNext DEF TypeOK
    <3>3. AdvanceClock(a) => ClockTotal(lru_clock') = ClockTotal(lru_clock) + 1
      <4>1. AdvanceClock(a) => lru_clock' = [lru_clock EXCEPT ![s] = lru_clock[s] + 1]
        BY <3>1, <3>2 DEF AdvanceClock
      <4> HIDE DEF s
      <4> QED BY <3>1, <3>2, <4>1, OneClockAdvanced
    <3>4. /\ hit_count \in Nat /\ miss_count \in Nat /\ eviction_count \in Nat
          /\ Cardinality(ValidLines) \in Nat
      BY <3>1, ValidLinesFinite, FS_CardinalityType DEF CountersBounded
    <3>5. ClockTotal(lru_clock)' = ClockTotal(lru_clock')
      BY DEF ClockTotal
    <3>6. CASE Hit(a)
      <4>1. PICK w \in LineIndex :
                   /\ OneLine(s, w) /\ lines[s][w].valid
                   /\ lines'[s][w] = Touched(lines[s][w], Now(a))
        BY <3>1, <3>6, HitLine
      <4>2. lines'[s][w].valid
        <5>1. lines[s][w] \in Line
          BY <3>1 DEF TypeOK
        <5> QED BY <4>1, <5>1 DEF Touched, Line
      <4> HIDE DEF s
      <4>3. Cardinality(ValidLines') = Cardinality(ValidLines)
        BY <3>1, <4>1, <4>2, ValidLinesAfter
      <4> QED BY <1>3, <3>2, <3>3, <3>4, <3>5, <3>6, <4>3 DEF Hit
    <3>7. CASE Miss(a)
      <4>1. PICK w \in LineIndex :
                   OneLine(s, w) /\ ~lines[s][w].valid /\ lines'[s][w] = NewLine(a, Now(a))
        BY <3>1, <3>7, MissLine
      <4>2. lines'[s][w].valid
        BY <4>1 DEF NewLine
      <4> HIDE DEF s
      <4>3. Cardinality(ValidLines') = Cardinality(ValidLines) + 1
        BY <3>1, <4>1, <4>2, ValidLinesAfter
      <4> QED BY <1>3, <3>2, <3>3, <3>4, <3>5, <3>7, <4>3 DEF Miss
    <3>8. CASE Evict(a)
      <4> DEFINE w == VictimLine(lines[s])
      <4>1. OneLine(s, w) /\ lines[s][w].valid /\ lines'[s][w] = NewLine(a, Now(a))
        BY <3>1, <3>8, EvictLine, VictimLineType
      <4>2. lines'[s][w].valid
        BY <4>1 DEF NewLine
      <4> HIDE DEF s, w
      <4>3. Cardinality(ValidLines') = Cardinality(ValidLines)
        BY <3>1, <4>1, <4>2, ValidLinesAfter
      <4> QED BY <1>3, <3>2, <3>3, <3>4, <3>5, <3>8, <4>3 DEF Evict
    <3> QED BY <2>2, <3>6, <3>7, <3>8 DEF operateCache
  <2> QED BY <1>3, <2>1, <2>2 DEF Next
<1> HIDE DEF Stats
<1> QED BY <1>1, <1>2, <1>3, InvariantHolds, PTL DEF Spec

-----------------------------------------------------------------------------
(***************************************************************************)
(* An access under LRU, as a change of the tags that a set holds and the   *)
(* clocks of their last use, whatever the lines they lie in: what module   *)
(* InclusionProofs compares two caches by.                                 *)
(***************************************************************************)
Content(s) == {<<lines[s][i].tag, lines[s][i].lru_clock>> : i \in Valid(s)}

LEMMA ContentFacts ==
  ASSUME TypeOK, LineInv, NEW s \in SetIndex
  PROVE  /\ Content(s) \subseteq Nat \X Nat
         /\ \A p, q \in Content(s) : p[1] = q[1] \/ p[2] = q[2] => p = q
         /\ \A p \in Content(s) : p[2] <= lru_clock[s]
         /\ IsFiniteSet(Content(s))
         /\ Cardinality(Content(s)) = Cardinality(Valid(s))
<1>1. \A i \in Valid(s) : /\ lines[s][i] \in Line
                          /\ lines[s][i].lru_clock \in 1 .. lru_clock[s]
  BY DEF TypeOK, Valid, LineInv, ClocksOrderLines
<1>2. \A i, j \in Valid(s) : /\ lines[s][i].tag = lines[s][j].tag => i = j
                             /\ lines[s][i].lru_clock = lines[s][j].lru_clock => i = j
  BY DEF LineInv, NoBlockTwice, ClocksOrderLines
<1>3. lru_clock[s] \in Int
  BY DEF TypeOK, CInt
<1> DEFINE pair == [i \in Valid(s) |-> <<lines[s][i].tag, lines[s][i].lru_clock>>]
<1>4. IsFiniteSet(Valid(s))
  <2>1. IsFiniteSet(LineIndex)
    <3>1. linesPerSet - 1 \in Int /\ 0 \in Int
      BY GeometryAssumption
    <3> QED BY <3>1, FS_Interval DEF LineIndex
  <2>2. Valid(s) \in SUBSET LineIndex
    BY DEF Valid
  <2> QED BY <2>1, <2>2, FS_Subset
<1>5. pair \in Bijection(Valid(s), Content(s))
  <2>1. \A i, j \in Valid(s) : pair[i] = pair[j] => i = j
    BY <1>2
  <2>2. pair \in [Valid(s) -> Content(s)]
    BY DEF Content
  <2>3. \A p \in Content(s) : \E i \in Valid(s) : pair[i] = p
    BY DEF Content
  <2> HIDE DEF pair
  <2>4. pair \in Injection(Valid(s), Content(s))
    BY <2>1, <2>2 DEF Injection, IsInjective
  <2>5. pair \in Surjection(Valid(s), Content(s))
    BY <2>2, <2>3 DEF Surjection
  <2> QED BY <2>4, <2>5 DEF Bijection
<1>6. IsFiniteSet(Content(s)) /\ Cardinality(Content(s)) = Cardinality(Valid(s))
  <2> HIDE DEF pair
  <2>1. ExistsBijection(Valid(s), Content(s))
    BY <1>5 DEF ExistsBijection
  <2> QED BY <1>4, <2>1, FS_Bijection
<1>7. Content(s) \subseteq Nat \X Nat
  BY <1>1, <1>3 DEF Content, Line
<1>8. \A p, q \in Content(s) : p[1] = q[1] \/ p[2] = q[2] => p = q
  BY <1>2 DEF Content
<1>9. \A p \in Content(s) : p[2] <= lru_clock[s]
  BY <1>1, <1>3 DEF Content
<1> QED BY <1>6, <1>7, <1>8, <1>9

LEMMA LineCount ==
  /\ IsFiniteSet(LineIndex)
  /\ Cardinality(LineIndex) = linesPerSet
<1>1. /\ 0 \in Int /\ linesPerSet - 1 \in Int /\ ~(0 > linesPerSet - 1)
      /\ (linesPerSet - 1) - 0 + 1 = linesPerSet
  BY GeometryAssumption
<1>2. /\ IsFiniteSet(0 .. linesPerSet - 1)
      /\ Cardinality(0 .. linesPerSet - 1) = (linesPerSet - 1) - 0 + 1
  BY <1>1, FS_Interval
<1> QED BY <1>1, <1>2 DEF LineIndex

(* A set is full exactly if it holds as many tags as it has lines. *)
LEMMA FullContent ==
  ASSUME TypeOK, LineInv, NEW s \in SetIndex
  PROVE  /\ Cardinality(Content(s)) \in Nat
         /\ Cardinality(Content(s)) <= linesPerSet
         /\ Invalid(s) = {} <=> Cardinality(Content(s)) = linesPerSet
<1>1. Valid(s) \in SUBSET LineIndex
  BY DEF Valid
<1>2. /\ IsFiniteSet(Valid(s))
      /\ Cardinality(Valid(s)) <= linesPerSet
      /\ linesPerSet = Cardinality(Valid(s)) => LineIndex = Valid(s)
  BY <1>1, LineCount, FS_Subset
<1>3. Cardinality(Valid(s)) \in Nat
  BY <1>2, FS_CardinalityType
<1>4. Valid(s) = LineIndex => Cardinality(Valid(s)) = linesPerSet
  BY LineCount
<1>5. Cardinality(Content(s)) = Cardinality(Valid(s))
  BY ContentFacts
<1> QED BY <1>1, <1>2, <1>3, <1>4, <1>5 DEF Invalid

(* The resident blocks of a set are the aligned ones whose tags it holds. *)
LEMMA ResidentTags ==
  ASSUME TypeOK, LineInv, NEW s \in SetIndex, NEW x
  PROVE  x \in Resident(s) <=> /\ x \in Nat /\ address_to_block(x) = x /\ cache_set(x) = s
                               /\ \E p \in Content(s) : p[1] = cache_tag(x)
<1>1. \A i \in Valid(s) : /\ lines[s][i].block_addr \in Nat
                          /\ address_to_block(lines[s][i].block_addr) = lines[s][i].block_addr
                          /\ cache_set(lines[s][i].block_addr) = s
                          /\ cache_tag(lines[s][i].block_addr) = lines[s][i].tag
  BY DEF TypeOK, Line, Valid, LineInv, TagsMatchBlocks
<1>2. ASSUME x \in Resident(s)
      PROVE  /\ x \in Nat /\ address_to_block(x) = x /\ cache_set(x) = s
             /\ \E p \in Content(s) : p[1] = cache_tag(x)
  <2>1. PICK i \in Valid(s) : lines[s][i].block_addr = x
    BY <1>2 DEF Resident
  <2>2. <<lines[s][i].tag, lines[s][i].lru_clock>> \in Content(s)
    BY DEF Content
  <2> QED BY <1>1, <2>1, <2>2
<1>3. ASSUME x \in Nat, address_to_block(x) = x, cache_set(x) = s,
             NEW p \in Content(s), p[1] = cache_tag(x)
      PROVE  x \in Resident(s)
  <2>1. PICK i \in Valid(s) : p = <<lines[s][i].tag, lines[s][i].lru_clock>>
    BY DEF Content
  <2>2. lines[s][i].tag = cache_tag(x)
    BY <1>3, <2>1
  <2>3. lines[s][i].block_addr = x
    BY <1>1, <1>3, <2>2, SameBlock
  <2> QED BY <2>3 DEF Resident
<1> QED BY <1>2, <1>3

LEMMA ContentAfter ==
  ASSUME TypeOK, LineInv, NEW s \in SetIndex, NEW w, OneLine(s, w), lines'[s][w].valid
  PROVE  LET Pair(l) == <<l.tag, l.lru_clock>> IN
         /\ \A u \in SetIndex \ {s} : Content(u)' = Content(u)
         /\ lines[s][w].valid =>
               /\ Pair(lines[s][w]) \in Content(s)
               /\ Content(s)' = (Content(s) \ {Pair(lines[s][w])}) \cup {Pair(lines'[s][w])}
         /\ ~lines[s][w].valid => Content(s)' = Content(s) \cup {Pair(lines'[s][w])}
<1> DEFINE Pair(l) == <<l.tag, l.lru_clock>>
           old == Pair(lines[s][w])
           new == Pair(lines'[s][w])
<1>1. /\ w \in LineIndex
      /\ \A u \in SetIndex : u # s => lines'[u] = lines[u]
      /\ \A i \in LineIndex : i # w => lines'[s][i] = lines[s][i]
  BY DEF OneLine
<1>2. \A u \in SetIndex \ {s} : Content(u)' = Content(u)
  BY <1>1 DEF Content, Valid
<1>3. \A x : x \in Content(s) <=> \E i \in LineIndex : lines[s][i].valid /\ x = Pair(lines[s][i])
  BY DEF Content, Valid
<1>4. \A x : x \in Content(s)' <=> \E i \in LineIndex : lines'[s][i].valid /\ x = Pair(lines'[s][i])
  BY DEF Content, Valid
<1>5. ASSUME NEW i \in LineIndex, i # w, lines[s][i].valid, lines[s][w].valid
      PROVE  Pair(lines[s][i]) # old
  BY <1>1, <1>5 DEF LineInv, NoBlockTwice, Valid
<1>6. lines[s][w].valid => old \in Content(s)
  BY <1>1, <1>3
<1>7. ASSUME NEW x PROVE x \in Content(s)' <=> \/ x = new
                                               \/ x \in Content(s) /\ ~(lines[s][w].valid /\ x = old)
  <2>1. ASSUME x \in Content(s)', x # new
        PROVE  x \in Content(s) /\ ~(lines[s][w].valid /\ x = old)
    <3>1. PICK i \in LineIndex : lines'[s][i].valid /\ x = Pair(lines'[s][i])
      BY <1>4, <2>1
    <3>2. i # w /\ lines[s][i].valid /\ x = Pair(lines[s][i])
      BY <1>1, <2>1, <3>1
    <3> QED BY <1>3, <1>5, <3>2
  <2>2. ASSUME x \in Content(s), ~(lines[s][w].valid /\ x = old)
        PROVE  x \in Content(s)'
    <3>1. PICK i \in LineIndex : lines[s][i].valid /\ x = Pair(lines[s][i])
      BY <1>3, <2>2
    <3>2. lines'[s][i].valid /\ x = Pair(lines'[s][i])
      BY <1>1, <2>2, <3>1
    <3> QED BY <1>4, <3>2
  <2>3. new \in Content(s)'
    BY <1>1, <1>4
  <2> QED BY <2>1, <2>2, <2>3
<1> HIDE DEF old, new
<1>8. lines[s][w].valid => Content(s)' = (Content(s) \ {old}) \cup {new}
  BY <1>7
<1>9. ~lines[s][w].valid => Content(s)' = Content(s) \cup {new}
  BY <1>7
<1> QED BY <1>2, <1>6, <1>8, <1>9 DEF old, new

(* The three outcomes of an access of tag t in set s, under LRU. *)
Stamped(s, t) == <<t, lru_clock[s] + 1>>

ContentHit(s, t) ==
  /\ \E p \in Content(s) : p[1] = t /\ Content(s)' = (Content(s) \ {p}) \cup {Stamped(s, t)}
  /\ hit_count' = hit_count + 1
  /\ UNCHANGED <<miss_count, eviction_count>>

ContentMiss(s, t) ==
  /\ \A p \in Content(s) : p[1] # t
  /\ Cardinality(Content(s)) < linesPerSet
  /\ Content(s)' = Content(s) \cup {Stamped(s, t)}
  /\ miss_count' = miss_count + 1
  /\ UNCHANGED <<hit_count, eviction_count>>

ContentEvict(s, t) ==
  /\ \A p \in Content(s) : p[1] # t
  /\ Cardinality(Content(s)) = linesPerSet
  /\ \E v \in Content(s) : /\ \A q \in Content(s) : v[2] <= q[2]
                           /\ Content(s)' = (Content(s) \ {v}) \cup {Stamped(s, t)}
  /\ miss_count' = miss_count + 1
  /\ eviction_count' = eviction_count + 1
  /\ UNCHANGED hit_count

LEMMA ContentStep ==
  ASSUME MaxAccesses <= IntMax, lfu = 0, IInv, accesses < MaxAccesses,
         NEW a \in Addrs, operateCache(a)
  PROVE  LET s == cache_set(a)
             t == cache_tag(a)
         IN  /\ s \in SetIndex
             /\ \A u \in SetIndex \ {s} : Content(u)' = Content(u) /\ lru_clock'[u] = lru_clock[u]
             /\ lru_clock'[s] = lru_clock[s] + 1
             /\ ContentHit(s, t) \/ ContentMiss(s, t) \/ ContentEvict(s, t)
<1> DEFINE s == cache_set(a)
           t == cache_tag(a)
<1>1. s \in SetIndex /\ TypeOK /\ LineInv /\ CountersBounded
  BY AddressParts, AddrsAssumption DEF IInv
<1>2. /\ Now(a) = lru_clock[s] + 1
      /\ Inc(hit_count) = hit_count + 1
      /\ Inc(miss_count) = miss_count + 1
      /\ Inc(eviction_count) = eviction_count + 1
  BY <1>1, NowIsNext DEF Now
<1>3. /\ \A u \in SetIndex \ {s} : lru_clock'[u] = lru_clock[u]
      /\ lru_clock'[s] = lru_clock[s] + 1
  <2>1. AdvanceClock(a)
    BY DEF operateCache, Hit, Miss, Evict
  <2>2. lru_clock' = [lru_clock EXCEPT ![s] = lru_clock[s] + 1]
    BY <1>1, <1>2, <2>1 DEF AdvanceClock, Now
  <2> QED BY <1>1, <2>2 DEF TypeOK
<1>4. ASSUME ~probe_cache(a), NEW p \in Content(s) PROVE p[1] # t
  BY <1>4 DEF probe_cache, Matching, Content
<1>5. CASE Hit(a)
  <2>1. PICK w \in LineIndex :
               /\ OneLine(s, w)
               /\ lines[s][w].valid /\ lines[s][w].tag = cache_tag(a)
               /\ lines'[s][w] = Touched(lines[s][w], Now(a))
    BY <1>1, <1>5, HitLine
  <2>2. lines'[s][w].valid /\ lines'[s][w].tag = t /\ lines'[s][w].lru_clock = lru_clock[s] + 1
    <3>1. lines[s][w] \in Line
      BY <1>1 DEF TypeOK
    <3> QED BY <1>2, <2>1, <3>1 DEF Touched, Line
  <2> DEFINE old == <<lines[s][w].tag, lines[s][w].lru_clock>>
  <2>3. /\ \A u \in SetIndex \ {s} : Content(u)' = Content(u)
        /\ old \in Content(s)
        /\ Content(s)' = (Content(s) \ {old}) \cup {<<lines'[s][w].tag, lines'[s][w].lru_clock>>}
    <3> HIDE DEF s
    <3> QED BY <1>1, <2>1, <2>2, ContentAfter
  <2>4. old[1] = t
    BY <2>1
  <2> HIDE DEF s, t, old
  <2>5. ContentHit(s, t)
    BY <1>2, <1>5, <2>2, <2>3, <2>4 DEF ContentHit, Stamped, Hit
  <2> QED BY <1>1, <1>3, <2>3, <2>5 DEF s, t
<1>6. CASE Miss(a)
  <2>1. PICK w \in LineIndex :
               OneLine(s, w) /\ ~lines[s][w].valid /\ lines'[s][w] = NewLine(a, Now(a))
    BY <1>1, <1>6, MissLine
  <2>2. lines'[s][w].valid /\ lines'[s][w].tag = t /\ lines'[s][w].lru_clock = lru_clock[s] + 1
    BY <1>2, <2>1 DEF NewLine
  <2>3. Invalid(s) # {}
    BY <1>6 DEF Miss
  <2> HIDE DEF s, t
  <2>4. /\ \A u \in SetIndex \ {s} : Content(u)' = Content(u)
        /\ Content(s)' = Content(s) \cup {<<lines'[s][w].tag, lines'[s][w].lru_clock>>}
    BY <1>1, <2>1, <2>2, ContentAfter
  <2>5. Cardinality(Content(s)) < linesPerSet
    BY <1>1, <2>3, FullContent, GeometryAssumption
  <2>6. ContentMiss(s, t)
    BY <1>2, <1>4, <1>6, <2>2, <2>4, <2>5 DEF ContentMiss, Stamped, Miss
  <2> QED BY <1>1, <1>3, <2>4, <2>6 DEF s, t
<1>7. CASE Evict(a)
  <2> DEFINE w == VictimLine(lines[s])
             old == <<lines[s][w].tag, lines[s][w].lru_clock>>
  <2>1. /\ OneLine(s, w) /\ \A i \in LineIndex : lines[s][i].valid
        /\ lines'[s][w] = NewLine(a, Now(a)) /\ w \in LineIndex
    BY <1>1, <1>7, EvictLine, VictimLineType
  <2>2. lines'[s][w].valid /\ lines'[s][w].tag = t /\ lines'[s][w].lru_clock = lru_clock[s] + 1
    BY <1>2, <2>1 DEF NewLine
  <2>3. Invalid(s) = {}
    BY <1>7 DEF Evict
  <2>4. \A i \in LineIndex : lines[s][w].lru_clock <= lines[s][i].lru_clock
    <3>1. lines[s] \in [LineIndex -> Line] /\ lfu \in {0, 1}
      BY <1>1 DEF TypeOK
    <3>2. \A i \in LineIndex : RanksLast(lines[s][w], lines[s][i])
      <4> HIDE DEF s
      <4> QED BY <2>1, <3>1, VictimRanksLast
    <3> QED BY <3>2 DEF RanksLast
  <2> HIDE DEF s, t, w
  <2>5. /\ \A u \in SetIndex \ {s} : Content(u)' = Content(u)
        /\ old \in Content(s)
        /\ Content(s)' = (Content(s) \ {old}) \cup {<<lines'[s][w].tag, lines'[s][w].lru_clock>>}
    BY <1>1, <2>1, <2>2, ContentAfter
  <2>6. \A q \in Content(s) : old[2] <= q[2]
    BY <2>4 DEF Content, Valid
  <2>7. Cardinality(Content(s)) = linesPerSet
    BY <1>1, <2>3, FullContent
  <2> HIDE DEF old
  <2>8. ContentEvict(s, t)
    BY <1>2, <1>4, <1>7, <2>2, <2>5, <2>6, <2>7 DEF ContentEvict, Stamped, Evict
  <2> QED BY <1>1, <1>3, <2>5, <2>8 DEF s, t
<1> QED BY <1>5, <1>6, <1>7 DEF operateCache

-----------------------------------------------------------------------------
(***************************************************************************)
(* The refinement of the replacement policy.  The list of a set, which the *)
(* policy keeps, is the list of its valid lines by their clocks; it has no *)
(* recursive definition, and a step of the cache rebuilds it from the old  *)
(* one, which is then the only list there can be.                          *)
(***************************************************************************)

(* The element at position i removed. *)
LEMMA RemoveAtFacts ==
  ASSUME NEW S, NEW q \in Seq(S), NEW i \in 1 .. Len(q)
  PROVE  /\ RemoveAt(q, i) \in Seq(S)
         /\ Len(RemoveAt(q, i)) = Len(q) - 1
         /\ \A n \in 1 .. Len(q) - 1 : RemoveAt(q, i)[n] = IF n < i THEN q[n] ELSE q[n + 1]
<1> DEFINE l == SubSeq(q, 1, i - 1)
           u == SubSeq(q, i + 1, Len(q))
<1>0. Len(q) \in Nat /\ i \in Nat
  OBVIOUS
<1>1. l \in Seq(S) /\ Len(l) = i - 1 /\ \A n \in 1 .. i - 1 : l[n] = q[n]
  OBVIOUS
<1>2. u \in Seq(S) /\ Len(u) = Len(q) - i /\ \A n \in 1 .. Len(q) - i : u[n] = q[i + n]
  OBVIOUS
<1>3. RemoveAt(q, i) = l \o u
  BY DEF RemoveAt
<1> HIDE DEF l, u
<1>4. l \o u \in Seq(S) /\ Len(l \o u) = Len(q) - 1
  BY <1>0, <1>1, <1>2
<1>5. ASSUME NEW n \in 1 .. Len(q) - 1 PROVE (l \o u)[n] = IF n < i THEN q[n] ELSE q[n + 1]
  <2>1. CASE n < i
    BY <1>0, <1>1, <1>2, <2>1
  <2>2. CASE n >= i
    <3>1. (l \o u)[n] = u[n - (i - 1)]
      BY <1>0, <1>1, <1>2, <2>2
    <3>2. n - (i - 1) \in 1 .. Len(q) - i /\ i + (n - (i - 1)) = n + 1
      BY <1>0, <2>2
    <3> QED BY <1>0, <1>2, <2>2, <3>1, <3>2
  <2>3. n < i \/ n >= i
    BY <1>0
  <2> QED BY <2>1, <2>2, <2>3
<1> QED BY <1>3, <1>4, <1>5

(* What it takes for a function to be a sequence with an element appended.    *)
LEMMA AppendIs ==
  ASSUME NEW S, NEW q \in Seq(S), NEW b, NEW f \in [1 .. Len(q) + 1 -> S \cup {b}],
         \A n \in 1 .. Len(q) : f[n] = q[n], f[Len(q) + 1] = b
  PROVE  f = Append(q, b)
<1> DEFINE T == S \cup {b}
<1>1. Len(q) \in Nat /\ \A n \in 1 .. Len(q) + 1 : n \in 1 .. Len(q) \/ n = Len(q) + 1
  OBVIOUS
<1>2. q \in Seq(T) /\ b \in T /\ f \in [1 .. Len(q) + 1 -> T]
  BY SeqMonotonic
<1> HIDE DEF T
<1>3. f \in Seq(T) /\ Len(f) = Len(q) + 1
  BY <1>1, <1>2
<1>4. /\ Append(q, b) \in Seq(T) /\ Len(Append(q, b)) = Len(q) + 1
      /\ Append(q, b)[Len(q) + 1] = b
      /\ \A n \in 1 .. Len(q) : Append(q, b)[n] = q[n]
  BY <1>1, <1>2
<1>5. \A n \in 1 .. Len(f) : f[n] = Append(q, b)[n]
  BY <1>1, <1>3, <1>4
<1> QED BY <1>3, <1>4, <1>5, SeqEqual

(* q lists the valid lines of set s, each once, by their clocks. *)
Lists(s, q) ==
  /\ q \in Seq(LineIndex)
  /\ Aged(s, q)
  /\ \A i \in LineIndex : i \in Valid(s) <=> \E n \in 1 .. Len(q) : q[n] = i

(* There is only one such list. *)
LEMMA ListsOnce ==
  ASSUME TypeOK, LineInv, NEW s \in SetIndex, NEW q, NEW p, Lists(s, q), Lists(s, p)
  PROVE  q = p
<1> DEFINE Clock(i) == lines[s][i].lru_clock
<1>1. /\ q \in Seq(LineIndex) /\ p \in Seq(LineIndex)
      /\ Len(q) \in Nat /\ Len(p) \in Nat
      /\ DOMAIN q = 1 .. Len(q) /\ DOMAIN p = 1 .. Len(p)
  BY DEF Lists
<1>2. \A i \in Valid(s) : Clock(i) \in Nat /\ \A j \in Valid(s) : Clock(i) = Clock(j) => i = j
  BY DEF LineInv, ClocksOrderLines
<1>3. /\ \A n \in 1 .. Len(q) : q[n] \in Valid(s) /\ \E m \in 1 .. Len(p) : p[m] = q[n]
      /\ \A n \in 1 .. Len(p) : p[n] \in Valid(s) /\ \E m \in 1 .. Len(q) : q[m] = p[n]
  BY <1>1 DEF Lists
<1>4. /\ \A m, n \in 1 .. Len(q) : m < n => Clock(q[m]) < Clock(q[n])
      /\ \A m, n \in 1 .. Len(p) : m < n => Clock(p[m]) < Clock(p[n])
  BY <1>1 DEF Lists, Aged
<1> HIDE DEF Clock
<1> DEFINE Agree(n) == /\ n \in 1 .. Len(q) <=> n \in 1 .. Len(p)
                       /\ n \in 1 .. Len(q) => q[n] = p[n]
           Differ == {n \in Nat : ~Agree(n)}
<1>5. Differ = {}
  <2> SUFFICES ASSUME Differ # {} PROVE FALSE
    OBVIOUS
  <2>1. PICK n \in Differ : \A k \in Differ : n <= k
    BY LeastNatural
  <2>2. n \in Nat /\ ~Agree(n) /\ \A k \in Nat : k < n => Agree(k)
    BY <2>1
  <2>3. ASSUME n \in 1 .. Len(q), n \in 1 .. Len(p) => Clock(q[n]) < Clock(p[n]) PROVE FALSE
    <3>1. PICK m \in 1 .. Len(p) : p[m] = q[n]
      BY <1>3, <2>3
    <3>2. CASE m < n
      <4>1. q[m] = p[m] /\ m \in 1 .. Len(q)
        BY <2>2, <3>2
      <4>2. Clock(q[m]) < Clock(q[n]) /\ q[m] = q[n] /\ Clock(q[n]) \in Nat
        BY <1>2, <1>3, <1>4, <2>3, <3>1, <3>2, <4>1
      <4> QED BY <4>2
    <3>3. CASE m >= n
      <4>1. n \in 1 .. Len(p)
        BY <1>1, <2>2, <2>3, <3>3
      <4>2. p[n] \in Valid(s) /\ p[m] \in Valid(s) /\ Clock(p[n]) \in Nat /\ Clock(p[m]) \in Nat
        BY <1>2, <1>3, <4>1
      <4>3. Clock(p[n]) <= Clock(p[m])
        BY <1>4, <3>3, <4>1, <4>2
      <4> QED BY <2>3, <3>1, <4>1, <4>2, <4>3
    <3> QED BY <2>2, <3>2, <3>3
  <2>4. ASSUME n \in 1 .. Len(p), n \in 1 .. Len(q) => Clock(p[n]) < Clock(q[n]) PROVE FALSE
    <3>1. PICK m \in 1 .. Len(q) : q[m] = p[n]
      BY <1>3, <2>4
    <3>2. CASE m < n
      <4>1. q[m] = p[m] /\ m \in 1 .. Len(p)
        BY <2>2, <3>2
      <4>2. Clock(p[m]) < Clock(p[n]) /\ p[m] = p[n] /\ Clock(p[n]) \in Nat
        BY <1>2, <1>3, <1>4, <2>4, <3>1, <3>2, <4>1
      <4> QED BY <4>2
    <3>3. CASE m >= n
      <4>1. n \in 1 .. Len(q)
        BY <1>1, <2>2, <2>4, <3>3
      <4>2. q[n] \in Valid(s) /\ q[m] \in Valid(s) /\ Clock(q[n]) \in Nat /\ Clock(q[m]) \in Nat
        BY <1>2, <1>3, <4>1
      <4>3. Clock(q[n]) <= Clock(q[m])
        BY <1>4, <3>3, <4>1, <4>2
      <4> QED BY <2>4, <3>1, <4>1, <4>2, <4>3
    <3> QED BY <2>2, <3>2, <3>3
  <2>5. n \in 1 .. Len(q) /\ n \in 1 .. Len(p) => Clock(q[n]) < Clock(p[n]) \/ Clock(p[n]) < Clock(q[n])
    <3> SUFFICES ASSUME n \in 1 .. Len(q), n \in 1 .. Len(p)
                 PROVE  Clock(q[n]) < Clock(p[n]) \/ Clock(p[n]) < Clock(q[n])
      OBVIOUS
    <3>1. q[n] # p[n]
      BY <2>2
    <3>2. q[n] \in Valid(s) /\ p[n] \in Valid(s)
      BY <1>3
    <3> QED BY <1>2, <3>1, <3>2
  <2> QED BY <2>2, <2>3, <2>4, <2>5
<1>6. \A n \in Nat : Agree(n)
  BY <1>5
<1>7. Len(q) = Len(p)
  <2>1. Agree(Len(q)) /\ Agree(Len(p))
    BY <1>1, <1>6
  <2>2. /\ Len(q) \in 1 .. Len(q) <=> Len(q) \in 1 .. Len(p)
        /\ Len(p) \in 1 .. Len(q) <=> Len(p) \in 1 .. Len(p)
    BY <2>1
  <2>3. ASSUME NEW x \in Nat, NEW y \in Nat, x \in 1 .. x <=> x \in 1 .. y,
               y \in 1 .. x <=> y \in 1 .. y
        PROVE  x = y
    <3>1. CASE x = 0
      BY <2>3, <3>1
    <3>2. CASE y = 0
      BY <2>3, <3>2
    <3>3. CASE x > 0 /\ y > 0
      BY <2>3, <3>3
    <3> QED BY <3>1, <3>2, <3>3
  <2> QED BY <1>1, <2>2, <2>3
<1> QED BY <1>1, <1>6, <1>7

(* It is as long as the set has valid lines. *)
LEMMA ListLength ==
  ASSUME TypeOK, LineInv, NEW s \in SetIndex, NEW q, Lists(s, q)
  PROVE  /\ Len(q) = Cardinality(Valid(s))
         /\ q \in [1 .. Len(q) -> Valid(s)]
         /\ \A m, n \in 1 .. Len(q) : q[m] = q[n] => m = n
<1>1. q \in Seq(LineIndex) /\ Len(q) \in Nat /\ DOMAIN q = 1 .. Len(q)
  BY DEF Lists
<1>2. \A n \in 1 .. Len(q) : q[n] \in Valid(s) /\ lines[s][q[n]].lru_clock \in Nat
  BY <1>1 DEF Lists, LineInv, ClocksOrderLines
<1>3. \A m, n \in 1 .. Len(q) : m < n => lines[s][q[m]].lru_clock < lines[s][q[n]].lru_clock
  BY <1>1 DEF Lists, Aged
<1>4. \A m, n \in 1 .. Len(q) : q[m] = q[n] => m = n
  <2> SUFFICES ASSUME NEW m \in 1 .. Len(q), NEW n \in 1 .. Len(q), q[m] = q[n], m < n
               PROVE  FALSE
    BY <1>1
  <2> QED BY <1>2, <1>3
<1>5. q \in [1 .. Len(q) -> Valid(s)]
  BY <1>1, <1>2
<1>6. q \in Bijection(1 .. Len(q), Valid(s))
  <2>1. \A i \in Valid(s) : \E n \in 1 .. Len(q) : q[n] = i
    BY DEF Lists, Valid
  <2> QED BY <1>4, <1>5, <2>1 DEF Bijection, Injection, Surjection, IsInjective
<1>7. IsFiniteSet(1 .. Len(q)) /\ Cardinality(1 .. Len(q)) = Len(q)
  BY <1>1, FS_Interval
<1>8. Cardinality(Valid(s)) = Len(q)
  BY <1>6, <1>7, FS_Bijection DEF ExistsBijection
<1> QED BY <1>4, <1>5, <1>8

(* AgeOrder chooses it. *)
LEMMA AgeOrderLists ==
  ASSUME TypeOK, LineInv, NEW s \in SetIndex, NEW q, Lists(s, q)
  PROVE  AgeOrder(s) = q
<1> DEFINE N == Cardinality(Valid(s))
           p == AgeOrder(s)
<1>1. q \in [1 .. N -> Valid(s)] /\ Aged(s, q) /\ N \in Nat
  BY ListLength DEF Lists
<1>2. p \in [1 .. N -> Valid(s)] /\ Aged(s, p)
  BY <1>1 DEF AgeOrder
<1>3. p \in Seq(LineIndex) /\ Len(p) = N /\ DOMAIN p = 1 .. N
  <2> HIDE DEF N, p
  <2>1. Valid(s) \subseteq LineIndex
    BY DEF Valid
  <2> QED BY <1>1, <1>2, <2>1
<1>4. \A m, n \in 1 .. N : p[m] = p[n] => m = n
  <2> SUFFICES ASSUME NEW m \in 1 .. N, NEW n \in 1 .. N, p[m] = p[n], m < n
               PROVE  FALSE
    <3> HIDE DEF N, p
    <3> QED BY <1>1
  <2>1. lines[s][p[m]].lru_clock < lines[s][p[n]].lru_clock
    BY <1>2, <1>3 DEF Aged
  <2>2. p[m] \in Valid(s)
    BY <1>2
  <2>3. lines[s][p[m]].lru_clock \in Nat
    BY <2>2 DEF LineInv, ClocksOrderLines
  <2> HIDE DEF N, p
  <2> QED BY <2>1, <2>3
<1>5. IsFiniteSet(Valid(s)) /\ IsFiniteSet(1 .. N) /\ Cardinality(1 .. N) = N
  <2>1. IsFiniteSet(Valid(s))
    BY LineCount, FS_Subset DEF Valid
  <2> HIDE DEF N
  <2> QED BY <1>1, <2>1, FS_Interval
<1>6. p \in Injection(1 .. N, Valid(s))
  BY <1>2, <1>4 DEF Injection, IsInjective
<1>7. p \in Surjection(1 .. N, Valid(s))
  BY <1>5, <1>6, FS_Injection
<1>8. Lists(s, p)
  <2>1. \A i \in Valid(s) : \E n \in 1 .. N : p[n] = i
    BY <1>7 DEF Surjection
  <2>2. \A n \in 1 .. N : p[n] \in Valid(s)
    BY <1>2
  <2> HIDE DEF N, p
  <2> QED BY <1>2, <1>3, <2>1, <2>2 DEF Lists
<1> QED BY <1>8, ListsOnce

(* A step that writes one line, with a clock later than all others, moves that *)
(* line to the end of the list.                                               *)
LEMMA ListAfter ==
  ASSUME TypeOK, LineInv, NEW s \in SetIndex, NEW w, OneLine(s, w), lines'[s][w].valid,
         \A i \in Valid(s) : lines[s][i].lru_clock < lines'[s][w].lru_clock,
         NEW q, Lists(s, q)
  PROVE  /\ ~lines[s][w].valid => Lists(s, Append(q, w))'
         /\ \A k \in 1 .. Len(q) : q[k] = w => Lists(s, Append(RemoveAt(q, k), w))'
<1>1. /\ q \in Seq(LineIndex) /\ Len(q) \in Nat /\ DOMAIN q = 1 .. Len(q)
      /\ w \in LineIndex
  BY DEF Lists, OneLine
<1>2. \A i \in LineIndex : i # w => lines'[s][i] = lines[s][i]
  BY DEF OneLine
<1>3. /\ \A n \in 1 .. Len(q) : q[n] \in Valid(s)
      /\ \A m, n \in 1 .. Len(q) : q[m] = q[n] => m = n
      /\ \A m, n \in 1 .. Len(q) : m < n => lines[s][q[m]].lru_clock < lines[s][q[n]].lru_clock
      /\ \A i \in Valid(s) : \E n \in 1 .. Len(q) : q[n] = i
  <2>1. \A m, n \in 1 .. Len(q) : m < n => lines[s][q[m]].lru_clock < lines[s][q[n]].lru_clock
    BY <1>1 DEF Lists, Aged
  <2>2. \A i \in Valid(s) : \E n \in 1 .. Len(q) : q[n] = i
    BY DEF Lists, Valid
  <2> QED BY <2>1, <2>2, ListLength
<1>4. \A i \in LineIndex : i \in Valid(s)' <=> i = w \/ i \in Valid(s)
  BY <1>2 DEF Valid
<1>5. ASSUME NEW p \in Seq(LineIndex), Len(p) \in Nat,
             \A n \in 1 .. Len(p) : p[n] # w /\ p[n] \in Valid(s),
             \A i \in Valid(s) : i # w => \E n \in 1 .. Len(p) : p[n] = i,
             \A m, n \in 1 .. Len(p) : m < n => lines[s][p[m]].lru_clock < lines[s][p[n]].lru_clock
      PROVE  Lists(s, Append(p, w))'
  <2> DEFINE z == Append(p, w)
  <2>1. /\ z \in Seq(LineIndex) /\ Len(z) = Len(p) + 1 /\ DOMAIN z = 1 .. Len(p) + 1
        /\ z[Len(p) + 1] = w
        /\ \A n \in 1 .. Len(p) : z[n] = p[n]
    BY <1>1, <1>5
  <2> HIDE DEF z
  <2>2. \A n \in 1 .. Len(p) : p[n] \in LineIndex /\ lines'[s][p[n]] = lines[s][p[n]]
    BY <1>2, <1>5 DEF Valid
  <2>3. ASSUME NEW m \in 1 .. Len(p) + 1, NEW n \in 1 .. Len(p) + 1, m < n
        PROVE  lines'[s][z[m]].lru_clock < lines'[s][z[n]].lru_clock
    <3>1. m \in 1 .. Len(p) /\ z[m] = p[m] /\ lines'[s][z[m]] = lines[s][p[m]] /\ p[m] \in Valid(s)
      BY <1>5, <2>1, <2>2, <2>3
    <3>2. CASE n = Len(p) + 1
      BY <2>1, <3>1, <3>2
    <3>3. CASE n # Len(p) + 1
      <4>1. n \in 1 .. Len(p) /\ z[n] = p[n] /\ lines'[s][z[n]] = lines[s][p[n]]
        BY <1>5, <2>1, <2>2, <3>3
      <4> QED BY <1>5, <2>3, <3>1, <4>1
    <3> QED BY <3>2, <3>3
  <2>4. Aged(s, z)'
    BY <2>1, <2>3 DEF Aged
  <2>5. ASSUME NEW i \in LineIndex
        PROVE  i \in Valid(s)' <=> \E n \in 1 .. Len(p) + 1 : z[n] = i
    <3>1. Len(p) + 1 \in 1 .. Len(p) + 1 /\ \A n \in 1 .. Len(p) : n \in 1 .. Len(p) + 1
      BY <1>5
    <3>2. \A n \in 1 .. Len(p) + 1 : n \in 1 .. Len(p) \/ n = Len(p) + 1
      BY <1>5
    <3>3. CASE i = w
      BY <1>4, <2>1, <3>1, <3>3
    <3>4. CASE i # w
      <4>1. (\E n \in 1 .. Len(p) + 1 : z[n] = i) <=> \E n \in 1 .. Len(p) : p[n] = i
        BY <2>1, <3>1, <3>2, <3>4
      <4> QED BY <1>4, <1>5, <3>4, <4>1
    <3> QED BY <3>3, <3>4
  <2> QED BY <2>1, <2>4, <2>5 DEF Lists, z
<1>6. ASSUME ~lines[s][w].valid PROVE Lists(s, Append(q, w))'
  <2>1. w \notin Valid(s)
    BY <1>6 DEF Valid
  <2> QED BY <1>1, <1>3, <1>5, <2>1
<1>7. ASSUME NEW k \in 1 .. Len(q), q[k] = w PROVE Lists(s, Append(RemoveAt(q, k), w))'
  <2> DEFINE p == RemoveAt(q, k)
             Old(n) == IF n < k THEN n ELSE n + 1
  <2>1. /\ p \in Seq(LineIndex) /\ Len(p) = Len(q) - 1 /\ Len(p) \in Nat
        /\ \A n \in 1 .. Len(p) : p[n] = q[Old(n)]
    <3>1. /\ p \in Seq(LineIndex) /\ Len(p) = Len(q) - 1
          /\ \A n \in 1 .. Len(q) - 1 : p[n] = IF n < k THEN q[n] ELSE q[n + 1]
      BY <1>1, RemoveAtFacts
    <3> HIDE DEF p
    <3> QED BY <1>1, <3>1
  <2>2. \A n \in 1 .. Len(p) : Old(n) \in 1 .. Len(q) /\ Old(n) # k
    <3> HIDE DEF p
    <3> QED BY <1>1, <2>1
  <2>3. \A m, n \in 1 .. Len(p) : m < n => Old(m) < Old(n)
    <3> HIDE DEF p
    <3> QED BY <1>1, <2>1
  <2>4. \A j \in 1 .. Len(q) : j # k => \E n \in 1 .. Len(p) : Old(n) = j
    <3> SUFFICES ASSUME NEW j \in 1 .. Len(q), j # k PROVE \E n \in 1 .. Len(p) : Old(n) = j
      OBVIOUS
    <3> DEFINE n == IF j < k THEN j ELSE j - 1
    <3>1. n \in 1 .. Len(p) /\ Old(n) = j
      <4> HIDE DEF p
      <4> QED BY <1>1, <2>1
    <3> QED BY <3>1
  <2> HIDE DEF p, Old
  <2>5. \A n \in 1 .. Len(p) : p[n] # w /\ p[n] \in Valid(s)
    BY <1>3, <1>7, <2>1, <2>2
  <2>6. ASSUME NEW i \in Valid(s), i # w PROVE \E n \in 1 .. Len(p) : p[n] = i
    <3>1. PICK j \in 1 .. Len(q) : q[j] = i
      BY <1>3
    <3>2. PICK n \in 1 .. Len(p) : Old(n) = j
      BY <1>7, <2>4, <2>6, <3>1
    <3> QED BY <2>1, <3>1, <3>2
  <2>7. ASSUME NEW m \in 1 .. Len(p), NEW n \in 1 .. Len(p), m < n
        PROVE  lines[s][p[m]].lru_clock < lines[s][p[n]].lru_clock
    <3>1. Old(m) \in 1 .. Len(q) /\ Old(n) \in 1 .. Len(q) /\ Old(m) < Old(n)
      BY <2>2, <2>3, <2>7
    <3>2. p[m] = q[Old(m)] /\ p[n] = q[Old(n)]
      BY <2>1
    <3> QED BY <1>3, <3>1, <3>2
  <2>8. Lists(s, Append(p, w))'
    BY <1>5, <2>1, <2>5, <2>6, <2>7
  <2> QED BY <2>8 DEF p
<1> QED BY <1>6, <1>7

(* The refinement mapping, said without a choice: the list that AgeOrder picks *)
(* and the counter that UsesOf picks are the only ones.                       *)
Mapping ==
  /\ \A s \in SetIndex : \A q \in Seq(LineIndex) : Lists(s, q) => AgeOrder(s) = q
  /\ \A c \in Nat :
        /\ \A i \in Valid(cache_set(c)) :
              lines[cache_set(c)][i].block_addr = c
                 => UsesOf(c) = lines[cache_set(c)][i].access_counter
        /\ (\A i \in Valid(cache_set(c)) : lines[cache_set(c)][i].block_addr # c)
              => UsesOf(c) = 0

LEMMA SameBlockSameLine ==
  ASSUME LineInv, NEW s \in SetIndex, NEW i \in Valid(s), NEW j \in Valid(s),
         lines[s][i].block_addr = lines[s][j].block_addr
  PROVE  i = j
<1>1. lines[s][i].tag = lines[s][j].tag
  BY DEF LineInv, TagsMatchBlocks
<1> QED BY <1>1 DEF LineInv, NoBlockTwice

LEMMA MappingFollows == TypeOK /\ LineInv => Mapping
<1> SUFFICES ASSUME TypeOK, LineInv PROVE Mapping
  OBVIOUS
<1>1. \A s \in SetIndex : \A q \in Seq(LineIndex) : Lists(s, q) => AgeOrder(s) = q
  BY AgeOrderLists
<1>2. ASSUME NEW c \in Nat, NEW i \in Valid(cache_set(c)),
             lines[cache_set(c)][i].block_addr = c
      PROVE  UsesOf(c) = lines[cache_set(c)][i].access_counter
  <2> DEFINE s == cache_set(c)
  <2>1. s \in SetIndex
    BY AddressParts
  <2>2. \A j \in Holding(s, c) : j = i
    BY <1>2, <2>1, SameBlockSameLine DEF Holding
  <2>3. i \in Holding(s, c)
    BY <1>2 DEF Holding
  <2> QED BY <2>2, <2>3 DEF UsesOf
<1>3. ASSUME NEW c \in Nat, \A i \in Valid(cache_set(c)) : lines[cache_set(c)][i].block_addr # c
      PROVE  UsesOf(c) = 0
  BY <1>3 DEF UsesOf, Holding
<1> QED BY <1>1, <1>2, <1>3 DEF Mapping

(* What the mapping needs of the state besides IInv: the lists exist, and the *)
(* blocks held were accessed.                                                 *)
Tracked ==
  /\ \A s \in SetIndex : Lists(s, AgeOrder(s))
  /\ \A s \in SetIndex : \A i \in Valid(s) : lines[s][i].block_addr \in BlocksAccessed

LEMMA ListedBlocks ==
  ASSUME TypeOK, LineInv, Tracked, NEW s \in SetIndex
  PROVE  LET q == AgeOrder(s)
             L == ByLastUse(s)
         IN  /\ L \in Seq(BlocksAccessed) /\ Len(L) = Len(q) /\ Len(L) = Cardinality(Valid(s))
             /\ \A n \in 1 .. Len(q) : q[n] \in Valid(s) /\ L[n] = lines[s][q[n]].block_addr
             /\ \A i \in Valid(s) : \E n \in 1 .. Len(q) : q[n] = i
             /\ \A m, n \in 1 .. Len(q) : L[m] = L[n] => m = n
<1> DEFINE q == AgeOrder(s)
           L == ByLastUse(s)
<1>1. Lists(s, q)
  BY DEF Tracked
<1>2. Len(q) \in Nat /\ DOMAIN q = 1 .. Len(q)
  BY <1>1 DEF Lists
<1>3. /\ Len(q) = Cardinality(Valid(s))
      /\ \A n \in 1 .. Len(q) : q[n] \in Valid(s)
      /\ \A m, n \in 1 .. Len(q) : q[m] = q[n] => m = n
  BY <1>1, ListLength
<1>4. \A i \in Valid(s) : \E n \in 1 .. Len(q) : q[n] = i
  BY <1>1 DEF Lists, Valid
<1>5. L = [n \in 1 .. Len(q) |-> lines[s][q[n]].block_addr]
  BY <1>2 DEF ByLastUse
<1> HIDE DEF q, L
<1>6. \A n \in 1 .. Len(q) : lines[s][q[n]].block_addr \in BlocksAccessed
  BY <1>3 DEF Tracked
<1>7. L \in Seq(BlocksAccessed) /\ Len(L) = Len(q)
  BY <1>2, <1>5, <1>6
<1>8. \A m, n \in 1 .. Len(q) : L[m] = L[n] => m = n
  BY <1>3, <1>5, SameBlockSameLine
<1> QED BY <1>3, <1>4, <1>5, <1>7, <1>8 DEF q, L

(* The list of the blocks after such a step. *)
LEMMA BlocksAfter ==
  ASSUME TypeOK, LineInv, Tracked, Mapping', NEW s \in SetIndex, NEW w, OneLine(s, w),
         lines'[s][w].valid,
         \A i \in Valid(s) : lines[s][i].lru_clock < lines'[s][w].lru_clock
  PROVE  LET L == ByLastUse(s)
             b == lines'[s][w].block_addr
         IN  /\ \A t \in SetIndex : Lists(t, AgeOrder(t))'
             /\ \A t \in SetIndex \ {s} : ByLastUse(t)' = ByLastUse(t)
             /\ ~lines[s][w].valid => ByLastUse(s)' = Append(L, b)
             /\ \A k \in 1 .. Len(L) : AgeOrder(s)[k] = w
                   => ByLastUse(s)' = Append(RemoveAt(L, k), b)
<1> DEFINE L == ByLastUse(s)
           b == lines'[s][w].block_addr
<1>1. PICK q : q = AgeOrder(s)
  OBVIOUS
<1>2. /\ Lists(s, q) /\ q \in Seq(LineIndex) /\ Len(q) \in Nat
      /\ L \in Seq(BlocksAccessed) /\ Len(L) = Len(q)
      /\ \A n \in 1 .. Len(q) : q[n] \in Valid(s) /\ L[n] = lines[s][q[n]].block_addr
      /\ \A i \in Valid(s) : \E n \in 1 .. Len(q) : q[n] = i
      /\ \A m, n \in 1 .. Len(q) : L[m] = L[n] => m = n
  <2>1. Lists(s, q)
    BY <1>1 DEF Tracked
  <2>2. q \in Seq(LineIndex) /\ Len(q) \in Nat
    BY <2>1 DEF Lists
  <2>3. /\ L \in Seq(BlocksAccessed) /\ Len(L) = Len(q)
        /\ \A n \in 1 .. Len(q) : q[n] \in Valid(s) /\ L[n] = lines[s][q[n]].block_addr
        /\ \A i \in Valid(s) : \E n \in 1 .. Len(q) : q[n] = i
        /\ \A m, n \in 1 .. Len(q) : L[m] = L[n] => m = n
    BY <1>1, ListedBlocks
  <2> QED BY <2>1, <2>2, <2>3
<1>3. /\ w \in LineIndex
      /\ \A t \in SetIndex : t # s => lines'[t] = lines[t]
      /\ \A i \in LineIndex : i # w => lines'[s][i] = lines[s][i]
  BY DEF OneLine
<1>4. ASSUME NEW t \in SetIndex \ {s}
      PROVE  Lists(t, AgeOrder(t))' /\ ByLastUse(t)' = ByLastUse(t)
  <2>1. PICK p : p = AgeOrder(t)
    OBVIOUS
  <2>2. Lists(t, p)
    BY <2>1 DEF Tracked
  <2>3. lines'[t] = lines[t] /\ p \in Seq(LineIndex)
    BY <1>3, <2>2 DEF Lists
  <2>4. Lists(t, p)'
    BY <2>2, <2>3 DEF Lists, Aged, Valid
  <2>5. AgeOrder(t)' = p
    BY <2>3, <2>4 DEF Mapping
  <2> QED BY <2>1, <2>3, <2>4, <2>5 DEF ByLastUse
<1>5. ASSUME NEW p \in Seq(LineIndex), Lists(s, p)'
      PROVE  /\ Lists(s, AgeOrder(s))'
             /\ DOMAIN p = 1 .. Len(p)
             /\ ByLastUse(s)' = [n \in 1 .. Len(p) |-> lines'[s][p[n]].block_addr]
  <2>1. AgeOrder(s)' = p
    BY <1>5 DEF Mapping
  <2> QED BY <1>5, <2>1 DEF ByLastUse
<1> HIDE DEF L, b
<1>6. ASSUME ~lines[s][w].valid
      PROVE  Lists(s, AgeOrder(s))' /\ ByLastUse(s)' = Append(L, b)
  <2> DEFINE p == Append(q, w)
  <2>1. /\ p \in Seq(LineIndex) /\ Len(p) = Len(q) + 1 /\ p[Len(q) + 1] = w
        /\ \A n \in 1 .. Len(q) : p[n] = q[n]
    BY <1>2, <1>3
  <2>2. Lists(s, p)'
    BY <1>2, <1>6, ListAfter
  <2> HIDE DEF p
  <2>3. Lists(s, AgeOrder(s))'
    BY <1>5, <2>1, <2>2
  <2>4. ByLastUse(s)' = [n \in 1 .. Len(q) + 1 |-> lines'[s][p[n]].block_addr]
    BY <1>5, <2>1, <2>2
  <2>5. \A n \in 1 .. Len(q) : lines'[s][p[n]].block_addr = L[n]
    BY <1>2, <1>3, <1>6, <2>1 DEF Valid
  <2>6. [n \in 1 .. Len(q) + 1 |-> lines'[s][p[n]].block_addr] = Append(L, b)
    BY <1>2, <2>1, <2>5 DEF b
  <2> QED BY <2>3, <2>4, <2>6
<1>7. ASSUME NEW k \in 1 .. Len(q), q[k] = w
      PROVE  Lists(s, AgeOrder(s))' /\ ByLastUse(s)' = Append(RemoveAt(L, k), b)
  <2> DEFINE o == RemoveAt(q, k)
             M == RemoveAt(L, k)
             p == Append(o, w)
  <2>1. /\ o \in Seq(LineIndex) /\ Len(o) = Len(q) - 1
        /\ \A n \in 1 .. Len(q) - 1 : o[n] = IF n < k THEN q[n] ELSE q[n + 1]
    <3>1. q \in Seq(LineIndex) /\ k \in 1 .. Len(q)
      BY <1>2
    <3> QED BY <3>1, RemoveAtFacts
  <2>2. /\ M \in Seq(BlocksAccessed) /\ Len(M) = Len(q) - 1
        /\ \A n \in 1 .. Len(q) - 1 : M[n] = IF n < k THEN L[n] ELSE L[n + 1]
    <3>1. L \in Seq(BlocksAccessed) /\ k \in 1 .. Len(L) /\ Len(L) = Len(q)
      BY <1>2
    <3> QED BY <3>1, RemoveAtFacts
  <2>3. Lists(s, p)'
    BY <1>2, <1>7, ListAfter
  <2> HIDE DEF o, M
  <2>4. Len(q) - 1 \in Nat /\ k \in Nat /\ (Len(q) - 1) + 1 = Len(q)
    BY <1>2
  <2>5. /\ p \in Seq(LineIndex) /\ Len(p) = Len(q) /\ p[Len(q)] = w
        /\ \A n \in 1 .. Len(q) - 1 : p[n] = o[n]
    BY <1>3, <2>1, <2>4
  <2> HIDE DEF p
  <2>6. Lists(s, AgeOrder(s))'
    BY <1>5, <2>3, <2>5
  <2>7. ByLastUse(s)' = [n \in 1 .. Len(q) |-> lines'[s][p[n]].block_addr]
    BY <1>5, <2>3, <2>5
  <2>8. ASSUME NEW n \in 1 .. Len(q) - 1 PROVE lines'[s][p[n]].block_addr = M[n]
    <3> DEFINE m == IF n < k THEN n ELSE n + 1
    <3>1. m \in 1 .. Len(q) /\ m # k
      BY <1>2, <2>4
    <3>2. p[n] = q[m] /\ M[n] = L[m]
      BY <2>1, <2>2, <2>5
    <3> HIDE DEF m
    <3>3. L[m] # L[k]
      BY <1>2, <3>1
    <3>4. q[m] # w /\ q[m] \in LineIndex
      BY <1>2, <1>7, <3>1, <3>3
    <3>5. lines'[s][q[m]] = lines[s][q[m]] /\ L[m] = lines[s][q[m]].block_addr
      BY <1>2, <1>3, <3>1, <3>4
    <3> QED BY <3>2, <3>5
  <2>9. [n \in 1 .. Len(q) |-> lines'[s][p[n]].block_addr] = Append(M, b)
    <3>1. Len(q) = Len(M) + 1 /\ Len(M) \in Nat /\ M \in Seq(BlocksAccessed)
      BY <2>2, <2>4
    <3>2. \A n \in 1 .. Len(M) : lines'[s][p[n]].block_addr = M[n]
      BY <2>2, <2>8
    <3>3. lines'[s][p[Len(M) + 1]].block_addr = b
      BY <2>5, <3>1 DEF b
    <3> DEFINE F == [n \in 1 .. Len(q) |-> lines'[s][p[n]].block_addr]
    <3>4. /\ F \in [1 .. Len(M) + 1 -> BlocksAccessed \cup {b}]
          /\ \A n \in 1 .. Len(M) : F[n] = M[n]
          /\ F[Len(M) + 1] = b
      <4>1. \A n \in 1 .. Len(M) + 1 : n \in 1 .. Len(M) \/ n = Len(M) + 1
        BY <3>1
      <4>2. \A n \in 1 .. Len(M) : M[n] \in BlocksAccessed
        BY <3>1
      <4> QED BY <3>1, <3>2, <3>3, <4>1, <4>2
    <3> HIDE DEF F
    <3>5. F = Append(M, b)
      BY <3>1, <3>4, AppendIs
    <3> QED BY <3>5 DEF F
  <2> QED BY <2>6, <2>7, <2>9 DEF M
<1>8. Lists(s, AgeOrder(s))'
  <2>1. CASE lines[s][w].valid
    <3>1. \E n \in 1 .. Len(q) : q[n] = w
      BY <1>2, <1>3, <2>1 DEF Valid
    <3> QED BY <1>7, <3>1
  <2> QED BY <1>6, <2>1
<1>9. \A t \in SetIndex : Lists(t, AgeOrder(t))'
  BY <1>4, <1>8
<1>10. \A k \in 1 .. Len(L) : AgeOrder(s)[k] = w => ByLastUse(s)' = Append(RemoveAt(L, k), b)
  BY <1>1, <1>2, <1>7
<1> QED BY <1>4, <1>6, <1>9, <1>10 DEF L, b

(* The counters after such a step: that of the block written, and none for    *)
(* the block it takes the place of.                                           *)
LEMMA UsesAfter ==
  ASSUME LineInv, LineInv', Mapping, Mapping', NEW s \in SetIndex, NEW w, OneLine(s, w),
         lines'[s][w].valid
  PROVE  LET new == lines'[s][w].block_addr IN
         \A c \in Nat :
            /\ c = new => UsesOf(c)' = lines'[s][w].access_counter
            /\ c # new /\ lines[s][w].valid /\ lines[s][w].block_addr = c => UsesOf(c)' = 0
            /\ c # new /\ (lines[s][w].valid => lines[s][w].block_addr # c)
                  => UsesOf(c)' = UsesOf(c)
<1> DEFINE new == lines'[s][w].block_addr
<1>1. /\ w \in LineIndex
      /\ \A t \in SetIndex : t # s => lines'[t] = lines[t]
      /\ \A i \in LineIndex : i # w => lines'[s][i] = lines[s][i]
  BY DEF OneLine
<1>2. w \in Valid(s)' /\ cache_set(new) = s
  BY <1>1 DEF LineInv, TagsMatchBlocks, Valid
<1> HIDE DEF new
<1>3. ASSUME NEW c \in Nat, c = new PROVE UsesOf(c)' = lines'[s][w].access_counter
  BY <1>2, <1>3 DEF Mapping, new
<1>4. ASSUME NEW c \in Nat, c # new, lines[s][w].valid, lines[s][w].block_addr = c
      PROVE  UsesOf(c)' = 0
  <2>1. w \in Valid(s) /\ cache_set(c) = s
    BY <1>1, <1>4 DEF LineInv, TagsMatchBlocks, Valid
  <2>2. ASSUME NEW i \in Valid(s)', lines'[s][i].block_addr = c PROVE FALSE
    <3>1. i # w /\ i \in LineIndex
      BY <1>4, <2>2 DEF new, Valid
    <3>2. lines'[s][i] = lines[s][i] /\ i \in Valid(s)
      BY <1>1, <3>1, <2>2 DEF Valid
    <3> QED BY <1>4, <2>1, <2>2, <3>1, <3>2, SameBlockSameLine
  <2> QED BY <2>1, <2>2 DEF Mapping
<1>5. ASSUME NEW c \in Nat, c # new, lines[s][w].valid => lines[s][w].block_addr # c
      PROVE  UsesOf(c)' = UsesOf(c)
  <2> DEFINE t == cache_set(c)
  <2>1. t \in SetIndex
    BY AddressParts
  <2>2. \A i \in LineIndex : (i \in Valid(t)' /\ lines'[t][i].block_addr = c)
                                <=> (i \in Valid(t) /\ lines[t][i].block_addr = c)
    <3>1. CASE t # s
      BY <1>1, <2>1, <3>1 DEF Valid
    <3>2. CASE t = s
      <4> SUFFICES ASSUME NEW i \in LineIndex
                   PROVE  (i \in Valid(s)' /\ lines'[s][i].block_addr = c)
                             <=> (i \in Valid(s) /\ lines[s][i].block_addr = c)
        BY <3>2
      <4>1. CASE i = w
        BY <1>5, <4>1 DEF new, Valid
      <4>2. CASE i # w
        BY <1>1, <4>2 DEF Valid
      <4> QED BY <4>1, <4>2
    <3> QED BY <3>1, <3>2
  <2>3. ASSUME NEW i \in Valid(t), lines[t][i].block_addr = c
        PROVE  UsesOf(c)' = UsesOf(c)
    <3>1. i \in LineIndex /\ i \in Valid(t)' /\ lines'[t][i].block_addr = c
      BY <2>2, <2>3 DEF Valid
    <3>2. lines'[t][i] = lines[t][i]
      <4>1. CASE t # s
        BY <1>1, <2>1, <4>1
      <4>2. CASE t = s
        BY <1>1, <1>5, <2>3, <3>1, <4>2 DEF new
      <4> QED BY <4>1, <4>2
    <3>3. UsesOf(c) = lines[t][i].access_counter /\ UsesOf(c)' = lines'[t][i].access_counter
      BY <2>3, <3>1 DEF Mapping
    <3> QED BY <3>2, <3>3
  <2>4. ASSUME \A i \in Valid(t) : lines[t][i].block_addr # c
        PROVE  UsesOf(c)' = UsesOf(c)
    <3>1. \A i \in Valid(t)' : lines'[t][i].block_addr # c
      BY <2>2, <2>4 DEF Valid
    <3>2. UsesOf(c) = 0 /\ UsesOf(c)' = 0
      BY <2>4, <3>1 DEF Mapping
    <3> QED BY <3>2
  <2> QED BY <2>3, <2>4
<1> QED BY <1>3, <1>4, <1>5 DEF new

(* The variables of the policy that are not variables of the cache. *)
Recency == [s \in SetIndex |-> ByLastUse(s)]
Uses == [b \in BlocksAccessed |-> UsesOf(b)]

(* The library's operators are the same on both sides of the mapping. *)
LEMMA PolicyOperators ==
  /\ \A q, i : Policy!RemoveAt(q, i) = RemoveAt(q, i)
  /\ \A q : Policy!ToSet(q) = {q[n] : n \in DOMAIN q}
BY DEF Policy!RemoveAt, RemoveAt, Policy!ToSet

(* An element that occurs once is removed where it is. *)
LEMMA RemoveFirstIs ==
  ASSUME NEW S, NEW q \in Seq(S), NEW k \in 1 .. Len(q), NEW e, q[k] = e,
         \A n \in 1 .. Len(q) : q[n] = e => n = k
  PROVE  Policy!RemoveFirst(q, e) = RemoveAt(q, k)
<1> DEFINE I == {i \in 1 .. Len(q) : q[i] = e}
<1>1. I = {k} /\ k \in Int
  OBVIOUS
<1>2. Policy!SelectInSeq(q, LAMBDA v : v = e) = Policy!Min(I)
  BY <1>1 DEF Policy!SelectInSeq
<1> HIDE DEF I
<1>3. Policy!Min(I) = k
  BY <1>1 DEF Policy!Min
<1>4. \E i \in 1 .. Len(q) : q[i] = e
  OBVIOUS
<1> QED BY <1>2, <1>3, <1>4, PolicyOperators DEF Policy!RemoveFirst

(* What every access of the cache has in common, seen from the policy. *)
LEMMA AccessSeen ==
  ASSUME MaxAccesses <= IntMax, IInv, Tracked, accesses < MaxAccesses, NEW a \in Addrs
  PROVE  LET s == cache_set(a)
             b == address_to_block(a)
         IN  /\ s \in SetIndex /\ b \in BlocksAccessed /\ b \in Nat
             /\ cache_set(b) = s /\ HomeSet[b] = s
             /\ Recency[s] = ByLastUse(s) /\ Uses[b] = UsesOf(b)
             /\ Policy!Resident(b) <=> probe_cache(a)
             /\ Now(a) \in Nat
             /\ \A i \in Valid(s) : /\ lines[s][i].lru_clock < Now(a)
                                    /\ Inc(lines[s][i].access_counter)
                                          = lines[s][i].access_counter + 1
             /\ Inc(hit_count) = hit_count + 1
             /\ Inc(miss_count) = miss_count + 1
             /\ Inc(eviction_count) = eviction_count + 1
<1> DEFINE s == cache_set(a)
           b == address_to_block(a)
           L == ByLastUse(s)
<1>0. TypeOK /\ LineInv /\ CountersBounded
  BY DEF IInv
<1>1. s \in SetIndex /\ b \in Nat /\ cache_set(b) = s
  BY AddressParts, AddrsAssumption
<1>2. b \in BlocksAccessed
  BY DEF BlocksAccessed
<1>3. HomeSet[b] = s /\ Recency[s] = L /\ Uses[b] = UsesOf(b)
  BY <1>1, <1>2 DEF HomeSet, Recency, Uses
<1>4. Policy!Resident(b) <=> probe_cache(a)
  <2> DEFINE q == AgeOrder(s)
  <2>1. /\ L \in Seq(BlocksAccessed) /\ Len(L) = Len(q)
        /\ \A n \in 1 .. Len(q) : q[n] \in Valid(s) /\ L[n] = lines[s][q[n]].block_addr
        /\ \A i \in Valid(s) : \E n \in 1 .. Len(q) : q[n] = i
    BY <1>0, <1>1, ListedBlocks
  <2>2. Policy!Resident(b) <=> b \in {L[n] : n \in DOMAIN L}
    BY <1>3, PolicyOperators DEF Policy!Resident, Recency
  <2>3. DOMAIN L = 1 .. Len(q)
    <3> HIDE DEF L, q
    <3> QED BY <2>1
  <2>4. b \in Resident(s) <=> probe_cache(a)
    BY <1>0, ProbeFindsBlock
  <2> HIDE DEF L, q
  <2>5. b \in {L[n] : n \in DOMAIN L} <=> b \in Resident(s)
    BY <2>1, <2>3 DEF Resident
  <2> QED BY <2>2, <2>4, <2>5
<1>5. /\ lru_clock[s] \in Nat /\ Inc(lru_clock[s]) = lru_clock[s] + 1
      /\ Inc(hit_count) = hit_count + 1
      /\ Inc(miss_count) = miss_count + 1
      /\ Inc(eviction_count) = eviction_count + 1
  BY <1>0, <1>1, NowIsNext
<1>6. Now(a) = lru_clock[s] + 1
  BY <1>5 DEF Now
<1> HIDE DEF s, b, L
<1>7. ASSUME NEW i \in Valid(s)
      PROVE  /\ lines[s][i].lru_clock < Now(a)
             /\ Inc(lines[s][i].access_counter) = lines[s][i].access_counter + 1
  <2>1. /\ lines[s][i].lru_clock \in 1 .. lru_clock[s]
        /\ lines[s][i].access_counter \in 1 .. lru_clock[s]
    BY <1>0, <1>1 DEF LineInv, ClocksOrderLines, UsesBounded
  <2>2. lru_clock[s] < IntMax
    <3>1. /\ lru_clock[s] \in 0 .. accesses /\ accesses < MaxAccesses
          /\ accesses \in Int /\ MaxAccesses \in Int /\ IntMax \in Int
      BY <1>0, <1>1, BoundsAssumption DEF CountersBounded, accesses
    <3> QED BY <3>1
  <2> QED BY <1>5, <1>6, <2>1, <2>2, BoundsAssumption DEF Inc
<1>8. Now(a) \in Nat
  BY <1>5, <1>6
<1> QED BY <1>1, <1>2, <1>3, <1>4, <1>5, <1>7, <1>8 DEF s, b, L

(* The blocks written were accessed. *)
LEMMA HeldAfter ==
  ASSUME Tracked, NEW s \in SetIndex, NEW w, OneLine(s, w),
         lines'[s][w].block_addr \in BlocksAccessed
  PROVE  \A t \in SetIndex : \A i \in Valid(t)' : lines'[t][i].block_addr \in BlocksAccessed
<1> SUFFICES ASSUME NEW t \in SetIndex, NEW i \in Valid(t)'
             PROVE  lines'[t][i].block_addr \in BlocksAccessed
  OBVIOUS
<1>1. i \in LineIndex /\ lines'[t][i].valid
  BY DEF Valid
<1>2. CASE t = s /\ i = w
  BY <1>2
<1>3. CASE ~(t = s /\ i = w)
  <2>1. lines'[t][i] = lines[t][i]
    BY <1>1, <1>3 DEF OneLine
  <2> QED BY <1>1, <2>1 DEF Tracked, Valid
<1> QED BY <1>2, <1>3

(* The lists and the counters of the policy, after a step that writes the     *)
(* block b into set s.                                                        *)
LEMMA PolicyAfter ==
  ASSUME IInv, LineInv', Tracked, Mapping, Mapping', NEW s \in SetIndex, NEW w, OneLine(s, w),
         lines'[s][w].valid, lines'[s][w].block_addr \in BlocksAccessed,
         \A i \in Valid(s) : lines[s][i].lru_clock < lines'[s][w].lru_clock
  PROVE  LET L == ByLastUse(s)
             b == lines'[s][w].block_addr
             old == lines[s][w].block_addr
         IN  /\ Tracked'
             /\ ~lines[s][w].valid => Recency' = [Recency EXCEPT ![s] = Append(L, b)]
             /\ \A k \in 1 .. Len(L) : AgeOrder(s)[k] = w
                   => Recency' = [Recency EXCEPT ![s] = Append(RemoveAt(L, k), b)]
             /\ ~lines[s][w].valid \/ old = b
                   => Uses' = [Uses EXCEPT ![b] = lines'[s][w].access_counter]
             /\ lines[s][w].valid /\ old # b
                   => Uses' = [Uses EXCEPT ![old] = 0, ![b] = lines'[s][w].access_counter]
<1> DEFINE L == ByLastUse(s)
           b == lines'[s][w].block_addr
           old == lines[s][w].block_addr
           n == lines'[s][w].access_counter
<1>0. TypeOK /\ LineInv
  BY DEF IInv
<1>1. Tracked'
  BY <1>0, BlocksAfter, HeldAfter DEF Tracked
<1>2. /\ \A t \in SetIndex \ {s} : ByLastUse(t)' = ByLastUse(t)
      /\ ~lines[s][w].valid => ByLastUse(s)' = Append(L, b)
      /\ \A k \in 1 .. Len(L) : AgeOrder(s)[k] = w => ByLastUse(s)' = Append(RemoveAt(L, k), b)
  BY <1>0, BlocksAfter
<1>3. \A c \in BlocksAccessed : c \in Nat
  BY AddressParts, AddrsAssumption DEF BlocksAccessed
<1>4. \A c \in BlocksAccessed :
         /\ c = b => UsesOf(c)' = n
         /\ c # b /\ lines[s][w].valid /\ old = c => UsesOf(c)' = 0
         /\ c # b /\ (lines[s][w].valid => old # c) => UsesOf(c)' = UsesOf(c)
  BY <1>0, <1>3, UsesAfter
<1>5. Uses' = [c \in BlocksAccessed |-> UsesOf(c)'] /\ Uses = [c \in BlocksAccessed |-> UsesOf(c)]
  BY DEF Uses
<1>6. Recency' = [t \in SetIndex |-> ByLastUse(t)'] /\ Recency = [t \in SetIndex |-> ByLastUse(t)]
  BY DEF Recency
<1> HIDE DEF L, b, old, n
<1>7. \A z : ByLastUse(s)' = z => Recency' = [Recency EXCEPT ![s] = z]
  BY <1>2, <1>6
<1>8. ~lines[s][w].valid \/ old = b => Uses' = [Uses EXCEPT ![b] = n]
  BY <1>4, <1>5
<1>9. lines[s][w].valid /\ old # b => Uses' = [Uses EXCEPT ![old] = 0, ![b] = n]
  BY <1>4, <1>5
<1> QED BY <1>1, <1>2, <1>7, <1>8, <1>9 DEF L, b, old, n

(* The line that the scan chooses is the one that the policy gives up. *)
LEMMA VictimSeen ==
  ASSUME lfu \in {0, 1}, TypeOK, LineInv, Tracked, Mapping, NEW s \in SetIndex,
         \A i \in LineIndex : lines[s][i].valid,
         NEW k \in 1 .. Len(ByLastUse(s)), AgeOrder(s)[k] = VictimLine(lines[s])
  PROVE  Policy!VictimPosition(s) = k
<1> DEFINE L == ByLastUse(s)
           q == AgeOrder(s)
           w == VictimLine(lines[s])
           Clock(n) == lines[s][q[n]].lru_clock
           Count(n) == lines[s][q[n]].access_counter
<1>1. /\ L \in Seq(BlocksAccessed) /\ Len(L) = Len(q) /\ DOMAIN L = 1 .. Len(q)
      /\ \A n \in 1 .. Len(q) : q[n] \in Valid(s) /\ L[n] = lines[s][q[n]].block_addr
  <2>1. /\ L \in Seq(BlocksAccessed) /\ Len(L) = Len(q)
        /\ \A n \in 1 .. Len(q) : q[n] \in Valid(s) /\ L[n] = lines[s][q[n]].block_addr
    BY ListedBlocks
  <2> HIDE DEF L, q
  <2> QED BY <2>1
<1>2. Len(q) \in Nat /\ DOMAIN q = 1 .. Len(q)
  BY DEF Tracked, Lists
<1>3. \A m, n \in 1 .. Len(q) : m < n => Clock(m) < Clock(n)
  BY <1>2 DEF Tracked, Lists, Aged
<1>4. \A n \in 1 .. Len(q) : Clock(n) \in Int /\ Count(n) \in Int
  <2> SUFFICES ASSUME NEW n \in 1 .. Len(q)
               PROVE  lines[s][q[n]].lru_clock \in Int /\ lines[s][q[n]].access_counter \in Int
    OBVIOUS
  <2>1. q[n] \in LineIndex
    BY <1>1 DEF Valid
  <2>2. lines[s][q[n]] \in Line
    BY <2>1 DEF TypeOK
  <2> HIDE DEF q
  <2> QED BY <2>2, BoundsAssumption DEF Line, CInt
<1>5. \A n \in 1 .. Len(q) : RanksLast(lines[s][q[k]], lines[s][q[n]])
  <2>1. \A i \in LineIndex : RanksLast(lines[s][w], lines[s][i])
    <3>1. lines[s] \in [LineIndex -> Line]
      BY DEF TypeOK
    <3> QED BY <3>1, VictimRanksLast
  <2>2. \A n \in 1 .. Len(q) : q[n] \in LineIndex
    BY <1>1 DEF Valid
  <2> QED BY <2>1, <2>2
<1>6. \A n \in 1 .. Len(q) :
         \/ lfu = 0 /\ Clock(k) <= Clock(n)
         \/ lfu = 1 /\ Count(k) < Count(n)
         \/ lfu = 1 /\ Count(k) = Count(n) /\ Clock(k) <= Clock(n)
  BY <1>5 DEF RanksLast
<1>7. k \in 1 .. Len(q)
  BY <1>1
<1>8. Recency[s] = L
  BY DEF Recency
<1>9. \A n \in 1 .. Len(q) : Uses[L[n]] = Count(n)
  <2> SUFFICES ASSUME NEW n \in 1 .. Len(q) PROVE Uses[L[n]] = Count(n)
    OBVIOUS
  <2>1. q[n] \in Valid(s) /\ L[n] = lines[s][q[n]].block_addr /\ L[n] \in BlocksAccessed
    BY <1>1 DEF Tracked
  <2>2. L[n] \in Nat
    BY <2>1, AddressParts, AddrsAssumption DEF BlocksAccessed
  <2>3. cache_set(L[n]) = s
    BY <2>1 DEF LineInv, TagsMatchBlocks
  <2>4. UsesOf(L[n]) = Count(n)
    BY <2>1, <2>2, <2>3 DEF Mapping
  <2> QED BY <2>1, <2>4 DEF Uses
<1> HIDE DEF L, q, w, Clock, Count
<1>10. CASE lfu = 0
  <2>1. k = 1
    <3> SUFFICES ASSUME k # 1 PROVE FALSE
      OBVIOUS
    <3>1. 1 \in 1 .. Len(q) /\ 1 < k
      BY <1>2, <1>7
    <3>2. Clock(1) < Clock(k) /\ Clock(k) <= Clock(1) /\ Clock(1) \in Int /\ Clock(k) \in Int
      BY <1>3, <1>4, <1>6, <1>7, <1>10, <3>1
    <3> QED BY <3>2
  <2> QED BY <1>10, <2>1 DEF Policy!VictimPosition, PolicyName
<1>11. CASE lfu = 1
  <2> DEFINE Least(i) == \A j \in 1 .. Len(q) : \/ Count(i) < Count(j)
                                                \/ Count(i) = Count(j) /\ i <= j
  <2>1. Least(k)
    <3> SUFFICES ASSUME NEW j \in 1 .. Len(q), ~(Count(k) < Count(j))
                 PROVE  Count(k) = Count(j) /\ k <= j
      OBVIOUS
    <3>1. Count(k) = Count(j) /\ Clock(k) <= Clock(j)
      BY <1>6, <1>11
    <3>2. ASSUME j < k PROVE FALSE
      <4>1. Clock(j) < Clock(k)
        BY <1>3, <1>7, <3>2
      <4>2. Clock(j) \in Int /\ Clock(k) \in Int
        BY <1>4, <1>7
      <4> QED BY <3>1, <4>1, <4>2
    <3> QED BY <1>2, <1>7, <3>1, <3>2
  <2>2. ASSUME NEW i \in 1 .. Len(q), Least(i) PROVE i = k
    <3>1. /\ Count(i) < Count(k) \/ (Count(i) = Count(k) /\ i <= k)
          /\ Count(k) < Count(i) \/ (Count(k) = Count(i) /\ k <= i)
          /\ Count(i) \in Int /\ Count(k) \in Int
      BY <1>4, <1>7, <2>1, <2>2
    <3> QED BY <1>2, <1>7, <3>1
  <2> HIDE DEF Least
  <2> DEFINE D == DOMAIN Recency[s]
             Cond(i) == \A j \in D : \/ Uses[Recency[s][i]] < Uses[Recency[s][j]]
                                     \/ Uses[Recency[s][i]] = Uses[Recency[s][j]] /\ i <= j
  <2>3. Policy!LeastUsed(s) = CHOOSE i \in D : Cond(i)
    BY DEF Policy!LeastUsed, Recency, Uses
  <2>4. D = 1 .. Len(q) /\ \A n \in 1 .. Len(q) : Uses[Recency[s][n]] = Count(n)
    BY <1>1, <1>8, <1>9
  <2>5. \A i \in D : Cond(i) <=> Least(i)
    BY <2>4 DEF Least
  <2> HIDE DEF D, Cond
  <2>6. k \in D /\ Cond(k) /\ \A i \in D : Cond(i) => i = k
    BY <1>7, <2>1, <2>2, <2>4, <2>5
  <2>7. Policy!LeastUsed(s) = k
    BY <2>3, <2>6
  <2> QED BY <1>11, <2>7 DEF Policy!VictimPosition, PolicyName
<1> QED BY <1>10, <1>11

(* What the cache reports of an access is the outcome that the policy records. *)
Outcome == [kind |-> Kind[r.status], victim |-> r.victim_block_addr]

LEMMA HitSeen ==
  ASSUME MaxAccesses <= IntMax, IInv, LineInv', Tracked, Mapping, Mapping',
         accesses < MaxAccesses, NEW a \in Addrs, Hit(a)
  PROVE  Tracked' /\ Policy!Hit(address_to_block(a))
<1>0. TypeOK /\ LineInv
  BY DEF IInv
<1>1. PICK s, b : s = cache_set(a) /\ b = address_to_block(a)
  OBVIOUS
<1>2. /\ s \in SetIndex /\ b \in BlocksAccessed /\ b \in Nat
      /\ cache_set(b) = s /\ HomeSet[b] = s
      /\ Recency[s] = ByLastUse(s) /\ Uses[b] = UsesOf(b)
      /\ Policy!Resident(b) <=> probe_cache(a)
      /\ \A i \in Valid(s) : /\ lines[s][i].lru_clock < Now(a)
                             /\ Inc(lines[s][i].access_counter) = lines[s][i].access_counter + 1
      /\ Inc(hit_count) = hit_count + 1
  BY <1>1, AccessSeen
<1>3. PICK w \in LineIndex : /\ OneLine(s, w)
                             /\ lines[s][w].valid /\ lines[s][w].tag = cache_tag(a)
                             /\ lines'[s][w] = Touched(lines[s][w], Now(a))
  BY <1>0, <1>1, HitLine
<1>4. w \in Matching(a) /\ w \in Valid(s)
  BY <1>1, <1>3 DEF Matching, Valid
<1>5. lines[s][w].block_addr = b
  BY <1>0, <1>1, <1>4, ProbeFindsBlock
<1>6. lines[s][w] \in Line
  BY <1>0, <1>2, <1>3 DEF TypeOK
<1>7. /\ lines'[s][w].valid /\ lines'[s][w].block_addr = b
      /\ lines'[s][w].lru_clock = Now(a)
      /\ lines'[s][w].access_counter = lines[s][w].access_counter + 1
  BY <1>2, <1>3, <1>4, <1>5, <1>6 DEF Touched, Line
<1>8. UsesOf(b) = lines[s][w].access_counter
  BY <1>2, <1>4, <1>5 DEF Mapping
<1>9. PICK k \in 1 .. Len(ByLastUse(s)) : AgeOrder(s)[k] = w
  BY <1>0, <1>2, <1>4, ListedBlocks
<1>10. /\ Tracked'
       /\ Recency' = [Recency EXCEPT ![s] = Append(RemoveAt(ByLastUse(s), k), b)]
       /\ Uses' = [Uses EXCEPT ![b] = UsesOf(b) + 1]
  <2>1. /\ Tracked'
        /\ Recency' = [Recency EXCEPT ![s] = Append(RemoveAt(ByLastUse(s), k), lines'[s][w].block_addr)]
        /\ Uses' = [Uses EXCEPT ![lines'[s][w].block_addr] = lines'[s][w].access_counter]
    <3>1. /\ lines'[s][w].valid /\ lines'[s][w].block_addr \in BlocksAccessed
          /\ \A i \in Valid(s) : lines[s][i].lru_clock < lines'[s][w].lru_clock
          /\ lines[s][w].block_addr = lines'[s][w].block_addr
      BY <1>2, <1>5, <1>7
    <3>2. s \in SetIndex /\ OneLine(s, w) /\ lines[s][w].valid
      BY <1>2, <1>3
    <3>3. Tracked'
      BY <3>1, <3>2, PolicyAfter
    <3>4. Recency' = [Recency EXCEPT ![s]
                          = Append(RemoveAt(ByLastUse(s), k), lines'[s][w].block_addr)]
      BY <1>9, <3>1, <3>2, PolicyAfter
    <3>5. Uses' = [Uses EXCEPT ![lines'[s][w].block_addr] = lines'[s][w].access_counter]
      BY <3>1, <3>2, PolicyAfter
    <3> QED BY <3>3, <3>4, <3>5
  <2> QED BY <1>7, <1>8, <2>1
<1>11. Policy!RemoveFirst(ByLastUse(s), b) = RemoveAt(ByLastUse(s), k)
  <2> DEFINE L == ByLastUse(s)
             q == AgeOrder(s)
  <2>1. /\ L \in Seq(BlocksAccessed) /\ Len(L) = Len(q)
        /\ \A n \in 1 .. Len(q) : L[n] = lines[s][q[n]].block_addr
        /\ \A m, n \in 1 .. Len(q) : L[m] = L[n] => m = n
    BY <1>0, <1>2, ListedBlocks
  <2>2. k \in 1 .. Len(L) /\ q[k] = w
    BY <1>9
  <2> HIDE DEF L, q
  <2>3. L[k] = b
    BY <1>5, <2>1, <2>2
  <2>4. \A n \in 1 .. Len(L) : L[n] = b => n = k
    BY <2>1, <2>2, <2>3
  <2>5. Policy!RemoveFirst(L, b) = RemoveAt(L, k)
    BY <2>1, <2>2, <2>3, <2>4, RemoveFirstIs
  <2> QED BY <2>5 DEF L
<1>12. Policy!Resident(b)
  BY <1>2 DEF Hit
<1>13. Recency' = [Recency EXCEPT ![HomeSet[b]]
                       = Append(Policy!RemoveFirst(Recency[HomeSet[b]], b), b)]
  BY <1>2, <1>10, <1>11
<1>14. Uses' = [Uses EXCEPT ![b] = Uses[b] + 1]
  BY <1>2, <1>10
<1>15. /\ hit_count' = hit_count + 1 /\ UNCHANGED <<miss_count, eviction_count>>
       /\ Outcome' = [kind |-> "hit", victim |-> -1]
  BY <1>2 DEF Hit, Outcome, Kind, Unset
<1>16. Policy!Hit(b)
  BY <1>12, <1>13, <1>14, <1>15 DEF Policy!Hit, Recency, Uses, Outcome, Policy!NoBlock
<1> QED BY <1>1, <1>10, <1>16

LEMMA FillSeen ==
  ASSUME MaxAccesses <= IntMax, IInv, LineInv', Tracked, Mapping, Mapping',
         accesses < MaxAccesses, NEW a \in Addrs, Miss(a)
  PROVE  Tracked' /\ Policy!Fill(address_to_block(a))
<1>0. TypeOK /\ LineInv
  BY DEF IInv
<1>1. PICK s, b : s = cache_set(a) /\ b = address_to_block(a)
  OBVIOUS
<1>2. /\ s \in SetIndex /\ b \in BlocksAccessed
      /\ HomeSet[b] = s /\ Recency[s] = ByLastUse(s)
      /\ Policy!Resident(b) <=> probe_cache(a)
      /\ \A i \in Valid(s) : lines[s][i].lru_clock < Now(a)
      /\ Inc(miss_count) = miss_count + 1
  BY <1>1, AccessSeen
<1>3. PICK w \in LineIndex : /\ OneLine(s, w)
                             /\ ~lines[s][w].valid
                             /\ lines'[s][w] = NewLine(a, Now(a))
  BY <1>0, <1>1, MissLine
<1>4. /\ lines'[s][w].valid /\ lines'[s][w].block_addr = b
      /\ lines'[s][w].lru_clock = Now(a) /\ lines'[s][w].access_counter = 1
  BY <1>1, <1>3 DEF NewLine
<1>5. /\ Tracked'
      /\ Recency' = [Recency EXCEPT ![s] = Append(ByLastUse(s), b)]
      /\ Uses' = [Uses EXCEPT ![b] = 1]
  BY <1>2, <1>3, <1>4, PolicyAfter
<1>6. Len(ByLastUse(s)) < linesPerSet
  <2>1. Len(ByLastUse(s)) = Cardinality(Valid(s))
    BY <1>0, <1>2, ListedBlocks
  <2>2. Valid(s) \subseteq LineIndex /\ Valid(s) # LineIndex
    BY <1>3 DEF Valid
  <2>3. Cardinality(Valid(s)) < linesPerSet
    <3>1. /\ IsFiniteSet(Valid(s)) /\ Cardinality(Valid(s)) <= linesPerSet
          /\ Cardinality(Valid(s)) # linesPerSet
      BY <2>2, LineCount, FS_Subset
    <3>2. Cardinality(Valid(s)) \in Nat /\ linesPerSet \in Nat
      BY <3>1, FS_CardinalityType, GeometryAssumption
    <3> QED BY <3>1, <3>2
  <2> QED BY <2>1, <2>3
<1>7. ~Policy!Resident(b)
  BY <1>2 DEF Miss
<1>8. Recency' = [Recency EXCEPT ![HomeSet[b]] = Append(Recency[HomeSet[b]], b)]
  BY <1>2, <1>5
<1>9. /\ miss_count' = miss_count + 1 /\ UNCHANGED <<hit_count, eviction_count>>
      /\ Outcome' = [kind |-> "miss", victim |-> -1]
  BY <1>2 DEF Miss, Outcome, Kind, Unset
<1>10. Len(Recency[HomeSet[b]]) < linesPerSet
  BY <1>2, <1>6
<1>11. Policy!Fill(b)
  BY <1>5, <1>7, <1>8, <1>9, <1>10 DEF Policy!Fill, Recency, Uses, Outcome, Policy!NoBlock
<1> QED BY <1>1, <1>5, <1>11

LEMMA ReplaceSeen ==
  ASSUME MaxAccesses <= IntMax, lfu \in {0, 1}, IInv, LineInv', Tracked, Mapping, Mapping',
         accesses < MaxAccesses, NEW a \in Addrs, Evict(a)
  PROVE  Tracked' /\ Policy!Replace(address_to_block(a))
<1>0. TypeOK /\ LineInv
  BY DEF IInv
<1>1. PICK s, b, w : /\ s = cache_set(a) /\ b = address_to_block(a)
                     /\ w = VictimLine(lines[cache_set(a)])
  OBVIOUS
<1>2. /\ s \in SetIndex /\ b \in BlocksAccessed /\ b \in Nat
      /\ HomeSet[b] = s /\ Recency[s] = ByLastUse(s)
      /\ Policy!Resident(b) <=> probe_cache(a)
      /\ \A i \in Valid(s) : lines[s][i].lru_clock < Now(a)
      /\ Inc(miss_count) = miss_count + 1
      /\ Inc(eviction_count) = eviction_count + 1
  BY <1>1, AccessSeen
<1>3. /\ OneLine(s, w) /\ w \in LineIndex
      /\ \A i \in LineIndex : lines[s][i].valid
      /\ lines'[s][w] = NewLine(a, Now(a))
      /\ r'.victim_block_addr = lines[s][w].block_addr
  <2>1. /\ OneLine(s, w)
        /\ \A i \in LineIndex : lines[s][i].valid
        /\ lines'[s][w] = NewLine(a, Now(a))
        /\ r'.victim_block_addr = lines[s][w].block_addr
    BY <1>0, <1>1, EvictLine
  <2> QED BY <2>1 DEF OneLine
<1>4. /\ lines'[s][w].valid /\ lines'[s][w].block_addr = b
      /\ lines'[s][w].lru_clock = Now(a) /\ lines'[s][w].access_counter = 1
  BY <1>1, <1>3 DEF NewLine
<1>5. ~probe_cache(a) /\ ~Policy!Resident(b)
  BY <1>2 DEF Evict
<1>6. w \in Valid(s) /\ Valid(s) = LineIndex
  BY <1>3 DEF Valid
<1>7. lines[s][w].block_addr # b
  <2>1. b \notin Resident(s)
    BY <1>0, <1>1, <1>5, ProbeFindsBlock
  <2> QED BY <1>6, <2>1 DEF Resident
<1>8. PICK k \in 1 .. Len(ByLastUse(s)) :
         AgeOrder(s)[k] = w /\ ByLastUse(s)[k] = lines[s][w].block_addr
  BY <1>0, <1>2, <1>6, ListedBlocks
<1>9. /\ Tracked'
      /\ Recency' = [Recency EXCEPT ![s] = Append(RemoveAt(ByLastUse(s), k), b)]
      /\ Uses' = [Uses EXCEPT ![ByLastUse(s)[k]] = 0, ![b] = 1]
  BY <1>2, <1>3, <1>4, <1>7, <1>8, PolicyAfter
<1>10. Policy!VictimPosition(s) = k
  BY <1>0, <1>1, <1>2, <1>3, <1>8, VictimSeen
<1>11. Len(ByLastUse(s)) = linesPerSet
  BY <1>0, <1>2, <1>6, ListedBlocks, LineCount
<1>12. /\ miss_count' = miss_count + 1 /\ eviction_count' = eviction_count + 1
       /\ UNCHANGED hit_count
       /\ Outcome' = [kind |-> "evict", victim |-> ByLastUse(s)[k]]
  <2>1. r'.status = "CACHE_EVICT"
    BY DEF Evict
  <2> QED BY <1>2, <1>3, <1>8, <2>1 DEF Evict, Outcome, Kind
<1>13. /\ Len(Recency[HomeSet[b]]) = linesPerSet
       /\ Policy!VictimPosition(HomeSet[b]) = k
       /\ Recency' = [Recency EXCEPT ![HomeSet[b]]
                          = Append(Policy!RemoveAt(Recency[HomeSet[b]], k), b)]
       /\ Uses' = [Uses EXCEPT ![Recency[HomeSet[b]][k]] = 0, ![b] = 1]
       /\ Outcome' = [kind |-> "evict", victim |-> Recency[HomeSet[b]][k]]
  BY <1>2, <1>9, <1>10, <1>11, <1>12, PolicyOperators
<1>14. Policy!Replace(b)
  BY <1>5, <1>12, <1>13 DEF Policy!Replace, Recency, Uses, Outcome
<1> QED BY <1>1, <1>9, <1>14

(* The cache, LRU or LFU, implements the replacement policy that its comments *)
(* describe (cache.h:28, cache.c:161-195).                                    *)
THEOREM ImplementsPolicyHolds ==
  ASSUME MaxAccesses <= IntMax, lfu \in {0, 1}
  PROVE  Spec => ImplementsPolicy
<1>1. Init => Tracked /\ Policy!Init
  <2> SUFFICES ASSUME Init PROVE Tracked /\ Policy!Init
    OBVIOUS
  <2>1. \A s \in SetIndex : Valid(s) = {}
    BY DEF Init, cacheSetUp, Valid
  <2>2. TypeOK /\ LineInv
    BY InductiveInvariant DEF IInv
  <2>3. ASSUME NEW s \in SetIndex PROVE Lists(s, AgeOrder(s)) /\ ByLastUse(s) = <<>>
    <3>1. Lists(s, <<>>)
      BY <2>1 DEF Lists, Aged
    <3>2. AgeOrder(s) = <<>>
      BY <2>2, <3>1, AgeOrderLists
    <3> QED BY <3>1, <3>2 DEF ByLastUse
  <2>4. Tracked
    BY <2>1, <2>3 DEF Tracked
  <2>5. ASSUME NEW b \in BlocksAccessed PROVE UsesOf(b) = 0
    <3>1. b \in Nat
      BY AddressParts, AddrsAssumption DEF BlocksAccessed
    <3>2. cache_set(b) \in SetIndex
      BY <3>1, AddressParts
    <3> QED BY <2>1, <3>2 DEF UsesOf, Holding
  <2>6. Outcome = [kind |-> "none", victim |-> -1]
    BY DEF Init, Outcome, Kind, Unset
  <2>7. Recency = [s \in SetIndex |-> <<>>] /\ Uses = [b \in BlocksAccessed |-> 0]
    BY <2>3, <2>5 DEF Recency, Uses
  <2>8. hit_count = 0 /\ miss_count = 0 /\ eviction_count = 0
    BY DEF Init, cacheSetUp
  <2> QED BY <2>4, <2>6, <2>7, <2>8 DEF Policy!Init, Recency, Uses, Outcome, Policy!NoBlock
<1>2. TypeOK /\ LineInv => Mapping
  BY MappingFollows
<1>3. IInv => TypeOK /\ LineInv
  BY DEF IInv
<1>4. /\ IInv /\ TypeOK /\ LineInv /\ LineInv' /\ Mapping /\ Mapping' /\ Tracked /\ [Next]_vars
      => Tracked' /\ [Policy!Next]_(Policy!vars)
  <2> SUFFICES ASSUME IInv, LineInv, LineInv', Mapping, Mapping', Tracked, [Next]_vars
               PROVE  Tracked' /\ [Policy!Next]_(Policy!vars)
    OBVIOUS
  <2>1. CASE UNCHANGED vars
    <3>1. /\ lines' = lines /\ r' = r /\ hit_count' = hit_count
          /\ miss_count' = miss_count /\ eviction_count' = eviction_count
      BY <2>1 DEF vars
    <3>2. \A s : ByLastUse(s)' = ByLastUse(s) /\ AgeOrder(s)' = AgeOrder(s) /\ Valid(s)' = Valid(s)
      BY <3>1 DEF ByLastUse, AgeOrder, Aged, Valid
    <3>3. \A b : UsesOf(b)' = UsesOf(b)
      BY <3>1 DEF UsesOf, Holding, Valid
    <3>4. Tracked'
      BY <3>1, <3>2 DEF Tracked, Lists, Aged
    <3>5. Recency' = Recency /\ Uses' = Uses /\ Outcome' = Outcome
      BY <3>1, <3>2, <3>3 DEF Recency, Uses, Outcome
    <3> QED BY <3>1, <3>4, <3>5 DEF Policy!vars, Recency, Uses, Outcome
  <2>2. CASE Next
    <3>1. PICK a \in Addrs : operateCache(a)
      BY <2>2 DEF Next
    <3>2. accesses < MaxAccesses
      BY <2>2 DEF Next
    <3>3. address_to_block(a) \in BlocksAccessed
      BY DEF BlocksAccessed
    <3>4. Tracked' /\ Policy!Access(address_to_block(a))
      BY <3>1, <3>2, HitSeen, FillSeen, ReplaceSeen DEF operateCache, Policy!Access
    <3>5. Policy!Next
      BY <3>2, <3>3, <3>4 DEF Policy!Next, accesses
    <3> QED BY <3>4, <3>5
  <2> QED BY <2>1, <2>2
<1>5. Spec => []IInv
  BY InvariantHolds
<1> QED BY <1>1, <1>2, <1>3, <1>4, <1>5, PTL DEF Spec, ImplementsPolicy, Policy!Spec

=============================================================================
