-------------------------- MODULE InclusionProofs ---------------------------
(***************************************************************************)
(* The theorem about module CacheInclusion, for every geometry and every    *)
(* two associativities.                                                    *)
(***************************************************************************)
EXTENDS CacheInclusion, CacheProofs

(* The larger cache once more, with what module CacheProofs proves of one.    *)
LargeP == INSTANCE CacheProofs WITH
    linesPerSet <- moreLines, lines <- lines2, lru_clock <- clock2,
    hit_count <- hits2, miss_count <- misses2, eviction_count <- evictions2, r <- r2

LEMMA LargeAssumptions ==
  /\ LargeP!GeometryAssumption
  /\ LargeP!AddrsAssumption
  /\ LargeP!BoundsAssumption
BY GeometryAssumption, AddrsAssumption, BoundsAssumption, AssociativityAssumption
   DEF LargeP!GeometryAssumption, LargeP!AddrsAssumption, LargeP!BoundsAssumption,
       ShiftCount, LargeP!ShiftCount

LEMMA Associativities ==
  linesPerSet \in Nat /\ moreLines \in Nat /\ linesPerSet <= moreLines
BY GeometryAssumption, AssociativityAssumption

(* The two copies of the larger cache are the same cache. *)
LEMMA LargeCopies ==
  /\ Large!SetIndex = LargeP!SetIndex
  /\ Large!accesses = LargeP!accesses
  /\ \A s : Large!Resident(s) = LargeP!Resident(s)
  /\ Large!Init <=> LargeP!Init
<1>1. Large!SetIndex = LargeP!SetIndex
  BY DEF Large!SetIndex, LargeP!SetIndex, Large!Pow2, LargeP!Pow2, Large!ShiftCount, LargeP!ShiftCount
<1>2. Large!accesses = LargeP!accesses
  BY DEF Large!accesses, LargeP!accesses
<1>3. \A s : Large!Resident(s) = LargeP!Resident(s)
  BY DEF Large!Resident, LargeP!Resident, Large!Valid, LargeP!Valid, Large!LineIndex, LargeP!LineIndex
<1>4. Large!Init <=> LargeP!Init
  BY <1>1 DEF Large!Init, LargeP!Init, Large!cacheSetUp, LargeP!cacheSetUp, Large!LineIndex, LargeP!LineIndex,
     Large!Unset, LargeP!Unset
<1> QED BY <1>1, <1>2, <1>3, <1>4

LEMMA LargeStepCopies ==
  \A a : Large!operateCache(a) <=> LargeP!operateCache(a)
<1>1. \A ls : Large!VictimLine(ls) = LargeP!VictimLine(ls)
  BY DEF Large!VictimLine, LargeP!VictimLine, Large!Better, LargeP!Better
<1>2. Large!Pow2 = LargeP!Pow2
  BY DEF Large!Pow2, LargeP!Pow2, Large!ShiftCount, LargeP!ShiftCount
<1>3. \A a : /\ Large!cache_set(a) = LargeP!cache_set(a)
             /\ Large!cache_tag(a) = LargeP!cache_tag(a)
             /\ Large!address_to_block(a) = LargeP!address_to_block(a)
  BY <1>2 DEF Large!cache_set, LargeP!cache_set, Large!cache_tag, LargeP!cache_tag,
     Large!address_to_block, LargeP!address_to_block, Large!Shr, LargeP!Shr, Large!Shl, LargeP!Shl,
     Large!LowBits, LargeP!LowBits
<1>4. \A s : Large!Valid(s) = LargeP!Valid(s) /\ Large!Invalid(s) = LargeP!Invalid(s)
  BY DEF Large!Valid, LargeP!Valid, Large!Invalid, LargeP!Invalid, Large!LineIndex, LargeP!LineIndex
<1>5. \A a : Large!Matching(a) = LargeP!Matching(a)
  BY <1>3, <1>4 DEF Large!Matching, LargeP!Matching
<1>6. \A s, b : Large!Holding(s, b) = LargeP!Holding(s, b)
  BY <1>4 DEF Large!Holding, LargeP!Holding
<1>7. \A n : Large!Inc(n) = LargeP!Inc(n)
  BY DEF Large!Inc, LargeP!Inc
<1>8. \A a : Large!Now(a) = LargeP!Now(a) /\ (Large!AdvanceClock(a) <=> LargeP!AdvanceClock(a))
  BY <1>3, <1>7 DEF Large!Now, LargeP!Now, Large!AdvanceClock, LargeP!AdvanceClock
<1>9. \A a, now : Large!NewLine(a, now) = LargeP!NewLine(a, now)
  BY <1>3 DEF Large!NewLine, LargeP!NewLine
<1>10. \A l, now : Large!Touched(l, now) = LargeP!Touched(l, now)
  BY <1>7 DEF Large!Touched, LargeP!Touched
<1>11. \A s : Large!victim_cacheline(s) = LargeP!victim_cacheline(s)
  BY <1>1 DEF Large!victim_cacheline, LargeP!victim_cacheline
<1>12. Large!LineIndex = LargeP!LineIndex /\ Large!Unset = LargeP!Unset
  BY DEF Large!LineIndex, LargeP!LineIndex, Large!Unset, LargeP!Unset
<1>13. \A i, S : Large!First(i, S) <=> LargeP!First(i, S)
  BY DEF Large!First, LargeP!First
<1>14. \A a : Large!Hit(a) <=> LargeP!Hit(a)
  BY <1>3, <1>5, <1>7, <1>8, <1>10, <1>12, <1>13
     DEF Large!Hit, LargeP!Hit, Large!probe_cache, LargeP!probe_cache,
         Large!hit_cacheline, LargeP!hit_cacheline
<1>15. \A a : Large!Miss(a) <=> LargeP!Miss(a)
  BY <1>3, <1>4, <1>5, <1>7, <1>8, <1>9, <1>12, <1>13
     DEF Large!Miss, LargeP!Miss, Large!probe_cache, LargeP!probe_cache,
         Large!insert_cacheline, LargeP!insert_cacheline
<1>16. \A a : Large!Evict(a) <=> LargeP!Evict(a)
  BY <1>3, <1>4, <1>5, <1>6, <1>7, <1>8, <1>9, <1>11, <1>12, <1>13
     DEF Large!Evict, LargeP!Evict, Large!probe_cache, LargeP!probe_cache,
         Large!replace_cacheline, LargeP!replace_cacheline
<1> QED BY <1>14, <1>15, <1>16 DEF Large!operateCache, LargeP!operateCache

-----------------------------------------------------------------------------
(***************************************************************************)
(* The argument, on the tags a set holds and the clocks of their last use. *)
(* C1 and C2 are what the two caches hold of one set, `new' is the tag and *)
(* the clock of the access, D1 and D2 what they hold after it.             *)
(***************************************************************************)
Distinct(C) ==
  /\ IsFiniteSet(C)
  /\ C \subseteq Nat \X Nat
  /\ \A p, q \in C : p[1] = q[1] \/ p[2] = q[2] => p = q

(* What the smaller cache lacks was last used before all that it holds, and   *)
(* it lacks something only if it is full.                                     *)
Includes(C1, C2) ==
  /\ C1 \subseteq C2
  /\ \A p \in C2 \ C1 : Cardinality(C1) = linesPerSet /\ \A q \in C1 : p[2] < q[2]

HitTo(C, D, new) == \E p \in C : p[1] = new[1] /\ D = (C \ {p}) \cup {new}

MissTo(C, D, new, n) ==
  /\ \A p \in C : p[1] # new[1]
  /\ Cardinality(C) < n
  /\ D = C \cup {new}

EvictTo(C, D, new, n) ==
  /\ \A p \in C : p[1] # new[1]
  /\ Cardinality(C) = n
  /\ \E v \in C : (\A q \in C : v[2] <= q[2]) /\ D = (C \ {v}) \cup {new}

(* Exchanging one element for a later one keeps the number of them. *)
LEMMA Exchanged ==
  ASSUME NEW C, Distinct(C), NEW p \in C, NEW new, new \notin C
  PROVE  Cardinality((C \ {p}) \cup {new}) = Cardinality(C)
<1>1. IsFiniteSet(C) /\ Cardinality(C) \in Nat
  BY FS_CardinalityType DEF Distinct
<1>2. IsFiniteSet(C \ {p}) /\ Cardinality(C \ {p}) = Cardinality(C) - 1
  BY <1>1, FS_RemoveElement
<1>3. Cardinality((C \ {p}) \cup {new}) = Cardinality(C \ {p}) + 1
  BY <1>2, FS_AddElement
<1> QED BY <1>1, <1>2, <1>3

LEMMA IncludesStep ==
  ASSUME NEW C1, NEW C2, NEW D1, NEW D2, NEW new \in Nat \X Nat,
         Distinct(C1), Distinct(C2), Includes(C1, C2),
         \A p \in C2 : p[2] < new[2],
         \/ HitTo(C1, D1, new)
         \/ MissTo(C1, D1, new, linesPerSet)
         \/ EvictTo(C1, D1, new, linesPerSet),
         \/ HitTo(C2, D2, new)
         \/ MissTo(C2, D2, new, moreLines)
         \/ EvictTo(C2, D2, new, moreLines)
  PROVE  /\ Includes(D1, D2)
         /\ HitTo(C1, D1, new) => HitTo(C2, D2, new)
         /\ EvictTo(C2, D2, new, moreLines) => EvictTo(C1, D1, new, linesPerSet)
<1>1. /\ C1 \subseteq C2
      /\ \A p \in C2 : p \in Nat \X Nat /\ p[2] \in Nat /\ p # new
      /\ new[2] \in Nat
      /\ \A p, q \in C2 : p[1] = q[1] \/ p[2] = q[2] => p = q
  BY DEF Includes, Distinct
<1>2. \A p \in C2 \ C1 : Cardinality(C1) = linesPerSet /\ \A q \in C1 : p[2] < q[2]
  BY DEF Includes
<1>3. CASE HitTo(C1, D1, new)
  <2>1. PICK p \in C1 : p[1] = new[1] /\ D1 = (C1 \ {p}) \cup {new}
    BY <1>3 DEF HitTo
  <2>2. HitTo(C2, D2, new) /\ ~EvictTo(C2, D2, new, moreLines)
    BY <1>1, <2>1 DEF MissTo, EvictTo
  <2>3. D2 = (C2 \ {p}) \cup {new}
    BY <1>1, <2>1, <2>2 DEF HitTo
  <2>4. Cardinality(D1) = Cardinality(C1)
    BY <1>1, <2>1, Exchanged
  <2>5. D1 \subseteq D2 /\ \A x \in D2 \ D1 : x \in C2 \ C1
    BY <1>1, <2>1, <2>3
  <2>6. \A q \in D1 : q \in C1 \/ q = new
    BY <2>1
  <2>7. Includes(D1, D2)
    BY <1>1, <1>2, <2>4, <2>5, <2>6 DEF Includes
  <2> QED BY <2>2, <2>7
<1>4. CASE MissTo(C1, D1, new, linesPerSet)
  <2>1. /\ \A p \in C1 : p[1] # new[1]
        /\ Cardinality(C1) < linesPerSet /\ D1 = C1 \cup {new}
    BY <1>4 DEF MissTo
  <2>2. C2 = C1 /\ Cardinality(C1) \in Nat
    <3>1. Cardinality(C1) \in Nat
      BY FS_CardinalityType DEF Distinct
    <3>2. Cardinality(C1) # linesPerSet
      BY <2>1, <3>1, Associativities
    <3> QED BY <1>1, <1>2, <3>1, <3>2
  <2>3. MissTo(C2, D2, new, moreLines)
    BY <2>1, <2>2, Associativities DEF HitTo, EvictTo
  <2>4. D2 = D1 /\ ~EvictTo(C2, D2, new, moreLines) /\ ~HitTo(C1, D1, new)
    BY <2>1, <2>2, <2>3, Associativities DEF MissTo, EvictTo, HitTo
  <2> QED BY <2>4 DEF Includes
<1>5. CASE EvictTo(C1, D1, new, linesPerSet)
  <2>1. /\ \A p \in C1 : p[1] # new[1]
        /\ Cardinality(C1) = linesPerSet
    BY <1>5 DEF EvictTo
  <2>2. PICK v \in C1 : (\A q \in C1 : v[2] <= q[2]) /\ D1 = (C1 \ {v}) \cup {new}
    BY <1>5 DEF EvictTo
  <2>3. Cardinality(D1) = linesPerSet
    BY <1>1, <2>1, <2>2, Exchanged
  <2>4. \A q \in C1 \ {v} : v[2] < q[2]
    BY <1>1, <2>2
  <2>5. C1 \ {v} \subseteq D2 /\ new \in D2 /\ D2 \subseteq C2 \cup {new}
    <3>1. CASE HitTo(C2, D2, new)
      BY <1>1, <2>1, <3>1 DEF HitTo
    <3>2. CASE MissTo(C2, D2, new, moreLines)
      BY <1>1, <3>2 DEF MissTo
    <3>3. CASE EvictTo(C2, D2, new, moreLines)
      <4>1. PICK w \in C2 : (\A q \in C2 : w[2] <= q[2]) /\ D2 = (C2 \ {w}) \cup {new}
        BY <3>3 DEF EvictTo
      <4>2. w[2] <= v[2]
        BY <1>1, <4>1
      <4>3. w \notin C1 \ {v}
        BY <1>1, <2>4, <4>2
      <4> QED BY <1>1, <4>1, <4>3
    <3> QED BY <3>1, <3>2, <3>3
  <2>6. ASSUME NEW x \in D2 \ D1 PROVE \A q \in D1 : x[2] < q[2]
    <3>1. x \in C2 /\ (x \notin C1 \/ x = v)
      BY <2>2, <2>5
    <3>2. \A q \in C1 \ {v} : x[2] < q[2]
      BY <1>2, <2>4, <3>1
    <3> QED BY <2>2, <3>1, <3>2
  <2>7. Includes(D1, D2)
    BY <2>2, <2>3, <2>5, <2>6 DEF Includes
  <2>8. ~HitTo(C1, D1, new)
    BY <2>1 DEF HitTo
  <2> QED BY <1>5, <2>7, <2>8
<1> QED BY <1>3, <1>4, <1>5

-----------------------------------------------------------------------------
(***************************************************************************)
(* The two caches together: their clocks agree, and every set of the       *)
(* larger one includes the same set of the smaller one.                    *)
(***************************************************************************)
Sets == SetIndex

SetsIncluded ==
  \A s \in Sets : /\ lru_clock[s] = clock2[s]
                  /\ Includes(Content(s), LargeP!Content(s))

CountsRelated ==
  /\ hit_count + miss_count = hits2 + misses2
  /\ hit_count <= hits2
  /\ evictions2 <= eviction_count

Inclusion == IInv /\ LargeP!IInv /\ SetsIncluded /\ CountsRelated

LEMMA SameSets ==
  /\ LargeP!SetIndex = Sets
  /\ \A a : /\ LargeP!cache_set(a) = cache_set(a)
            /\ LargeP!cache_tag(a) = cache_tag(a)
            /\ LargeP!address_to_block(a) = address_to_block(a)
<1>1. LargeP!Pow2 = Pow2
  BY DEF LargeP!Pow2, Pow2, LargeP!ShiftCount, ShiftCount
<1>2. LargeP!SetIndex = Sets
  BY <1>1 DEF LargeP!SetIndex, SetIndex, Sets
<1>3. \A a : /\ LargeP!cache_set(a) = cache_set(a)
             /\ LargeP!cache_tag(a) = cache_tag(a)
             /\ LargeP!address_to_block(a) = address_to_block(a)
  BY <1>1 DEF LargeP!cache_set, cache_set, LargeP!cache_tag, cache_tag,
     LargeP!address_to_block, address_to_block, LargeP!Shr, Shr,
     LargeP!Shl, Shl, LargeP!LowBits, LowBits
<1> QED BY <1>2, <1>3

LEMMA FiniteCopies ==
  \A S : /\ LargeP!IsFiniteSet(S) <=> IsFiniteSet(S)
         /\ LargeP!Cardinality(S) = Cardinality(S)
BY DEF IsFiniteSet, LargeP!IsFiniteSet, Cardinality, LargeP!Cardinality

(* What the tags and clocks of a set are, in either cache. *)
LEMMA SmallContent ==
  ASSUME IInv, NEW s \in Sets
  PROVE  /\ Distinct(Content(s))
         /\ lru_clock[s] \in Nat
         /\ \A p \in Content(s) : p[2] <= lru_clock[s]
<1>1. TypeOK /\ LineInv /\ CountersBounded
  BY DEF IInv
<1>2. /\ Content(s) \subseteq Nat \X Nat
      /\ \A p, q \in Content(s) : p[1] = q[1] \/ p[2] = q[2] => p = q
      /\ \A p \in Content(s) : p[2] <= lru_clock[s]
      /\ IsFiniteSet(Content(s))
  BY <1>1, ContentFacts DEF Sets
<1>3. lru_clock[s] \in Nat
  BY <1>1 DEF CountersBounded, Sets
<1> QED BY <1>2, <1>3 DEF Distinct

LEMMA LargeContent ==
  ASSUME LargeP!IInv, NEW s \in Sets
  PROVE  /\ Distinct(LargeP!Content(s))
         /\ clock2[s] \in Nat
         /\ \A p \in LargeP!Content(s) : p[2] <= clock2[s]
<1>1. LargeP!TypeOK /\ LargeP!LineInv /\ LargeP!CountersBounded /\ s \in LargeP!SetIndex
  BY SameSets DEF LargeP!IInv
<1>2. /\ LargeP!Content(s) \subseteq Nat \X Nat
      /\ \A p, q \in LargeP!Content(s) : p[1] = q[1] \/ p[2] = q[2] => p = q
      /\ \A p \in LargeP!Content(s) : p[2] <= clock2[s]
      /\ IsFiniteSet(LargeP!Content(s))
  BY <1>1, LargeAssumptions, LargeP!ContentFacts, FiniteCopies
<1>3. clock2[s] \in Nat
  BY <1>1 DEF LargeP!CountersBounded
<1> QED BY <1>2, <1>3 DEF Distinct

LEMMA InclusionInit ==
  ASSUME MaxAccesses <= IntMax, PairInit
  PROVE  Inclusion
<1>1. Init /\ LargeP!Init
  BY LargeCopies DEF PairInit
<1>2. IInv /\ LargeP!IInv
  BY <1>1, LargeAssumptions, InductiveInvariant, LargeP!InductiveInvariant
<1>3. CountsRelated
  BY <1>1 DEF Init, cacheSetUp, LargeP!Init, LargeP!cacheSetUp, CountsRelated
<1>4. ASSUME NEW s \in Sets
      PROVE  lru_clock[s] = clock2[s] /\ Content(s) = {} /\ LargeP!Content(s) = {}
  <2>1. s \in SetIndex /\ s \in LargeP!SetIndex
    BY SameSets DEF Sets
  <2>2. lru_clock[s] = 0 /\ Content(s) = {}
    BY <1>1, <2>1 DEF Init, cacheSetUp, Content, Valid
  <2>3. clock2[s] = 0 /\ LargeP!Content(s) = {}
    BY <1>1, <2>1 DEF LargeP!Init, LargeP!cacheSetUp, LargeP!Content, LargeP!Valid
  <2> QED BY <2>2, <2>3
<1>5. SetsIncluded
  BY <1>4 DEF SetsIncluded, Includes
<1> QED BY <1>2, <1>3, <1>5 DEF Inclusion

(* An access, in either cache. *)
LEMMA SmallStep ==
  ASSUME MaxAccesses <= IntMax, lfu = 0, IInv, accesses < MaxAccesses,
         NEW a \in Addrs, operateCache(a)
  PROVE  LET s == cache_set(a)
             C == Content(s)
             D == Content(s)'
             new == <<cache_tag(a), lru_clock[s] + 1>>
         IN  /\ IInv'
             /\ s \in Sets
             /\ \A u \in Sets \ {s} : Content(u)' = Content(u) /\ lru_clock'[u] = lru_clock[u]
             /\ lru_clock'[s] = lru_clock[s] + 1
             /\ \/ /\ HitTo(C, D, new)
                   /\ hit_count' = hit_count + 1 /\ miss_count' = miss_count /\ eviction_count' = eviction_count
                \/ /\ MissTo(C, D, new, linesPerSet)
                   /\ hit_count' = hit_count /\ miss_count' = miss_count + 1 /\ eviction_count' = eviction_count
                \/ /\ EvictTo(C, D, new, linesPerSet)
                   /\ hit_count' = hit_count /\ miss_count' = miss_count + 1 /\ eviction_count' = eviction_count + 1
<1> DEFINE s == cache_set(a)
           t == cache_tag(a)
<1>1. s = cache_set(a) /\ t = cache_tag(a) /\ Sets = SetIndex
  BY SameSets DEF Sets
<1>2. TypeOK
  BY DEF IInv
<1>3. IInv'
  <2>1. TypeOK'
    BY <1>2, TypeStep
  <2>2. LineInv'
    BY LineInvStep
  <2>3. CountersBounded'
    BY CountersStep
  <2> QED BY <2>1, <2>2, <2>3 DEF IInv
<1>4. /\ cache_set(a) \in SetIndex
      /\ \A u \in SetIndex \ {cache_set(a)} :
            Content(u)' = Content(u) /\ lru_clock'[u] = lru_clock[u]
      /\ lru_clock'[cache_set(a)] = lru_clock[cache_set(a)] + 1
      /\ \/ ContentHit(cache_set(a), cache_tag(a))
         \/ ContentMiss(cache_set(a), cache_tag(a))
         \/ ContentEvict(cache_set(a), cache_tag(a))
  BY ContentStep
<1> HIDE DEF s, t
<1>5. /\ s \in Sets
      /\ \A u \in Sets \ {s} : Content(u)' = Content(u) /\ lru_clock'[u] = lru_clock[u]
      /\ lru_clock'[s] = lru_clock[s] + 1
      /\ ContentHit(s, t) \/ ContentMiss(s, t) \/ ContentEvict(s, t)
  BY <1>1, <1>4
<1>6. Stamped(s, t) = <<t, lru_clock[s] + 1>>
  BY DEF Stamped
<1> DEFINE C == Content(s)
           D == Content(s)'
           new == <<t, lru_clock[s] + 1>>
<1>7. ContentHit(s, t) => /\ HitTo(C, D, new)
                             /\ hit_count' = hit_count + 1 /\ miss_count' = miss_count /\ eviction_count' = eviction_count
  BY <1>6 DEF ContentHit, HitTo
<1>8. ContentMiss(s, t) => /\ MissTo(C, D, new, linesPerSet)
                              /\ hit_count' = hit_count /\ miss_count' = miss_count + 1 /\ eviction_count' = eviction_count
  BY <1>6 DEF ContentMiss, MissTo
<1>9. ContentEvict(s, t) => /\ EvictTo(C, D, new, linesPerSet)
                               /\ hit_count' = hit_count /\ miss_count' = miss_count + 1
                               /\ eviction_count' = eviction_count + 1
  BY <1>6 DEF ContentEvict, EvictTo
<1> QED BY <1>3, <1>5, <1>7, <1>8, <1>9 DEF s, t

LEMMA LargeStep ==
  ASSUME MaxAccesses <= IntMax, lfu = 0, LargeP!IInv, LargeP!accesses < MaxAccesses,
         NEW a \in Addrs, LargeP!operateCache(a)
  PROVE  LET s == cache_set(a)
             C == LargeP!Content(s)
             D == LargeP!Content(s)'
             new == <<cache_tag(a), clock2[s] + 1>>
         IN  /\ LargeP!IInv'
             /\ s \in Sets
             /\ \A u \in Sets \ {s} : LargeP!Content(u)' = LargeP!Content(u) /\ clock2'[u] = clock2[u]
             /\ clock2'[s] = clock2[s] + 1
             /\ \/ /\ HitTo(C, D, new)
                   /\ hits2' = hits2 + 1 /\ misses2' = misses2 /\ evictions2' = evictions2
                \/ /\ MissTo(C, D, new, moreLines)
                   /\ hits2' = hits2 /\ misses2' = misses2 + 1 /\ evictions2' = evictions2
                \/ /\ EvictTo(C, D, new, moreLines)
                   /\ hits2' = hits2 /\ misses2' = misses2 + 1 /\ evictions2' = evictions2 + 1
<1> DEFINE s == cache_set(a)
           t == cache_tag(a)
<1>1. s = LargeP!cache_set(a) /\ t = LargeP!cache_tag(a) /\ Sets = LargeP!SetIndex
  BY SameSets DEF Sets
<1>2. LargeP!TypeOK
  BY DEF LargeP!IInv
<1>3. LargeP!IInv'
  <2>1. LargeP!TypeOK'
    BY <1>2, LargeAssumptions, LargeP!TypeStep
  <2>2. LargeP!LineInv'
    BY LargeAssumptions, LargeP!LineInvStep
  <2>3. LargeP!CountersBounded'
    BY LargeAssumptions, LargeP!CountersStep
  <2> QED BY <2>1, <2>2, <2>3 DEF LargeP!IInv
<1>4. /\ LargeP!cache_set(a) \in LargeP!SetIndex
      /\ \A u \in LargeP!SetIndex \ {LargeP!cache_set(a)} :
            LargeP!Content(u)' = LargeP!Content(u) /\ clock2'[u] = clock2[u]
      /\ clock2'[LargeP!cache_set(a)] = clock2[LargeP!cache_set(a)] + 1
      /\ \/ LargeP!ContentHit(LargeP!cache_set(a), LargeP!cache_tag(a))
         \/ LargeP!ContentMiss(LargeP!cache_set(a), LargeP!cache_tag(a))
         \/ LargeP!ContentEvict(LargeP!cache_set(a), LargeP!cache_tag(a))
  BY LargeAssumptions, LargeP!ContentStep
<1> HIDE DEF s, t
<1>5. /\ s \in Sets
      /\ \A u \in Sets \ {s} : LargeP!Content(u)' = LargeP!Content(u) /\ clock2'[u] = clock2[u]
      /\ clock2'[s] = clock2[s] + 1
      /\ LargeP!ContentHit(s, t) \/ LargeP!ContentMiss(s, t) \/ LargeP!ContentEvict(s, t)
  BY <1>1, <1>4
<1>6. LargeP!Stamped(s, t) = <<t, clock2[s] + 1>>
  BY DEF LargeP!Stamped
<1> DEFINE C == LargeP!Content(s)
           D == LargeP!Content(s)'
           new == <<t, clock2[s] + 1>>
<1>7. LargeP!ContentHit(s, t) => /\ HitTo(C, D, new)
                             /\ hits2' = hits2 + 1 /\ misses2' = misses2 /\ evictions2' = evictions2
  BY <1>6 DEF LargeP!ContentHit, HitTo
<1>8. LargeP!ContentMiss(s, t) => /\ MissTo(C, D, new, moreLines)
                              /\ hits2' = hits2 /\ misses2' = misses2 + 1 /\ evictions2' = evictions2
  BY <1>6, FiniteCopies DEF LargeP!ContentMiss, MissTo
<1>9. LargeP!ContentEvict(s, t) => /\ EvictTo(C, D, new, moreLines)
                               /\ hits2' = hits2 /\ misses2' = misses2 + 1
                               /\ evictions2' = evictions2 + 1
  BY <1>6, FiniteCopies DEF LargeP!ContentEvict, EvictTo
<1> QED BY <1>3, <1>5, <1>7, <1>8, <1>9 DEF s, t

LEMMA InclusionStep ==
  ASSUME MaxAccesses <= IntMax, lfu = 0, Inclusion, accesses < MaxAccesses,
         NEW a \in Addrs, AccessBoth(a)
  PROVE  Inclusion'
<1> DEFINE s == cache_set(a)
           C1 == Content(s)
           D1 == Content(s)'
           C2 == LargeP!Content(s)
           D2 == LargeP!Content(s)'
           new == <<cache_tag(a), lru_clock[s] + 1>>
<1>1. IInv /\ LargeP!IInv /\ SetsIncluded /\ CountsRelated
  BY DEF Inclusion
<1>2. operateCache(a) /\ LargeP!operateCache(a)
  BY LargeStepCopies DEF AccessBoth
<1>3. accesses < MaxAccesses /\ LargeP!accesses < MaxAccesses
  BY <1>1 DEF accesses, LargeP!accesses, CountsRelated
<1>4. /\ IInv' /\ s \in Sets
      /\ \A u \in Sets \ {s} : Content(u)' = Content(u) /\ lru_clock'[u] = lru_clock[u]
      /\ lru_clock'[s] = lru_clock[s] + 1
      /\ \/ /\ HitTo(C1, D1, new)
            /\ hit_count' = hit_count + 1 /\ miss_count' = miss_count /\ eviction_count' = eviction_count
         \/ /\ MissTo(C1, D1, new, linesPerSet)
            /\ hit_count' = hit_count /\ miss_count' = miss_count + 1 /\ eviction_count' = eviction_count
         \/ /\ EvictTo(C1, D1, new, linesPerSet)
            /\ hit_count' = hit_count /\ miss_count' = miss_count + 1 /\ eviction_count' = eviction_count + 1
  BY <1>1, <1>2, <1>3, SmallStep
<1>5. clock2[s] = lru_clock[s] /\ Includes(C1, C2)
  BY <1>1, <1>4 DEF SetsIncluded
<1>6. /\ LargeP!IInv'
      /\ \A u \in Sets \ {s} : LargeP!Content(u)' = LargeP!Content(u) /\ clock2'[u] = clock2[u]
      /\ clock2'[s] = clock2[s] + 1
      /\ \/ /\ HitTo(C2, D2, new)
            /\ hits2' = hits2 + 1 /\ misses2' = misses2 /\ evictions2' = evictions2
         \/ /\ MissTo(C2, D2, new, moreLines)
            /\ hits2' = hits2 /\ misses2' = misses2 + 1 /\ evictions2' = evictions2
         \/ /\ EvictTo(C2, D2, new, moreLines)
            /\ hits2' = hits2 /\ misses2' = misses2 + 1 /\ evictions2' = evictions2 + 1
  <2>1. <<cache_tag(a), clock2[s] + 1>> = new
    BY <1>5
  <2> HIDE DEF new
  <2> QED BY <1>1, <1>2, <1>3, <2>1, LargeStep
<1>7. /\ Distinct(C1) /\ Distinct(C2) /\ lru_clock[s] \in Nat
      /\ \A p \in C2 : p[2] <= lru_clock[s]
  BY <1>1, <1>4, <1>5, SmallContent, LargeContent
<1>8. new \in Nat \X Nat /\ \A p \in C2 : p[2] < new[2]
  <2>1. cache_tag(a) \in Nat
    BY AddrsAssumption, AddressParts
  <2>2. \A p \in C2 : p[2] \in Nat
    BY <1>7 DEF Distinct
  <2> QED BY <1>7, <2>1, <2>2
<1> HIDE DEF s, C1, C2, D1, D2, new
<1>9. /\ Includes(D1, D2)
      /\ HitTo(C1, D1, new) => HitTo(C2, D2, new)
      /\ EvictTo(C2, D2, new, moreLines) => EvictTo(C1, D1, new, linesPerSet)
  BY <1>4, <1>5, <1>6, <1>7, <1>8, IncludesStep
<1>10. SetsIncluded'
  <2>1. ASSUME NEW u \in Sets
        PROVE  lru_clock'[u] = clock2'[u] /\ Includes(Content(u)', LargeP!Content(u)')
    <3>1. CASE u = s
      BY <1>4, <1>5, <1>6, <1>9, <3>1 DEF D1, D2
    <3>2. CASE u # s
      BY <1>1, <1>4, <1>6, <3>2 DEF SetsIncluded
    <3> QED BY <3>1, <3>2
  <2> QED BY <2>1 DEF SetsIncluded, Includes, Sets, SetIndex
<1>11. CountsRelated'
  <2>1. /\ hit_count \in Nat /\ miss_count \in Nat /\ eviction_count \in Nat
        /\ hits2 \in Nat /\ misses2 \in Nat /\ evictions2 \in Nat
    BY <1>1 DEF IInv, LargeP!IInv, CountersBounded, LargeP!CountersBounded
  <2>2. HitTo(C2, D2, new) => /\ ~MissTo(C2, D2, new, moreLines)
                              /\ ~EvictTo(C2, D2, new, moreLines)
    BY DEF HitTo, MissTo, EvictTo
  <2>3. EvictTo(C1, D1, new, linesPerSet) => ~MissTo(C1, D1, new, linesPerSet)
    BY Associativities DEF MissTo, EvictTo
  <2>4. HitTo(C1, D1, new) => HitTo(C2, D2, new)
    BY <1>9
  <2>5. EvictTo(C2, D2, new, moreLines) => EvictTo(C1, D1, new, linesPerSet)
    BY <1>9
  <2>6. hit_count + miss_count = hits2 + misses2 /\ hit_count <= hits2 /\ evictions2 <= eviction_count
    BY <1>1 DEF CountsRelated
  <2>7. CASE hit_count' = hit_count + 1 /\ miss_count' = miss_count /\ eviction_count' = eviction_count
             /\ HitTo(C1, D1, new)
    <3>1. hits2' = hits2 + 1 /\ misses2' = misses2 /\ evictions2' = evictions2
      BY <1>6, <2>2, <2>4, <2>7
    <3> QED BY <2>1, <2>6, <2>7, <3>1 DEF CountsRelated
  <2>8. CASE hit_count' = hit_count /\ miss_count' = miss_count + 1 /\ eviction_count' = eviction_count
             /\ MissTo(C1, D1, new, linesPerSet)
    <3>1. /\ evictions2' = evictions2
          /\ \/ hits2' = hits2 + 1 /\ misses2' = misses2
             \/ hits2' = hits2 /\ misses2' = misses2 + 1
      BY <1>6, <2>3, <2>5, <2>8
    <3> QED BY <2>1, <2>6, <2>8, <3>1 DEF CountsRelated
  <2>9. CASE hit_count' = hit_count /\ miss_count' = miss_count + 1 /\ eviction_count' = eviction_count + 1
    <3>1. /\ evictions2' = evictions2 \/ evictions2' = evictions2 + 1
          /\ \/ hits2' = hits2 + 1 /\ misses2' = misses2
             \/ hits2' = hits2 /\ misses2' = misses2 + 1
      BY <1>6
    <3> QED BY <2>1, <2>6, <2>9, <3>1 DEF CountsRelated
  <2> QED BY <1>4, <2>7, <2>8, <2>9
<1> QED BY <1>4, <1>6, <1>10, <1>11 DEF Inclusion

(* An unchanged state: neither cache is accessed. *)
LEMMA InclusionStutter ==
  ASSUME Inclusion, UNCHANGED bothVars
  PROVE  Inclusion'
<1>1. /\ UNCHANGED <<lines, lru_clock, hit_count, miss_count, eviction_count, r>>
      /\ UNCHANGED <<lines2, clock2, hits2, misses2, evictions2, r2>>
  BY DEF bothVars, vars, vars2
<1>2. IInv'
  BY <1>1 DEF Inclusion, IInv, TypeOK, LineInv, TagsMatchBlocks,
     NoBlockTwice, ClocksOrderLines, UsesBounded, Valid,
     CountersBounded, accesses
<1>3. LargeP!IInv'
  BY <1>1 DEF Inclusion, LargeP!IInv, LargeP!TypeOK, LargeP!LineInv, LargeP!TagsMatchBlocks,
     LargeP!NoBlockTwice, LargeP!ClocksOrderLines, LargeP!UsesBounded, LargeP!Valid,
     LargeP!CountersBounded, LargeP!accesses
<1>4. SetsIncluded'
  <2>1. \A s : Content(s)' = Content(s) /\ LargeP!Content(s)' = LargeP!Content(s)
    BY <1>1 DEF Content, Valid, LargeP!Content, LargeP!Valid
  <2>2. SetsIncluded
    BY DEF Inclusion
  <2> QED BY <1>1, <2>1, <2>2 DEF SetsIncluded, Sets, SetIndex, Includes
<1>5. CountsRelated'
  BY <1>1 DEF Inclusion, CountsRelated
<1> QED BY <1>2, <1>3, <1>4, <1>5 DEF Inclusion

LEMMA InclusionImplies ==
  ASSUME Inclusion
  PROVE  LargerIncludesSmaller
<1>1. /\ TypeOK /\ LineInv /\ LargeP!TypeOK /\ LargeP!LineInv
      /\ SetsIncluded /\ CountsRelated
  BY DEF Inclusion, IInv, LargeP!IInv
<1>2. ASSUME NEW s \in SetIndex, NEW x \in Resident(s)
      PROVE  x \in Large!Resident(s)
  <2>1. s \in Sets /\ s \in LargeP!SetIndex /\ x \in Resident(s)
    BY SameSets DEF Sets
  <2>2. /\ x \in Nat /\ address_to_block(x) = x /\ cache_set(x) = s
        /\ \E p \in Content(s) : p[1] = cache_tag(x)
    BY <1>1, <2>1, ResidentTags
  <2>3. /\ LargeP!address_to_block(x) = x /\ LargeP!cache_set(x) = s
        /\ \E p \in LargeP!Content(s) : p[1] = LargeP!cache_tag(x)
    BY <1>1, <2>1, <2>2, SameSets DEF SetsIncluded, Includes
  <2>4. x \in LargeP!Resident(s)
    BY <1>1, <2>1, <2>2, <2>3, LargeAssumptions, LargeP!ResidentTags
  <2> QED BY <2>4, LargeCopies
<1> QED BY <1>1, <1>2 DEF LargerIncludesSmaller, CountsRelated

(* Under LRU, and as long as no counter can overflow, a cache with more lines *)
(* per set holds at every moment what the smaller one holds: it hits at least *)
(* as often and evicts no more (cache.c:170-177).                             *)
THEOREM LargerIncludesSmallerHolds ==
  ASSUME MaxAccesses <= IntMax, lfu = 0
  PROVE  PairSpec => []LargerIncludesSmaller
<1>1. PairInit => Inclusion
  BY InclusionInit
<1>2. Inclusion /\ [PairNext]_bothVars => Inclusion'
  BY InclusionStep, InclusionStutter DEF PairNext
<1>3. Inclusion => LargerIncludesSmaller
  BY InclusionImplies
<1> QED BY <1>1, <1>2, <1>3, PTL DEF PairSpec

=============================================================================
