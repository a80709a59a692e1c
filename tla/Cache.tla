------------------------------- MODULE Cache --------------------------------
(***************************************************************************)
(* The set-associative cache simulator of cache.c: which lines it holds,   *)
(* the clocks and counters its replacement policies read, and the result   *)
(* and statistics of every access.  The cache keeps no data, so an access  *)
(* is an address and nothing else.                                         *)
(*                                                                         *)
(* Names are those of cache.c and cache.h.  The fields of the C structs    *)
(* Cache, Set and Line are the variables below: lines[s][i] is             *)
(* cache->sets[s].lines[i], lru_clock[s] is cache->sets[s].lru_clock.      *)
(***************************************************************************)
EXTENDS Bits, Sequences, FiniteSets

CONSTANTS
    setBits,        \* cache->setBits: there are 2^setBits sets
    linesPerSet,    \* cache->linesPerSet: the associativity
    blockBits,      \* cache->blockBits: a block has 2^blockBits bytes
    lfu,            \* cache->lfu: 0 is LRU, 1 is LFU, the code leaves any other value open
    Addrs,          \* the addresses accessed
    IntMax,         \* the largest value of a C int
    MaxAccesses     \* bound: the number of accesses a behaviour makes

\* The geometries for which C defines the shifts of cache.c: 1 << setBits is an
\* int, and a tag is an address shifted by both.  main sets none of these fields
\* (riscv.c:150), so that a caller has to.
ASSUME GeometryAssumption ==
    /\ setBits \in ShiftCount /\ setBits < 31
    /\ blockBits \in ShiftCount /\ blockBits + setBits \in ShiftCount
    /\ linesPerSet \in Nat \ {0}
    /\ lfu \in Int

ASSUME AddrsAssumption == Addrs \subseteq Nat

ASSUME BoundsAssumption ==
    /\ IntMax \in Nat \ {0}
    /\ MaxAccesses \in Nat

VARIABLES
    lines,          \* the Line structs, by set and position
    lru_clock,      \* the clock of each set
    hit_count, miss_count, eviction_count,
    r               \* the result the last operateCache returned

vars == <<lines, lru_clock, hit_count, miss_count, eviction_count, r>>

-----------------------------------------------------------------------------
SetIndex  == 0 .. Pow2[setBits] - 1
LineIndex == 0 .. linesPerSet - 1

CInt == -IntMax - 1 .. IntMax

\* n + 1 on a C int: the compiled code wraps around.
Inc(n) == IF n = IntMax THEN -IntMax - 1 ELSE n + 1

Line == [valid : BOOLEAN, tag : Nat, block_addr : Nat,
         lru_clock : CInt, access_counter : CInt]

\* The members of a result that an access leaves uninitialised.
Unset == -1

result == [status : {"none", "CACHE_MISS", "CACHE_HIT", "CACHE_EVICT"},
           insert_block_addr : Nat \cup {Unset},
           victim_block_addr : Nat \cup {Unset}]

address_to_block(a) == Shl(Shr(a, blockBits), blockBits)

\* address >> (blockBits + setBits), one shift after the other.
cache_tag(a) == Shr(Shr(a, blockBits), setBits)

cache_set(a) == LowBits(Shr(a, blockBits), setBits)

-----------------------------------------------------------------------------
(* The loops of cache.c over the lines of a set stop at the first line     *)
(* that answers: First picks it out of the set S of lines that would.      *)
First(i, S) == i \in S /\ \A j \in S : i <= j

Valid(s)      == {i \in LineIndex : lines[s][i].valid}
Invalid(s)    == LineIndex \ Valid(s)
Matching(a)   == {i \in Valid(cache_set(a)) :
                      lines[cache_set(a)][i].tag = cache_tag(a)}
Holding(s, b) == {i \in Valid(s) : lines[s][i].block_addr = b}

\* Fault: the loop stops one line short.
probe_cache_SkipsLastLine(a) == Matching(a) \ {linesPerSet - 1} # {}

probe_cache(a) == Matching(a) # {}

\* Fault: a hit does not count as a use.
Touched_StaleClock(l, now) ==
    [l EXCEPT !.access_counter = Inc(l.access_counter)]

\* The line l after a hit; `now' is the clock of its set, already advanced.
Touched(l, now) ==
    [l EXCEPT !.lru_clock = now, !.access_counter = Inc(l.access_counter)]

hit_cacheline(a, now) ==
    LET s == cache_set(a) IN
    lines' = [lines EXCEPT ![s] = [i \in LineIndex |->
                 IF First(i, Matching(a)) THEN Touched(lines[s][i], now)
                 ELSE lines[s][i]]]

\* The line that insert_cacheline and replace_cacheline write for address a.
NewLine(a, now) ==
    [valid |-> TRUE, tag |-> cache_tag(a), block_addr |-> address_to_block(a),
     lru_clock |-> now, access_counter |-> 1]

insert_cacheline(a, now) ==
    LET s == cache_set(a) IN
    lines' = [lines EXCEPT ![s] = [i \in LineIndex |->
                 IF First(i, Invalid(s)) THEN NewLine(a, now)
                 ELSE lines[s][i]]]

(***************************************************************************)
(* victim_cacheline: one pass over the lines, keeping the best victim so   *)
(* far, which is line 0 to begin with.  Better(l, v) is the condition under *)
(* which line l takes the place of the best victim v.                      *)
(***************************************************************************)
\* Fault: the comparison is the wrong way round.
Better_MostRecent(l, v) == l.valid /\ l.lru_clock > v.lru_clock

\* Fault: equal access counters are not told apart by the clocks.
Better_NoTieBreak(l, v) ==
    /\ l.valid
    /\ \/ lfu = 0 /\ l.lru_clock < v.lru_clock
       \/ lfu = 1 /\ l.access_counter < v.access_counter

Better(l, v) ==
    /\ l.valid
    /\ \/ lfu = 0 /\ l.lru_clock < v.lru_clock
       \/ lfu = 1 /\ l.access_counter < v.access_counter
       \/ /\ lfu = 1
          /\ l.access_counter = v.access_counter
          /\ l.lru_clock < v.lru_clock

\* Fault: the loop stops one line short.
VictimLine_SkipsLastLine(ls) ==
    LET best[n \in 0 .. linesPerSet - 1] ==
            IF n = 0 THEN 0
            ELSE IF Better(ls[n-1], ls[best[n-1]]) THEN n - 1 ELSE best[n-1]
    IN  best[linesPerSet - 1]

VictimLine(ls) ==
    LET best[n \in 0 .. linesPerSet] ==     \* the best of lines 0 .. n-1
            IF n = 0 THEN 0
            ELSE IF Better(ls[n-1], ls[best[n-1]]) THEN n - 1 ELSE best[n-1]
    IN  best[linesPerSet]

victim_cacheline(s) == lines[s][VictimLine(lines[s])].block_addr

\* Fault: the tag of the victim stays.
replace_cacheline_KeepsTag(victim, a, now) ==
    LET s == cache_set(a) IN
    lines' = [lines EXCEPT ![s] = [i \in LineIndex |->
                 IF First(i, Holding(s, victim))
                 THEN [NewLine(a, now) EXCEPT !.tag = lines[s][i].tag]
                 ELSE lines[s][i]]]

\* Fault: the first line goes, whoever the victim is.
replace_cacheline_FirstLine(victim, a, now) ==
    lines' = [lines EXCEPT ![cache_set(a)][0] = NewLine(a, now)]

replace_cacheline(victim, a, now) ==
    LET s == cache_set(a) IN
    lines' = [lines EXCEPT ![s] = [i \in LineIndex |->
                 IF First(i, Holding(s, victim)) THEN NewLine(a, now)
                 ELSE lines[s][i]]]

-----------------------------------------------------------------------------
(* operateCache, by the three ways it returns.  The clock of the set is    *)
(* advanced before anything else.                                          *)
Now(a) == Inc(lru_clock[cache_set(a)])

\* Fault: the clock of the set stands still.
AdvanceClock_Forgotten(a) == UNCHANGED lru_clock

AdvanceClock(a) == lru_clock' = [lru_clock EXCEPT ![cache_set(a)] = Inc(@)]

Hit(a) ==
    /\ probe_cache(a)
    /\ AdvanceClock(a)
    /\ hit_cacheline(a, Now(a))
    /\ hit_count' = Inc(hit_count)
    /\ r' = [status |-> "CACHE_HIT", insert_block_addr |-> Unset,
             victim_block_addr |-> Unset]
    /\ UNCHANGED <<miss_count, eviction_count>>

Miss(a) ==
    /\ ~probe_cache(a)
    /\ Invalid(cache_set(a)) # {}
    /\ AdvanceClock(a)
    /\ insert_cacheline(a, Now(a))
    /\ miss_count' = Inc(miss_count)
    /\ r' = [status |-> "CACHE_MISS", insert_block_addr |-> address_to_block(a),
             victim_block_addr |-> Unset]
    /\ UNCHANGED <<hit_count, eviction_count>>

\* Fault: an eviction is not counted as a miss.
Evict_MissNotCounted(a) ==
    /\ ~probe_cache(a)
    /\ Invalid(cache_set(a)) = {}
    /\ AdvanceClock(a)
    /\ LET victim == victim_cacheline(cache_set(a)) IN
       /\ replace_cacheline(victim, a, Now(a))
       /\ r' = [status |-> "CACHE_EVICT", insert_block_addr |-> address_to_block(a),
                victim_block_addr |-> victim]
    /\ eviction_count' = Inc(eviction_count)
    /\ UNCHANGED <<hit_count, miss_count>>

Evict(a) ==
    /\ ~probe_cache(a)
    /\ Invalid(cache_set(a)) = {}
    /\ AdvanceClock(a)
    /\ LET victim == victim_cacheline(cache_set(a)) IN
       /\ replace_cacheline(victim, a, Now(a))
       /\ r' = [status |-> "CACHE_EVICT", insert_block_addr |-> address_to_block(a),
                victim_block_addr |-> victim]
    /\ eviction_count' = Inc(eviction_count)
    /\ miss_count' = Inc(miss_count)
    /\ UNCHANGED hit_count

operateCache(a) == Hit(a) \/ Miss(a) \/ Evict(a)

-----------------------------------------------------------------------------
\* Fault: the loop over the sets runs once too often.
cacheSetUp_OneSetTooMany ==
    /\ lines = [s \in 0 .. Pow2[setBits] |-> [i \in LineIndex |->
                   [valid |-> FALSE, tag |-> 0, block_addr |-> 0,
                    lru_clock |-> 0, access_counter |-> 0]]]
    /\ lru_clock = [s \in 0 .. Pow2[setBits] |-> 0]
    /\ hit_count = 0
    /\ miss_count = 0
    /\ eviction_count = 0

cacheSetUp ==
    /\ lines = [s \in SetIndex |-> [i \in LineIndex |->
                   [valid |-> FALSE, tag |-> 0, block_addr |-> 0,
                    lru_clock |-> 0, access_counter |-> 0]]]
    /\ lru_clock = [s \in SetIndex |-> 0]
    /\ hit_count = 0
    /\ miss_count = 0
    /\ eviction_count = 0

Init ==
    /\ cacheSetUp
    /\ r = [status |-> "none", insert_block_addr |-> Unset, victim_block_addr |-> Unset]

\* Every access is counted once as a hit or once as a miss.
accesses == hit_count + miss_count

Next == accesses < MaxAccesses /\ \E a \in Addrs : operateCache(a)

Spec == Init /\ [][Next]_vars

-----------------------------------------------------------------------------
(* Properties.  All of them suppose that no counter overflows: the proofs  *)
(* assume MaxAccesses <= IntMax, and a run of its own shows what happens    *)
(* beyond.                                                                 *)

TypeOK ==
    /\ lines \in [SetIndex -> [LineIndex -> Line]]
    /\ lru_clock \in [SetIndex -> CInt]
    /\ hit_count \in CInt
    /\ miss_count \in CInt
    /\ eviction_count \in CInt
    /\ r \in result

\* A valid line holds an aligned block of the set it lies in, and its tag is
\* that block's: probing by tag (cache.c:104) and replacing by block address
\* (cache.c:208) speak of the same line.
TagsMatchBlocks ==
    \A s \in SetIndex : \A i \in Valid(s) :
        LET l == lines[s][i] IN
        /\ address_to_block(l.block_addr) = l.block_addr
        /\ cache_set(l.block_addr) = s
        /\ cache_tag(l.block_addr) = l.tag

\* No block is held twice: hit_cacheline and replace_cacheline touch only the
\* first line that matches, so that a second copy would age unseen.
NoBlockTwice ==
    \A s \in SetIndex : \A i, j \in Valid(s) :
        lines[s][i].tag = lines[s][j].tag => i = j

\* The clocks of the valid lines of a set are distinct and none lies in the
\* future, so that "least recently used" names one line (cache.c:172).
ClocksOrderLines ==
    \A s \in SetIndex : \A i \in Valid(s) :
        /\ lines[s][i].lru_clock \in 1 .. lru_clock[s]
        /\ \A j \in Valid(s) :
              lines[s][i].lru_clock = lines[s][j].lru_clock => i = j

\* The statistics printed at exit add up: every access of every set is a hit
\* or a miss, and every miss that evicted nothing filled a line.
StatisticsAddUp ==
    LET ValidLines == {p \in SetIndex \X LineIndex : lines[p[1]][p[2]].valid}
        Total[n \in 0 .. Pow2[setBits]] ==
            IF n = 0 THEN 0 ELSE Total[n - 1] + lru_clock[n - 1]
    IN  /\ hit_count + miss_count = Total[Pow2[setBits]]
        /\ miss_count = eviction_count + Cardinality(ValidLines)

\* What an access leaves behind: the block accessed is resident, the block
\* reported as victim is not, and it was before; nothing else comes or goes.
Resident(s) == {lines[s][i].block_addr : i \in Valid(s)}

AccessMovesOneBlock ==
    [][\A a \in Addrs : operateCache(a) =>
         LET s == cache_set(a)
             gone == (UNION {Resident(t) : t \in SetIndex})
                         \ (UNION {Resident(t)' : t \in SetIndex})
             come == (UNION {Resident(t)' : t \in SetIndex})
                         \ (UNION {Resident(t) : t \in SetIndex})
         IN  /\ address_to_block(a) \in Resident(s)'
             /\ gone = {r'.victim_block_addr} \ {Unset}
             /\ come = {r'.insert_block_addr} \ {Unset}]_vars

\* An eviction takes, among all the lines of its set, one that the policy
\* ranks last: the scan of cache.c:166-195 starts from line 0 and moves on only
\* to a line that is strictly worse.
RanksLast(l, m) ==
    \/ lfu = 0 /\ l.lru_clock <= m.lru_clock
    \/ lfu = 1 /\ l.access_counter < m.access_counter
    \/ /\ lfu = 1
       /\ l.access_counter = m.access_counter
       /\ l.lru_clock <= m.lru_clock

EvictsByPolicy ==
    [][\A a \in Addrs : Evict(a) =>
         LET s == cache_set(a) IN
         \E v \in LineIndex :
            /\ lines[s][v].block_addr = r'.victim_block_addr
            /\ \A i \in LineIndex : RanksLast(lines[s][v], lines[s][i])]_vars

\* With more than one line in a set, the block that came in with the last
\* access is not the next to go (cache.c:161-163: the least recently used goes).
NewestSurvives ==
    [][linesPerSet > 1 /\ r'.victim_block_addr # Unset
          => r'.victim_block_addr # r.insert_block_addr]_vars

=============================================================================
