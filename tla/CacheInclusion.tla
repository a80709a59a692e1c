--------------------------- MODULE CacheInclusion ---------------------------
(***************************************************************************)
(* Two caches of cache.c that differ only in their associativity, given    *)
(* the same accesses: what a cache gains from more lines per set.  The     *)
(* smaller one is that of modules Cache and CacheRefinement.               *)
(***************************************************************************)
EXTENDS CacheRefinement

CONSTANT moreLines      \* linesPerSet of the larger cache

ASSUME AssociativityAssumption == moreLines \in Nat /\ linesPerSet <= moreLines

VARIABLES lines2, clock2, hits2, misses2, evictions2, r2

Large == INSTANCE Cache WITH
    linesPerSet <- moreLines, lines <- lines2, lru_clock <- clock2,
    hit_count <- hits2, miss_count <- misses2, eviction_count <- evictions2, r <- r2

vars2 == <<lines2, clock2, hits2, misses2, evictions2, r2>>

bothVars == <<vars, vars2>>

PairInit == Init /\ Large!Init

AccessBoth(a) == operateCache(a) /\ Large!operateCache(a)

PairNext == accesses < MaxAccesses /\ \E a \in Addrs : AccessBoth(a)

PairSpec == PairInit /\ [][PairNext]_bothVars

\* Under LRU a set with more lines holds everything the smaller one holds, so
\* that it never misses where the smaller one hits (cache.c:170-177).
LargerIncludesSmaller ==
    /\ \A s \in SetIndex : Resident(s) \subseteq Large!Resident(s)
    /\ hit_count <= hits2
    /\ evictions2 <= eviction_count

=============================================================================
