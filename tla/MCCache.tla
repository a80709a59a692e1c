------------------------------ MODULE MCCache -------------------------------
(***************************************************************************)
(* Two experiments in one state graph, of which a behaviour makes one: a   *)
(* pair of LRU caches on the same accesses (module CacheInclusion, whose   *)
(* smaller cache is the one of the other modules), or a fully associative  *)
(* cache with lfu = 1.                                                     *)
(***************************************************************************)
EXTENDS CacheInclusion

VARIABLES lines3, clock3, hits3, misses3, evictions3, r3

\* Three lines, four blocks; the address 7 is inside one of them.
Frequent == INSTANCE CacheRefinement WITH
    setBits <- 0, linesPerSet <- 3, lfu <- 1, Addrs <- {0, 2, 4, 6, 7}, MaxAccesses <- 8,
    lines <- lines3, lru_clock <- clock3, hit_count <- hits3,
    miss_count <- misses3, eviction_count <- evictions3, r <- r3

vars3 == <<lines3, clock3, hits3, misses3, evictions3, r3>>

MCInit == PairInit /\ Frequent!Init

MCNext ==
    \/ PairNext /\ Frequent!accesses = 0 /\ UNCHANGED vars3
    \/ Frequent!Next /\ accesses = 0 /\ UNCHANGED bothVars

MCSpec == MCInit /\ [][MCNext]_<<bothVars, vars3>>

\* With lfu = 1 every access is one of the LFU policy of the comments: the block
\* used least often goes, and of those the one used least recently (cache.c:179-193).
LfuImplementsPolicy == Frequent!ImplementsPolicy

\* With lfu = 1 the scan returns a line that the policy ranks last (cache.c:179-193).
LfuEvictsByPolicy == Frequent!EvictsByPolicy

=============================================================================
