--------------------------- MODULE CacheRefinement ---------------------------
(***************************************************************************)
(* The cache of cache.c implements the replacement policy its comments     *)
(* describe: the order in which the clocks of the lines put the blocks of  *)
(* a set is the order of their last use, and the access counters count the *)
(* uses since the block came in.                                           *)
(***************************************************************************)
EXTENDS Cache, SequencesExt

\* cache.h:28 and cache.c:170, 179.
PolicyName == IF lfu = 0 THEN "LRU" ELSE "LFU"

BlocksAccessed == {address_to_block(a) : a \in Addrs}

HomeSet == [b \in BlocksAccessed |-> cache_set(b)]

\* q is a list of lines of the set s in the order of their clocks.
Aged(s, q) ==
    \A m, n \in DOMAIN q : m < n => lines[s][q[m]].lru_clock < lines[s][q[n]].lru_clock

AgeOrder(s) == CHOOSE q \in [1 .. Cardinality(Valid(s)) -> Valid(s)] : Aged(s, q)

ByLastUse(s) ==
    LET order == AgeOrder(s)
    IN  [n \in DOMAIN order |-> lines[s][order[n]].block_addr]

UsesOf(b) ==
    LET s == cache_set(b) IN
    IF Holding(s, b) = {} THEN 0
    ELSE lines[s][CHOOSE i \in Holding(s, b) : TRUE].access_counter

Kind == [none |-> "none", CACHE_HIT |-> "hit",
         CACHE_MISS |-> "miss", CACHE_EVICT |-> "evict"]

Policy == INSTANCE ReplacementPolicy WITH
    Blocks      <- BlocksAccessed,
    Sets        <- SetIndex,
    Home        <- HomeSet,
    Ways        <- linesPerSet,
    Policy      <- PolicyName,
    recency     <- [s \in SetIndex |-> ByLastUse(s)],
    uses        <- [b \in BlocksAccessed |-> UsesOf(b)],
    hits        <- hit_count,
    misses      <- miss_count,
    evictions   <- eviction_count,
    outcome     <- [kind |-> Kind[r.status], victim |-> r.victim_block_addr]

\* Every behaviour of the cache is one of the replacement policy: operateCache
\* hits exactly the resident blocks, gives up the least recently used block
\* under LRU and the least frequently used one under LFU (the older of equals),
\* and reports what it did.
ImplementsPolicy == Policy!Spec

=============================================================================
