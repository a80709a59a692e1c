-------------------------- MODULE ReplacementPolicy --------------------------
(***************************************************************************)
(* What the comments of cache.c promise of the cache, with no lines, tags, *)
(* clocks or valid bits: each set remembers its blocks in the order of     *)
(* their last use and how often each was used since it came in, and makes  *)
(* room by giving up the block its policy names.                           *)
(***************************************************************************)
EXTENDS Integers, Sequences, SequencesExt

CONSTANTS
    Blocks,         \* the blocks accessed
    Sets,           \* the sets of the cache
    Home,           \* the set each block belongs to, in [Blocks -> Sets]
    Ways,           \* how many blocks a set holds
    Policy,         \* "LRU" or "LFU"
    MaxAccesses     \* bound: the number of accesses a behaviour makes

VARIABLES
    recency,        \* by set: its blocks, the one used longest ago first
    uses,           \* by block: its uses since it came in, 0 when not resident
    hits, misses, evictions,
    outcome         \* what the last access did, and the block that had to go

vars == <<recency, uses, hits, misses, evictions, outcome>>

NoBlock == -1

Resident(b) == b \in ToSet(recency[Home[b]])

\* The position in the set of the block to give up.  LFU prefers the block
\* used longest ago among those used least.
LeastUsed(s) ==
    CHOOSE i \in DOMAIN recency[s] :
        \A j \in DOMAIN recency[s] :
            \/ uses[recency[s][i]] < uses[recency[s][j]]
            \/ uses[recency[s][i]] = uses[recency[s][j]] /\ i <= j

VictimPosition(s) == IF Policy = "LRU" THEN 1 ELSE LeastUsed(s)

-----------------------------------------------------------------------------
Init ==
    /\ recency = [s \in Sets |-> <<>>]
    /\ uses = [b \in Blocks |-> 0]
    /\ hits = 0 /\ misses = 0 /\ evictions = 0
    /\ outcome = [kind |-> "none", victim |-> NoBlock]

Hit(b) ==
    /\ Resident(b)
    /\ recency' = [recency EXCEPT ![Home[b]] = Append(RemoveFirst(@, b), b)]
    /\ uses' = [uses EXCEPT ![b] = @ + 1]
    /\ hits' = hits + 1
    /\ outcome' = [kind |-> "hit", victim |-> NoBlock]
    /\ UNCHANGED <<misses, evictions>>

Fill(b) ==
    /\ ~Resident(b)
    /\ Len(recency[Home[b]]) < Ways
    /\ recency' = [recency EXCEPT ![Home[b]] = Append(@, b)]
    /\ uses' = [uses EXCEPT ![b] = 1]
    /\ misses' = misses + 1
    /\ outcome' = [kind |-> "miss", victim |-> NoBlock]
    /\ UNCHANGED <<hits, evictions>>

Replace(b) ==
    /\ ~Resident(b)
    /\ Len(recency[Home[b]]) = Ways
    /\ LET i == VictimPosition(Home[b])
           v == recency[Home[b]][i]
       IN  /\ recency' = [recency EXCEPT ![Home[b]] = Append(RemoveAt(@, i), b)]
           /\ uses' = [uses EXCEPT ![v] = 0, ![b] = 1]
           /\ outcome' = [kind |-> "evict", victim |-> v]
    /\ misses' = misses + 1
    /\ evictions' = evictions + 1
    /\ UNCHANGED hits

Access(b) == Hit(b) \/ Fill(b) \/ Replace(b)

Next == hits + misses < MaxAccesses /\ \E b \in Blocks : Access(b)

Spec == Init /\ [][Next]_vars

=============================================================================
