----------------------------- MODULE KvBlockPool -----------------------------
(***************************************************************************)
(* The KV block pool under the calls its users make: blocks are allocated, *)
(* shared, released into a prefix cache, adopted from it again, and freed  *)
(* from it; pins and the clock sweep run in between.                       *)
(*                                                                         *)
(* The history variables held and tracked are the users' side: how many    *)
(* references to a block have been given out and not released, and which   *)
(* released blocks a prefix cache still lists.  Nobody tells the prefix    *)
(* cache about a block the sweep takes, and swept records that it took one.*)
(***************************************************************************)
EXTENDS KvPool, FiniteSets

CONSTANTS
    MaxCount,   \* bound of the model on the two counters
    MaxHeld     \* bound of the model on the references to one block

VARIABLES
    pool,
    held,       \* held[b]: references to b that are out
    tracked,    \* released blocks listed in a prefix cache
    denied,     \* the last step was an alloc that returned None
    swept       \* history: the clock sweep has evicted a block

vars == <<pool, held, tracked, denied, swept>>

Init ==
    /\ pool = NewPool
    /\ held = [b \in Blocks |-> 0]
    /\ tracked = {}
    /\ denied = FALSE
    /\ swept = FALSE

\* No assertion has failed; the rest bounds the model.
Up ==
    /\ pool.ok
    /\ pool.allocated <= MaxCount
    /\ pool.cached <= MaxCount
    /\ Len(pool.free) <= Capacity
    /\ \A b \in Blocks : held[b] <= MaxHeld

\* Sequence::grow
Grow ==
    LET answer == Alloc(pool)
    IN /\ Up
       /\ pool' = answer.pool
       /\ denied' = ~answer.got
       /\ held' = IF answer.got THEN [held EXCEPT ![answer.block] = @ + 1] ELSE held
       /\ swept' = (swept \/ (pool.free = <<>> /\ answer.got))
       /\ UNCHANGED tracked

Share(b) ==
    /\ Up /\ held[b] > 0
    /\ pool' = Retain(pool, b)
    /\ held' = [held EXCEPT ![b] = @ + 1]
    /\ denied' = FALSE
    /\ UNCHANGED <<tracked, swept>>

\* The last reference leaves the block in the cache, pinned if the user, like
\* the scheduler, wants it to stay.
Drop(b, pin) ==
    /\ Up /\ held[b] > 0
    /\ pool' = IF pin /\ held[b] = 1 THEN Pin(Release(pool, b), b) ELSE Release(pool, b)
    /\ held' = [held EXCEPT ![b] = @ - 1]
    /\ tracked' = IF held[b] = 1 THEN tracked \cup {b} ELSE tracked
    /\ denied' = FALSE
    /\ UNCHANGED swept

\* Sequence::restore_from_cache for one block.
Adopt(b) ==
    /\ Up /\ b \in tracked
    /\ pool' = Unpin(Reclaim(pool, b), b)
    /\ held' = [held EXCEPT ![b] = @ + 1]
    /\ tracked' = tracked \ {b}
    /\ denied' = FALSE
    /\ UNCHANGED swept

\* A block leaves the prefix cache for the free list.
GiveBack(b) ==
    /\ Up /\ b \in tracked
    /\ pool' = FreeCached(Unpin(pool, b), b)
    /\ tracked' = tracked \ {b}
    /\ denied' = FALSE
    /\ UNCHANGED <<held, swept>>

\* evict(n)
Sweep(n) ==
    /\ Up
    /\ pool' = EvictMany(pool, n)
    /\ denied' = FALSE
    /\ swept' = (swept \/ Evictable(pool) # {})
    /\ UNCHANGED <<held, tracked>>

Next ==
    \/ Grow
    \/ \E b \in Blocks :
        \/ Share(b) \/ Adopt(b) \/ GiveBack(b)
        \/ \E pin \in BOOLEAN : Drop(b, pin)
    \/ \E n \in 1..2 : Sweep(n)

Spec == Init /\ [][Next]_vars

-----------------------------------------------------------------------------
\* alloc refuses only when every block is pinned or in use (kv_cache.rs:151);
\* the sweep looks at all of them wherever the hand stands.
RefusedOnlyWhenBusy ==
    denied => \A b \in Blocks : pool.ref[b] > 0 \/ pool.pinned[b]

\* The sweep never takes a pinned block: it comes back to the free list only
\* through free_cached.
PinnedAreSpared ==
    \A b \in Blocks :
        pool.pinned[b] /\ b \notin ToSet(pool.free) /\ b \in ToSet(pool'.free)
            => tracked' = tracked \ {b} /\ b \in tracked

\* The three states of kv_cache.rs:13 exclude each other, whatever was
\* shared, cached and adopted, as long as the sweep has taken no block: the
\* reference count is the number of references that are out, a block on the
\* free list has none and is there once, and cached() counts the blocks
\* without a reference that are tracked.
\* alloc leaves the block that it evicts on the free list, so this ends with
\* the first sweep; the scheduler pins what it caches and sweeps nothing.
BlockStatesDisjoint ==
    ~swept =>
        /\ pool.ok
        /\ \A b \in Blocks :
            /\ pool.ref[b] = held[b]
            /\ b \in ToSet(pool.free) => held[b] = 0 /\ b \notin tracked
        /\ Len(pool.free) = Cardinality(ToSet(pool.free))
        /\ pool.cached = Cardinality(tracked)

\* No call on the pool, in any order, breaks one of the three.
PoolIsSound == PinnedAreSpared /\ RefusedOnlyWhenBusy' /\ BlockStatesDisjoint'
=============================================================================
