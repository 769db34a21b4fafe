------------------------------- MODULE KvPool -------------------------------
(***************************************************************************)
(* KvBlockPool (justapi-inference/src/kv_cache.rs) as operators on a pool  *)
(* value: reference counts, pins, the free stack, the clock hand and the   *)
(* two counters.  The content hash is left out, its only user passes 0.    *)
(*                                                                         *)
(* An assert that fails aborts the process; ok is FALSE from then on.      *)
(* debug_assert is not part of a release build.                            *)
(***************************************************************************)
EXTENDS Naturals, Sequences, SequencesExt

CONSTANT Capacity   \* blocks of the pool

ASSUME CapacityAssumption == Capacity \in Nat \ {0}

Blocks == 0..(Capacity - 1)

\* KvBlockPool::new; block 0 is on top of the free stack.
NewPool ==
    [ref |-> [b \in Blocks |-> 0], pinned |-> [b \in Blocks |-> FALSE],
     free |-> [i \in 1..Capacity |-> Capacity - i], hand |-> 0,
     allocated |-> 0, cached |-> 0, ok |-> TRUE]

SaturatingPred(n) == IF n = 0 THEN 0 ELSE n - 1

Assert_(pool, condition) == [pool EXCEPT !.ok = @ /\ condition]

Retain(pool, b) ==
    Assert_([pool EXCEPT !.ref[b] = @ + 1], pool.ref[b] > 0)

Reclaim(pool, b) ==
    Assert_([pool EXCEPT !.ref[b] = 1, !.cached = SaturatingPred(@)],
            pool.ref[b] = 0)

Release(pool, b) ==
    Assert_([pool EXCEPT !.ref[b] = SaturatingPred(@),
                         !.cached = IF pool.ref[b] <= 1 THEN @ + 1 ELSE @],
            pool.ref[b] > 0)

FreeCached(pool, b) ==
    Assert_([pool EXCEPT !.pinned[b] = FALSE, !.cached = SaturatingPred(@),
                         !.free = Append(@, b)],
            pool.ref[b] = 0)

Pin(pool, b)   == [pool EXCEPT !.pinned[b] = TRUE]
Unpin(pool, b) == [pool EXCEPT !.pinned[b] = FALSE]

\* Mutant: pins are ignored.
EvictableUnreferenced(pool) == {b \in Blocks : pool.ref[b] = 0}

Evictable(pool) == {b \in Blocks : pool.ref[b] = 0 /\ ~pool.pinned[b]}

\* Distance of block b from the clock hand.
Ahead(pool, b) == (b + Capacity - pool.hand) % Capacity

\* Mutant: the sweep ends one block early.
EvictOneShort(pool) ==
    LET swept == {b \in Evictable(pool) : Ahead(pool, b) < Capacity - 1}
    IN IF swept = {} THEN [pool |-> pool, got |-> FALSE, block |-> 0]
       ELSE LET victim == CHOOSE b \in swept :
                           \A c \in swept : Ahead(pool, b) <= Ahead(pool, c)
            IN [pool |-> [pool EXCEPT !.hand = (victim + 1) % Capacity,
                                      !.free = Append(@, victim),
                                      !.allocated = SaturatingPred(@),
                                      !.cached = SaturatingPred(@)],
                got |-> TRUE, block |-> victim]

\* The victim goes onto the free stack; without a victim nothing changes, the
\* hand is back where it was.
EvictOne(pool) ==
    IF Evictable(pool) = {} THEN [pool |-> pool, got |-> FALSE, block |-> 0]
    ELSE LET victim == CHOOSE b \in Evictable(pool) :
                        \A c \in Evictable(pool) : Ahead(pool, b) <= Ahead(pool, c)
         IN [pool |-> [pool EXCEPT !.hand = (victim + 1) % Capacity,
                                   !.free = Append(@, victim),
                                   !.allocated = SaturatingPred(@),
                                   !.cached = SaturatingPred(@)],
             got |-> TRUE, block |-> victim]

Hand(pool, b) == [pool EXCEPT !.ref[b] = 1, !.allocated = @ + 1]

\* Mutant: the block stays on the free stack.
AllocPeek(pool) ==
    IF pool.free # <<>>
    THEN [pool |-> Hand(pool, Last(pool.free)), got |-> TRUE,
          block |-> Last(pool.free)]
    ELSE LET evicted == EvictOne(pool)
         IN IF ~evicted.got THEN evicted
            ELSE [evicted EXCEPT !.pool = Hand(@, evicted.block)]

\* The top of the free stack, or the victim of an eviction, which stays on
\* the stack as well.
Alloc(pool) ==
    IF pool.free # <<>>
    THEN [pool |-> [Hand(pool, Last(pool.free)) EXCEPT !.free = Front(@)],
          got |-> TRUE, block |-> Last(pool.free)]
    ELSE LET evicted == EvictOne(pool)
         IN IF ~evicted.got THEN evicted
            ELSE [evicted EXCEPT !.pool = Hand(@, evicted.block)]

\* evict(n); once there is no victim, nothing changes any more.
EvictMany(pool, n) ==
    FoldLeft(LAMBDA p, i : EvictOne(p).pool, pool, [i \in 1..n |-> i])
=============================================================================
