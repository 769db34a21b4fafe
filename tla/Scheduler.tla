------------------------------ MODULE Scheduler ------------------------------
(***************************************************************************)
(* The continuous-batching scheduler                                       *)
(* (justapi-inference/src/scheduler.rs) as operators on a scheduler value, *)
(* one operator per method, so that one scheduler and the pair of a        *)
(* disaggregated deployment share them.                                    *)
(*                                                                         *)
(* prefix_refs is a function on all blocks; an absent entry is 0.  A       *)
(* request carries no cached_blocks hint, as from SchedulerEngine.  A      *)
(* failed assertion of the pool stops the process, see KvPool.             *)
(***************************************************************************)
EXTENDS KvPool, RadixTree

CONSTANTS
    MaxNumSeqs,         \* max_num_seqs
    MaxBatchedTokens,   \* max_num_batched_tokens
    MaxSeqLen,          \* max_seq_len
    ChunkSize           \* chunked_prefill_size

NewScheduler ==
    [pool |-> NewPool, root |-> EmptyTree, clock |-> 0,
     prefix_refs |-> [b \in Blocks |-> 0],
     running |-> <<>>, waiting |-> <<>>, next_seq_id |-> 1]

IsUp(s) == s.pool.ok

CeilDiv(n, d) == (n + d - 1) \div d
AtMost(a, b) == IF a <= b THEN a ELSE b
Minus(a, b) == IF a >= b THEN a - b ELSE 0

AddRequest(s, prompt, max_tokens) ==
    [s EXCEPT !.next_seq_id = @ + 1,
              !.waiting = Append(@, [id |-> s.next_seq_id, prompt |-> prompt,
                                     max_tokens |-> max_tokens])]

-----------------------------------------------------------------------------
(* cache_completed *)

\* Mutant: the block is not pinned for the tree.
PromoteUnpinned(s, b) ==
    LET refs == Minus(s.prefix_refs[b], 1)
        kept == [s EXCEPT !.prefix_refs[b] = refs]
    IN IF refs = 0 THEN [kept EXCEPT !.pool = Release(@, b)] ELSE kept

\* The live reference is dropped; the last one pins the block for the tree.
Promote(s, b) ==
    LET refs == Minus(s.prefix_refs[b], 1)
        kept == [s EXCEPT !.prefix_refs[b] = refs]
    IN IF refs = 0 THEN [kept EXCEPT !.pool = Pin(Release(@, b), b)] ELSE kept

CacheCompleted(s, seq) ==
    LET n      == AtMost(Len(seq.prompt) \div BlockSize, Len(seq.blocks))
        blocks == Take(seq.blocks, n)
        stored == [s EXCEPT !.clock = @ + 1,
                            !.root = InsertNode(@, Take(seq.prompt, n * BlockSize),
                                                blocks, s.clock + 1)]
    IN IF n = 0 THEN s ELSE FoldLeft(Promote, stored, blocks)

IsDone(seq) == seq.num_generated >= seq.max_tokens \/ seq.num_tokens >= MaxSeqLen

\* Step 1 of schedule.
RetireFinished(s) ==
    LET Going(seq) == ~IsDone(seq)
    IN FoldLeft(CacheCompleted, [s EXCEPT !.running = SelectSeq(@, Going)],
                SelectSeq(s.running, IsDone))

-----------------------------------------------------------------------------
(* Step 2 of schedule: admission *)

Busy(s) == {b \in Blocks : s.prefix_refs[b] # 0}

FreeEvicted(s, b) ==
    [s EXCEPT !.pool = FreeCached(Unpin(@, b), b), !.prefix_refs[b] = 0]

EvictPrefixes(s, k) ==
    LET evicted == EvictFilter(s.root, k, Busy(s))
    IN FoldLeft(FreeEvicted, [s EXCEPT !.root = evicted.root], evicted.freed)

\* Sequence::grow for each of n blocks; a refused one is tried once more
\* after an eviction of k blocks.
RECURSIVE GrowTail(_, _, _, _)
GrowTail(s, blocks, n, k) ==
    IF n = 0 \/ ~IsUp(s) THEN [s |-> s, blocks |-> blocks, failed |-> FALSE]
    ELSE LET first   == Alloc(s.pool)
             evicted == EvictPrefixes([s EXCEPT !.pool = first.pool], k)
             tried   == IF first.got THEN [s EXCEPT !.pool = first.pool] ELSE evicted
             answer  == IF first.got THEN first ELSE Alloc(evicted.pool)
             grown   == [tried EXCEPT !.pool = answer.pool]
         IN IF ~answer.got THEN [s |-> grown, blocks |-> blocks, failed |-> TRUE]
            ELSE GrowTail(grown, Append(blocks, answer.block), n - 1, k)

\* restore_from_cache, then unpin and count the live reference.
Reuse(s, b) ==
    [s EXCEPT !.pool = Unpin(Reclaim(@, b), b), !.prefix_refs[b] = @ + 1]

\* Mutant: the new blocks count as prefilled, too.
StartPrefilled(req, found, blocks) ==
    [id |-> req.id, prompt |-> req.prompt, max_tokens |-> req.max_tokens,
     blocks |-> blocks, num_tokens |-> found.n, num_generated |-> 0,
     num_prefilled |-> Len(blocks) * BlockSize, state |-> "Decoding"]

\* The RunningSeq of an admitted request.  A match shorter than a block
\* restores nothing.
Start(req, found, blocks) ==
    LET prefilled == Len(found.blocks) * BlockSize
    IN [id |-> req.id, prompt |-> req.prompt, max_tokens |-> req.max_tokens,
        blocks |-> blocks, num_generated |-> 0,
        num_tokens |-> IF found.blocks = <<>> THEN 0 ELSE found.n,
        num_prefilled |-> prefilled,
        state |-> IF prefilled >= Len(req.prompt) THEN "Decoding" ELSE "Prefilling"]

\* A rejected or empty match is no match.
PrefixLookup(s, prompt) ==
    LET found == LookupNode(s.root, prompt, s.clock + 1)
    IN IF found.bad THEN Found(0, <<>>, TRUE, found.node) ELSE found

\* Mutant: a request may be no larger than one batch.
TooLargeForBatch(req, n) ==
    Minus(Len(req.prompt), n) + req.max_tokens > MaxBatchedTokens

TooLarge(req, n) ==
    Minus(Len(req.prompt), n) + req.max_tokens > 2 * MaxBatchedTokens

\* Admission ends at a full batch, an empty queue, a request that is too large
\* or one whose tail cannot be allocated, which returns to the front while
\* what it took stays taken.
RECURSIVE AdmitWaiting(_)
AdmitWaiting(s) ==
    IF Len(s.running) >= MaxNumSeqs \/ s.waiting = <<>> \/ ~IsUp(s) THEN s
    ELSE LET req     == Head(s.waiting)
             found   == PrefixLookup(s, req.prompt)
             touched == [s EXCEPT !.root = found.node, !.clock = @ + 1]
             popped  == [touched EXCEPT !.waiting = Tail(@)]
             tail    == Minus(CeilDiv(Len(req.prompt), BlockSize), Len(found.blocks))
             grown   == GrowTail(FoldLeft(Reuse, popped, found.blocks),
                                 found.blocks, tail, tail)
         IN IF TooLarge(req, found.n)
            THEN touched
            ELSE IF grown.failed
            THEN [grown.s EXCEPT !.waiting = <<req>> \o @]
            ELSE AdmitWaiting([grown.s EXCEPT
                    !.running = Append(@, Start(req, found, grown.blocks))])

-----------------------------------------------------------------------------
(* Step 3 of schedule: the work of one forward pass *)

IsDecoding(seq) == seq.state = "Decoding"

\* Mutant: the chunk is not limited by what is left of the budget.
ChunkOfPrompt(seq, budget) ==
    IF budget = 0 THEN 0 ELSE AtMost(Len(seq.prompt) - seq.num_prefilled, ChunkSize)

Chunk(seq, budget) ==
    AtMost(AtMost(Minus(Len(seq.prompt), seq.num_prefilled), ChunkSize), budget)

\* One sequence of the prefill loop; `over` is its break.
PlanPrefill(plan, seq) ==
    LET chunk == Chunk(seq, plan.budget)
        end   == seq.num_prefilled + chunk
        next  == [seq EXCEPT !.num_prefilled = end,
                             !.state = IF end >= Len(seq.prompt) THEN "Decoding" ELSE @]
    IN IF plan.over \/ IsDecoding(seq) THEN [plan EXCEPT !.running = Append(@, seq)]
       ELSE IF chunk = 0 /\ end < Len(seq.prompt)
       THEN [plan EXCEPT !.running = Append(@, seq), !.over = TRUE]
       ELSE [plan EXCEPT !.running = Append(@, next), !.budget = Minus(@, chunk),
                         !.prefill = IF chunk = 0 THEN @
                                     ELSE Append(@, [id |-> seq.id, upto |-> end,
                                                     tokens |-> chunk])]

Ids(seqs) == [i \in 1..Len(seqs) |-> seqs[i].id]

BuildSchedule(s) ==
    LET decode_tokens == AtMost(Len(SelectSeq(s.running, IsDecoding)), MaxBatchedTokens)
        plan == FoldLeft(PlanPrefill,
                         [running |-> <<>>, prefill |-> <<>>, over |-> FALSE,
                          budget |-> MaxBatchedTokens - decode_tokens], s.running)
        decoding == Ids(SelectSeq(plan.running, IsDecoding))
    IN [s |-> [s EXCEPT !.running = plan.running], prefill |-> plan.prefill,
        decode |-> Take(decoding, AtMost(Len(decoding), decode_tokens)),
        back_pressure |-> s.waiting # <<>>]

\* schedule(): the new scheduler and the work of the forward pass.
Schedule(s) == BuildSchedule(AdmitWaiting(RetireFinished(s)))

-----------------------------------------------------------------------------
OnStepComplete(s, id) ==
    [s EXCEPT !.running = [i \in DOMAIN @ |->
        IF @[i].id = id
        THEN [@[i] EXCEPT !.num_generated = @ + 1, !.num_tokens = @ + 1]
        ELSE @[i]]]

\* A waiting sequence is not found and stays.
Cancel(s, id) ==
    LET Is(seq) == seq.id = id
        IsNot(seq) == seq.id # id
    IN FoldLeft(CacheCompleted, [s EXCEPT !.running = SelectSeq(@, IsNot)],
                SelectSeq(s.running, Is))

-----------------------------------------------------------------------------
(* Disaggregated prefill and decode *)

IsPrefilled(seq) == IsDecoding(seq) /\ seq.num_prefilled >= Len(seq.prompt)

HandOver(s, b) ==
    [s EXCEPT !.pool = Release(@, b), !.prefix_refs[b] = 0]

ReleaseAll(s, seq) == FoldLeft(HandOver, s, seq.blocks)

\* take_completed_prefill(): what is left, and the transferable sequences.
TakeCompletedPrefill(s) ==
    LET Stays(seq) == ~IsPrefilled(seq)
    IN [s |-> FoldLeft(ReleaseAll, [s EXCEPT !.running = SelectSeq(@, Stays)],
                       SelectSeq(s.running, IsPrefilled)),
        out |-> SelectSeq(s.running, IsPrefilled)]

RECURSIVE GrowPlain(_, _, _)
GrowPlain(pool, blocks, n) ==
    LET answer == Alloc(pool)
    IN IF n = 0 THEN [pool |-> pool, blocks |-> blocks, failed |-> FALSE]
       ELSE IF ~answer.got THEN [pool |-> pool, blocks |-> blocks, failed |-> TRUE]
       ELSE GrowPlain(answer.pool, Append(blocks, answer.block), n - 1)

\* A transfer the pool cannot hold is dropped with the blocks it got.
AdmitTransferred(s, t) ==
    LET total == t.num_prefilled + t.num_generated
        grown == GrowPlain(s.pool, <<>>, CeilDiv(total, BlockSize))
        taken == [s EXCEPT !.next_seq_id = @ + 1, !.pool = grown.pool]
    IN IF grown.failed THEN taken
       ELSE [taken EXCEPT !.running = Append(@,
                [t EXCEPT !.id = s.next_seq_id, !.blocks = grown.blocks,
                          !.num_tokens = total, !.state = "Decoding"])]
=============================================================================
