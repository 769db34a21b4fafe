---------------------------- MODULE SchedulerLoop ----------------------------
(***************************************************************************)
(* One scheduler under the loop of its engine: schedule(), the forward     *)
(* pass, on_step_complete() for every item of it, while clients add and    *)
(* cancel requests between any two of these.                               *)
(*                                                                         *)
(* The history variable kv records the token run whose KV cache each       *)
(* physical block holds; it outlives the block's owners.  calm is TRUE     *)
(* until blocks whose prefill has not run go into the tree: those of a     *)
(* cancelled sequence, or of one whose token limit is reached before its   *)
(* last chunk, since every chunk counts as a generated token.              *)
(***************************************************************************)
EXTENDS Scheduler, FiniteSets

CONSTANTS
    Kinds,          \* the requests that may come: prompt and max_tokens
    MaxRequests,    \* bound of the model: requests
    MaxClock        \* bound of the model: prefix-cache operations

ASSUME LoopAssumption ==
    /\ MaxNumSeqs \in Nat \ {0} /\ MaxBatchedTokens \in Nat \ {0}
    /\ ChunkSize \in Nat \ {0}

VARIABLES
    sched,
    turn,       \* what the loop does next: "schedule" or "forward"
    work,       \* the schedule the engine executes
    kv, calm

vars == <<sched, turn, work, kv, calm>>

NoWork == [prefill |-> <<>>, decode |-> <<>>]

(* The requests of the runs: blocks of two tokens, two prompts that share a *)
(* whole block, and with a limit of three tokens and a budget of three a    *)
(* prompt of four that is not cached is too large.                          *)
MCKinds ==
    {[prompt |-> <<0, 0>>, max_tokens |-> 2], [prompt |-> <<0, 0, 1, 1>>, max_tokens |-> 3]}
        \cup [prompt : {<<2, 2, 2, 2>>}, max_tokens : {2, 3}]

MCKindsReuse == [prompt : {<<0, 0>>, <<0, 0, 1, 1>>, <<2, 2, 2, 2>>}, max_tokens : {2}]

Upto(p, i) == Take(p, i * BlockSize)

Init ==
    /\ sched = NewScheduler
    /\ turn = "schedule"
    /\ work = NoWork
    /\ kv = [b \in Blocks |-> <<>>]
    /\ calm = TRUE

Request(kind) ==
    /\ IsUp(sched) /\ sched.next_seq_id <= MaxRequests
    /\ sched' = AddRequest(sched, kind.prompt, kind.max_tokens)
    /\ UNCHANGED <<turn, work, kv, calm>>

\* A sequence is retired with part of its prompt not prefilled.
EndsEarly ==
    \E i \in DOMAIN sched.running :
        IsDone(sched.running[i]) /\ sched.running[i].num_prefilled < Len(sched.running[i].prompt)

Plan ==
    /\ IsUp(sched) /\ turn = "schedule" /\ sched.clock <= MaxClock
    /\ turn' = "forward"
    /\ LET result == Schedule(sched)
       IN /\ sched' = result.s
          /\ work' = [prefill |-> result.prefill, decode |-> result.decode]
    /\ calm' = (calm /\ ~EndsEarly)
    /\ UNCHANGED kv

\* The blocks that a prefill step completes, with the run they now hold.
Written(step) ==
    UNION {{[block |-> sched.running[i].blocks[j], run |-> Upto(sched.running[i].prompt, j)]
            : j \in {k \in 1..Len(sched.running[i].blocks) :
                        /\ k * BlockSize > step.upto - step.tokens
                        /\ k * BlockSize <= step.upto}}
           : i \in {k \in DOMAIN sched.running : sched.running[k].id = step.id}}

\* The forward pass of the whole batch, then on_step_complete for its items.
\* A sequence that was cancelled meanwhile has no blocks to write.  An empty
\* schedule is skipped.
Forward ==
    LET written == UNION {Written(work.prefill[i]) : i \in DOMAIN work.prefill}
    IN /\ IsUp(sched) /\ turn = "forward"
       /\ turn' = "schedule"
       /\ kv' = [b \in Blocks |->
                    IF \E w \in written : w.block = b
                    THEN (CHOOSE w \in written : w.block = b).run ELSE kv[b]]
       /\ sched' = FoldLeft(OnStepComplete, sched, Ids(work.prefill) \o work.decode)
       /\ work' = NoWork
       /\ UNCHANGED calm

CancelRunning(id) ==
    /\ IsUp(sched) /\ sched.clock <= MaxClock
    /\ \E i \in DOMAIN sched.running : sched.running[i].id = id
    /\ sched' = Cancel(sched, id)
    /\ calm' = FALSE
    /\ UNCHANGED <<turn, work, kv>>

Next ==
    \/ \E kind \in Kinds : Request(kind)
    \/ Plan
    \/ Forward
    \/ \E id \in 1..MaxRequests : CancelRunning(id)

Spec == Init /\ [][Next]_vars

\* The loop thread runs until the engine is dropped: it never stops between
\* two of its steps.  This is weak fairness of Plan and Forward, which always
\* change turn, with their enabling conditions written out.
CanPlan == IsUp(sched) /\ turn = "schedule" /\ sched.clock <= MaxClock

FairSpec ==
    /\ Spec
    /\ []<>~CanPlan \/ []<><<Plan>>_vars
    /\ []<>(turn = "schedule" \/ ~IsUp(sched)) \/ []<><<Forward>>_vars

-----------------------------------------------------------------------------
Live == UNION {ToSet(sched.running[i].blocks) : i \in DOMAIN sched.running}

\* The blocks of the tree with the token runs they stand for.
RECURSIVE Stored(_, _)
Stored(node, prefix) ==
    UNION {LET kid == node.kids[t]
           IN {[block |-> kid.blocks[i], run |-> prefix \o Upto(kid.tokens, i)]
                : i \in 1..Len(kid.blocks)} \cup Stored(kid, prefix \o kid.tokens)
           : t \in DOMAIN node.kids}

\* No block belongs to two running sequences, to one sequence twice, or to a
\* sequence while it is free: admission, eviction under pressure and promotion
\* to the cache never hand a block to a second owner.
OneOwner ==
    IsUp(sched) =>
        /\ Live \cap ToSet(sched.pool.free) = {}
        /\ \A i, j \in DOMAIN sched.running :
            \A k \in 1..Len(sched.running[i].blocks), l \in 1..Len(sched.running[j].blocks) :
                sched.running[i].blocks[k] = sched.running[j].blocks[l] =>
                    i = j /\ k = l

\* Blocks in the tree are pinned or referenced, so that "the clock-sweep
\* evictor can never recycle them out from under the cache"
\* (scheduler.rs:193), and never free.
TreeBlocksProtected ==
    IsUp(sched) =>
        \A b \in StoredBlocks(sched.root) :
            /\ sched.pool.pinned[b] \/ sched.pool.ref[b] > 0
            /\ b \notin ToSet(sched.pool.free)

\* What a sequence counts as prefilled, by itself or by an earlier sequence,
\* has been computed for exactly its prompt.  A cancelled sequence, and one that
\* ends before its last chunk, leave blocks in the tree whose prefill has not
\* run, so this is said of calm behaviours only.
PrefilledIsComputed ==
    IsUp(sched) /\ calm /\ turn = "schedule" =>
        \A i \in DOMAIN sched.running :
            LET seq == sched.running[i]
            IN \A j \in 1..(seq.num_prefilled \div BlockSize) :
                kv[seq.blocks[j]] = Upto(seq.prompt, j)

\* radix_cache.rs:25 "Edge label: KV-covered tokens for this node": the KV
\* cache of every stored block has been computed for its path, again in calm
\* behaviours.
TreeIsKvCovered ==
    IsUp(sched) /\ calm /\ turn = "schedule" =>
        \A e \in Stored(sched.root, <<>>) : kv[e.block] = e.run

SumTokens(steps) == FoldLeft(LAMBDA n, step : n + step.tokens, 0, steps)

\* scheduler.rs:33 "Maximum number of tokens processed in a single forward pass
\* (prefill tokens + decode sequences count toward this budget)".
WithinBudget ==
    /\ SumTokens(work.prefill) + Len(work.decode) <= MaxBatchedTokens
    /\ Len(sched.running) <= MaxNumSeqs

\* Admission, chunked prefill, decoding, eviction and promotion together keep
\* blocks with their owners, the tree covered and the budget respected.
ScheduleIsSound ==
    OneOwner /\ TreeBlocksProtected /\ WithinBudget /\ PrefilledIsComputed /\ TreeIsKvCovered

\* Blocks that are neither free, nor cached, nor a running sequence's: those of
\* a refused admission, which keeps what it took, and those of a sequence whose
\* prompt another one had put into the tree first.
Lost ==
    Blocks \ (ToSet(sched.pool.free) \cup StoredBlocks(sched.root) \cup Live)

\* The request at the head of the queue needs more blocks than are not lost.
Starved ==
    /\ sched.waiting # <<>>
    /\ Cardinality(Blocks \ Lost) < CeilDiv(Len(Head(sched.waiting).prompt), BlockSize)

\* It is estimated at more than two batches: nothing is admitted until so much
\* of its prompt is cached that it is not.
HeadTooLarge ==
    /\ sched.waiting # <<>>
    /\ LET req == Head(sched.waiting)
       IN Len(req.prompt) - PrefixLookup(sched, req.prompt).n + req.max_tokens
              > 2 * MaxBatchedTokens

HasLeft(id) == \A seq \in ToSet(sched.running) \cup ToSet(sched.waiting) : seq.id # id

Waits(id) == \E seq \in ToSet(sched.waiting) : seq.id = id

\* Every sequence is admitted, prefilled and finished in the end, unless the
\* process aborts.  Only a waiting one may be left behind, and only if for ever
\* the head of the queue is too large, or blocks have been lost and what is
\* left of the pool cannot hold it.
SequencesFinish ==
    \A id \in 1..MaxRequests :
        id < sched.next_seq_id ~>
            \/ ~IsUp(sched) \/ HasLeft(id)
            \/ [](Waits(id) /\ (HeadTooLarge \/ Starved))

-----------------------------------------------------------------------------
\* scheduler.rs:217 "Admission only reuses a block when its live-ref is 0":
\* reclaim never meets a block in use.
ReuseIsExclusive == IsUp(sched)
==============================================================================
