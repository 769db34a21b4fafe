--------------------------- MODULE SchedulerEngine ---------------------------
(***************************************************************************)
(* The engine that serves requests through the scheduler                   *)
(* (justapi-inference/src/scheduler_engine.rs): generate() on client       *)
(* threads, which adds the request and then fills four maps one lock at a  *)
(* time, and the loop thread, which may schedule the sequence between any  *)
(* two of these.                                                           *)
(*                                                                         *)
(* senders, seq_model, seq_max_tokens and seq_params are written in this   *)
(* order and read together for one item of a batch, so that reg[id], the   *)
(* number of maps filled, stands for the four of them.  A request is       *)
(* greedy; without its params it is sampled like the default, at random:   *)
(* such a token is Unknown, and so is what the model makes of it.          *)
(***************************************************************************)
EXTENDS Scheduler, FiniteSets

CONSTANTS
    Asks,           \* what clients ask for: [prompt, max_tokens]
    Vocab,          \* vocab_size of the model
    MaxRequests,    \* bound of the model: requests
    MaxClock,       \* bound of the model: prefix-cache operations
    MaxFailures     \* bound of the model: items that fail

VARIABLES
    sched,      \* the scheduler behind its mutex
    reg,        \* how many of the four maps know the sequence
    context,    \* seq_context; no entry is <<>>
    stream,     \* what the channel of each request was sent
    open,       \* the requests whose sender exists
    loop,       \* the loop thread: where it is, and its locals
    alive,
    asked,      \* history: what each request asked for
    failures,
    seen        \* history: how the loop met each sequence in its first item:
                \* "late" before the maps were filled, "cached" without a
                \* prefill, otherwise "ontime"; "failed" once its model failed;
                \* "overtaken" when it was dropped before generate had
                \* registered its channel

history == <<asked, failures, seen>>
vars == <<sched, reg, context, stream, open, loop, alive, history>>

Requests == 1..MaxRequests
Maps == 4

Idle == [at |-> "before", before |-> {}, todo |-> <<>>, ran |-> <<>>]

Init ==
    /\ sched = NewScheduler
    /\ reg = [id \in Requests |-> 0]
    /\ context = [id \in Requests |-> <<>>]
    /\ stream = [id \in Requests |-> <<>>]
    /\ open = {}
    /\ loop = Idle
    /\ alive = TRUE
    /\ asked = <<>> /\ failures = 0
    /\ seen = [id \in Requests |-> "new"]

RunningIds == {sched.running[i].id : i \in DOMAIN sched.running}

-----------------------------------------------------------------------------
(* generate *)

Generate(ask) ==
    /\ alive /\ IsUp(sched) /\ sched.next_seq_id <= MaxRequests
    /\ sched' = AddRequest(sched, ask.prompt, ask.max_tokens)
    /\ open' = open \cup {sched.next_seq_id}
    /\ asked' = Append(asked, ask)
    /\ UNCHANGED <<reg, context, stream, loop, alive, failures, seen>>

\* One insert of the four.
CanInsert(id) == id < sched.next_seq_id /\ reg[id] < Maps /\ alive

Insert(id) ==
    /\ CanInsert(id)
    /\ reg' = [reg EXCEPT ![id] = @ + 1]
    /\ UNCHANGED <<sched, context, stream, open, loop, alive, history>>

DropEngine ==
    /\ alive /\ \A id \in Requests : id < sched.next_seq_id => reg[id] = Maps
    /\ alive' = FALSE
    /\ UNCHANGED <<sched, reg, context, stream, open, loop, history>>

-----------------------------------------------------------------------------
(* The loop thread *)

HasSender(id) == reg[id] >= 1 /\ id \in open
HasModel(id) == reg[id] >= 2
HasMax(id) == reg[id] >= 3
HasParams(id) == reg[id] >= 4

Unknown == Vocab

\* The peak of MockModel::forward_logits.
Peak(ctx) == IF Last(ctx) = Unknown THEN Unknown ELSE (Last(ctx) + 1) % Vocab
Sample(id, ctx) == IF HasParams(id) THEN Peak(ctx) ELSE Unknown

Generated(id) == (CHOOSE seq \in ToSet(sched.running) : seq.id = id).num_generated
Limit(id) == (CHOOSE seq \in ToSet(sched.running) : seq.id = id).max_tokens

IsSeqDone(id) == HasMax(id) /\ id \in RunningIds /\ Generated(id) >= Limit(id)

Delivered(id, token, done) ==
    IF HasSender(id) THEN [stream EXCEPT ![id] = Append(@, [id |-> token, fin |-> done])]
    ELSE stream

\* Mutant: the sender is kept when the sequence has left.
Forgotten_KeepSender(ids) == open

\* The senders that are left when `ids` are removed from the maps.
Forgotten(ids) == open \ {id \in ids : reg[id] >= 1}

LoopTop ==
    /\ loop.at = "before" /\ alive /\ IsUp(sched)
    /\ loop' = [loop EXCEPT !.at = "schedule", !.before = RunningIds]
    /\ UNCHANGED <<sched, reg, context, stream, open, alive, history>>

\* Dropping the maps with the last handle closes every channel.
LoopExits ==
    /\ loop.at = "before" /\ ~alive
    /\ loop' = [loop EXCEPT !.at = "exited"]
    /\ open' = {}
    /\ UNCHANGED <<sched, reg, context, stream, alive, history>>

\* The prompt tokens of a prefill step.
ChunkOf(running, step) ==
    LET seq == CHOOSE r \in ToSet(running) : r.id = step.id
    IN SubSeq(seq.prompt, step.upto - step.tokens + 1, step.upto)

\* schedule(): the items of the batch, prefill before decode.
Items(result) ==
    [i \in DOMAIN result.prefill |->
        [id |-> result.prefill[i].id, new |-> ChunkOf(result.s.running, result.prefill[i])]]
    \o [i \in DOMAIN result.decode |-> [id |-> result.decode[i], new |-> <<>>]]

Plan ==
    /\ loop.at = "schedule" /\ sched.clock <= MaxClock
    /\ \E result \in {Schedule(sched)} :
          /\ sched' = result.s
          /\ \E items \in {Items(result)} :
                loop' = [loop EXCEPT !.at = IF items = <<>> THEN "after" ELSE "run",
                                     !.todo = items, !.ran = Ids(items)]
    /\ UNCHANGED <<reg, context, stream, open, alive, history>>

\* forward_for_seq extends the context and leaves the sampled token out of it.
\* Mutant: nothing is delivered for a prefill.
RunPrefill_Silent(id, new) ==
    /\ context' = [context EXCEPT ![id] = @ \o new]
    /\ UNCHANGED stream

RunPrefill(id, new) ==
    /\ context' = [context EXCEPT ![id] = @ \o new]
    /\ stream' = Delivered(id, Sample(id, context[id] \o new), IsSeqDone(id))

\* Mutant: nor does a decode append its token.
RunDecode_Forgets(id) ==
    /\ stream' = Delivered(id, Sample(id, context[id]), IsSeqDone(id))
    /\ UNCHANGED context

\* forward_decode appends it.
RunDecode(id) ==
    /\ context' = [context EXCEPT ![id] = Append(@, Sample(id, @))]
    /\ stream' = Delivered(id, Sample(id, context[id]), IsSeqDone(id))

Skipped(item) == ~HasModel(item.id) \/ (item.new = <<>> /\ context[item.id] = <<>>)

\* One item: skipped without a model, and a decode without a context.
RunItem ==
    LET item == Head(loop.todo)
    IN /\ loop.at = "run" /\ loop.todo # <<>>
       /\ loop' = [loop EXCEPT !.todo = Tail(@)]
       /\ seen' = [seen EXCEPT ![item.id] =
              IF @ # "new" THEN @ ELSE IF reg[item.id] < Maps THEN "late"
              ELSE IF item.new = <<>> THEN "cached" ELSE "ontime"]
       /\ \/ Skipped(item) /\ UNCHANGED <<context, stream>>
          \/ ~Skipped(item) /\ item.new # <<>> /\ RunPrefill(item.id, item.new)
          \/ ~Skipped(item) /\ item.new = <<>> /\ RunDecode(item.id)
       /\ UNCHANGED <<sched, reg, open, alive, asked, failures>>

\* The model's error is taken for nothing to do: no token is delivered, and
\* the step counts all the same.
ItemFails ==
    LET item == Head(loop.todo)
    IN /\ loop.at = "run" /\ loop.todo # <<>> /\ ~Skipped(item)
       /\ failures < MaxFailures /\ failures' = failures + 1
       /\ loop' = [loop EXCEPT !.todo = Tail(@)]
       /\ seen' = [seen EXCEPT ![item.id] = "failed"]
       /\ context' = [context EXCEPT ![item.id] = @ \o item.new]
       /\ UNCHANGED <<sched, reg, stream, open, alive, asked>>

Notify ==
    /\ loop.at = "run" /\ loop.todo = <<>>
    /\ sched' = FoldLeft(OnStepComplete, sched, loop.ran)
    /\ loop' = [loop EXCEPT !.at = "after", !.ran = <<>>]
    /\ UNCHANGED <<reg, context, stream, open, alive, history>>

\* What left the running set gets a last token and is removed from the maps.
DetectCompletions ==
    LET left == loop.before \ RunningIds
    IN /\ loop.at = "after"
       /\ stream' = [id \in Requests |->
              IF id \in left THEN Delivered(id, 0, TRUE)[id] ELSE stream[id]]
       /\ open' = Forgotten(left)
       /\ context' = [id \in Requests |-> IF id \in left THEN <<>> ELSE context[id]]
       /\ loop' = Idle
       /\ seen' = [id \in Requests |->
              IF id \in left /\ reg[id] = 0 THEN "overtaken" ELSE seen[id]]
       /\ UNCHANGED <<sched, reg, alive, asked, failures>>

Loop == LoopTop \/ LoopExits \/ Plan \/ RunItem \/ ItemFails \/ Notify \/ DetectCompletions

Next ==
    \/ \E ask \in Asks : Generate(ask)
    \/ \E id \in Requests : Insert(id)
    \/ DropEngine
    \/ Loop

\* The loop thread and the callers of generate are threads of their own.  The
\* first conjunct is weak fairness of Loop, every step of which changes loop.
CanLoop ==
    /\ loop.at # "exited" /\ (loop.at = "before" => ~alive \/ IsUp(sched))
    /\ loop.at = "schedule" => sched.clock <= MaxClock

Fairness ==
    /\ []<>~CanLoop \/ []<><<Loop>>_vars
    /\ \A id \in Requests : WF_vars(Insert(id))

Spec == Init /\ [][Next]_vars /\ Fairness

-----------------------------------------------------------------------------
Asked(id) == id < sched.next_seq_id

\* scheduler_engine.rs:25 "when a sequence leaves the running set, sends a final
\* finish_reason token and closes its channel": every request is answered in
\* full however many share the loop, also when the engine is dropped, unless
\* the loop overtook the caller of generate and had dropped the sequence
\* before the caller registered the channel: that client waits for as long as
\* the engine lives.
StreamsEnd ==
    \A id \in Requests :
        Asked(id) ~> id \notin open \/ seen[id] = "overtaken" \/ ~IsUp(sched)

\* The tokens a client reads for a prompt: one for each of k chunks, what the
\* model makes of the prompt up to the end of that chunk, and then the model's
\* continuation of the prompt, whether or not that begins with the token of the
\* last chunk again (it does: forward_for_seq leaves it out of the context).
Continues(ids, prompt, k) ==
    /\ \E upto \in [1..k -> DOMAIN prompt] :
          /\ \A i \in 1..k : ids[i] = Peak(<<prompt[upto[i]]>>)
          /\ \A i \in 2..k : upto[i - 1] < upto[i]
          /\ upto[k] = Len(prompt)
    /\ k < Len(ids) => ids[k + 1] \in {ids[k], Peak(<<ids[k]>>)}
    /\ \A i \in (k + 2)..Len(ids) : ids[i] = Peak(<<ids[i - 1]>>)

\* Every client whose channel the loop closes has read at most the tokens it
\* asked for, or one more (a batch that ends the prefill of a sequence decodes
\* it as well, whatever its max_tokens), and behind them an empty one, the only
\* one with a finish reason.  If the loop met the sequence on time and its
\* model did not fail, then no token is missing and they continue its prompt,
\* however the chunks and steps of two requests alternate and whatever the
\* other one left in the cache.  (A sequence that is met late, or whose whole
\* prompt is cached, loses tokens or all of them.)
StreamsAreWhole ==
    \A id \in Requests :
        Asked(id) /\ id \notin open /\ alive =>
            LET out == stream[id]
                n   == Len(out)
                ids == [i \in 1..(n - 1) |-> out[i].id]
            IN /\ n >= 1 /\ n - 1 <= asked[id].max_tokens + 1
               /\ \A i \in 1..n : out[i].fin = (i = n)
               /\ seen[id] = "ontime" =>
                     /\ n - 1 >= asked[id].max_tokens
                     /\ \E k \in 1..(n - 1) : Continues(ids, asked[id].prompt, k)

==============================================================================
