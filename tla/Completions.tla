----------------------------- MODULE Completions -----------------------------
(***************************************************************************)
(* The OpenAI-compatible endpoints: the handlers                           *)
(* (justapi-core/src/openai.rs), the eight drivers behind them             *)
(* (justapi-inference/src/openai.rs) and the generation they consume       *)
(* (engine.rs): a thread or the scheduler's loop on one end of a channel,  *)
(* the response on the other, and a client who may go away at any time.    *)
(*                                                                         *)
(* One request.  Texts are token ids; a stream event is the role, a token  *)
(* with its finish_reason, the closing chunk, an error, or [DONE].         *)
(*                                                                         *)
(* Before that, what a model generates (justapi-inference/src/model.rs,    *)
(* real/model.rs, spec_decode.rs, spec_decode_tree.rs), as operators on a  *)
(* run: the tokens the sink was given, the finish reason and the           *)
(* acceptance statistics.  Decoding is greedy.  A model is a function from *)
(* the last token of the context to the vocabulary in the order of the     *)
(* logits, so that its head is the token sampled and its first k are the   *)
(* top k.                                                                  *)
(***************************************************************************)
EXTENDS Naturals, SequencesExt

Token(id, fin) == [id |-> id, fin |-> fin]

Start(prev) ==
    [out |-> <<>>, prev |-> prev, finish |-> "Length", over |-> FALSE, rejected |-> FALSE,
     steps |-> 0, total_draft |-> 0, total_accepted |-> 0, extra_emitted |-> 0, nodes |-> 0]

Emitted(run) == Len(run.out)
Greedy(model, prev) == Head(model[prev])

\* One call of a sink that takes no more than `takes` tokens.
Sink(run, takes, id, stop) ==
    IF Emitted(run) >= takes THEN [run EXCEPT !.finish = "Cancelled", !.over = TRUE]
    ELSE [run EXCEPT !.out = Append(@, Token(id, IF stop THEN "Stop" ELSE "None")),
                     !.prev = id, !.over = stop,
                     !.finish = IF stop THEN "Stop" ELSE @]

Room(run, p) == IF run.over \/ Emitted(run) >= p.max_tokens THEN 0
                ELSE p.max_tokens - Emitted(run)

-----------------------------------------------------------------------------
(* Model::generate of a plain model *)

RECURSIVE PlainFrom(_, _, _)
PlainFrom(run, target, p) ==
    IF Room(run, p) = 0 THEN run
    ELSE LET next == Greedy(target, run.prev)
         IN PlainFrom(Sink(run, p.takes, next, next \in p.stop_tokens), target, p)

Plain(target, p) == PlainFrom(Start(p.prompt), target, p)

-----------------------------------------------------------------------------
(* speculative_generate *)

\* The draft phase: at most n tokens, up to a stop token.
RECURSIVE Propose(_, _, _, _)
Propose(draft, prev, n, p) ==
    LET tok == Greedy(draft, prev)
    IN IF n = 0 \/ tok \in p.stop_tokens THEN <<>>
       ELSE <<tok>> \o Propose(draft, tok, n - 1, p)

\* The verify phase.  Neither an accepted token nor a correction is compared
\* with the stop tokens.
RECURSIVE Verify(_, _, _, _)
Verify(run, target, drafts, p) ==
    IF drafts = <<>> \/ run.over THEN run
    ELSE LET ttok == Greedy(target, run.prev)
         IN IF ttok = Head(drafts)
            THEN Verify(Sink([run EXCEPT !.total_accepted = @ + 1], p.takes, ttok, FALSE),
                        target, Tail(drafts), p)
            ELSE [Sink(run, p.takes, ttok, FALSE)
                    EXCEPT !.rejected = TRUE]

\* The target's own token, which ends a block, with its stop check.
Bonus(run, id, p) ==
    LET after == Sink(run, p.takes, id, id \in p.stop_tokens)
    IN IF Emitted(after) = Emitted(run) THEN after
       ELSE [after EXCEPT !.extra_emitted = @ + 1]

DraftStep(run, target, draft, p) ==
    LET n        == IF p.gamma <= Room(run, p) THEN p.gamma ELSE Room(run, p)
        drafts   == Propose(draft, run.prev, n, p)
        verified == Verify([run EXCEPT !.steps = @ + 1, !.rejected = FALSE,
                                       !.total_draft = @ + Len(drafts)], target, drafts, p)
    IN IF verified.rejected \/ Room(verified, p) = 0 THEN verified
       ELSE Bonus(verified, Greedy(target, verified.prev), p)

RECURSIVE DraftFrom(_, _, _, _)
DraftFrom(run, target, draft, p) ==
    IF Room(run, p) = 0 THEN run
    ELSE DraftFrom(DraftStep(run, target, draft, p), target, draft, p)

SpeculativeGenerate(target, draft, p) == DraftFrom(Start(p.prompt), target, draft, p)

-----------------------------------------------------------------------------
(* speculative_generate_tree *)

TopK(model, prev, k) == SubSeq(model[prev], 1, IF k <= Len(model[prev]) THEN k ELSE Len(model[prev]))

RECURSIVE Expand(_, _, _, _)
Expand(draft, prev, depth, branch) ==
    LET top == TopK(draft, prev, branch)
    IN IF depth = 0 THEN <<>>
       ELSE [i \in DOMAIN top |-> [token |-> top[i],
                                   children |-> Expand(draft, top[i], depth - 1, branch)]]

BuildDraftTree(draft, prev, p) ==
    IF p.gamma = 0 \/ p.branch = 0 THEN <<>> ELSE Expand(draft, prev, p.gamma, p.branch)

\* The sum of branch^i for i in 1..gamma.
TotalNodes(p) ==
    IF p.branch = 0 \/ p.gamma = 0 THEN 0
    ELSE IF p.branch = 1 THEN p.gamma
    ELSE (p.branch * (p.branch ^ p.gamma - 1)) \div (p.branch - 1)

\* The path on which tree and target agree, then the target's next token.
RECURSIVE VerifyTree(_, _, _)
VerifyTree(target, prev, frontier) ==
    LET tok   == Greedy(target, prev)
        match == SelectInSeq(frontier, LAMBDA node : node.token = tok)
        rest  == VerifyTree(target, tok, frontier[match].children)
    IN IF match = 0 THEN [accepted |-> <<>>, last |-> tok]
       ELSE [accepted |-> <<tok>> \o rest.accepted, last |-> rest.last]

\* Mutant: the tokens after a stop token of the block are emitted as well.
AcceptAll_PastStop(run, toks, p) ==
    FoldLeft(LAMBDA r, tok : IF Emitted(r) >= p.max_tokens THEN r
                             ELSE Sink(r, p.takes, tok, tok \in p.stop_tokens), run, toks)

\* Accepted tokens are emitted up to the limit or to the first stop token.
AcceptAll(run, toks, p) ==
    FoldLeft(LAMBDA r, tok : IF Room(r, p) = 0 THEN r
                             ELSE Sink(r, p.takes, tok, tok \in p.stop_tokens), run, toks)

TreeStep(run, target, draft, p) ==
    LET walk  == VerifyTree(target, run.prev, BuildDraftTree(draft, run.prev, p))
        given == AcceptAll([run EXCEPT
                        !.steps = @ + 1,
                        !.total_draft = @ + IF p.gamma <= Room(run, p) THEN p.gamma
                                            ELSE Room(run, p),
                        !.nodes = @ + TotalNodes(p),
                        !.total_accepted = @ + Len(walk.accepted)], walk.accepted, p)
    IN IF Room(given, p) = 0 THEN given ELSE Bonus(given, walk.last, p)

RECURSIVE TreeFrom(_, _, _, _)
TreeFrom(run, target, draft, p) ==
    IF Room(run, p) = 0 THEN run
    ELSE TreeFrom(TreeStep(run, target, draft, p), target, draft, p)

SpeculativeGenerateTree(target, draft, p) == TreeFrom(Start(p.prompt), target, draft, p)

-----------------------------------------------------------------------------
\* Model::generate of what the engine registered: a plain model, or one that
\* speculates under the hood.
Generate(model, target, draft, p) ==
    CASE model = "plain" -> Plain(target, p)
      [] model = "draft" -> SpeculativeGenerate(target, draft, p)
      [] model = "tree"  -> SpeculativeGenerateTree(target, draft, p)

-----------------------------------------------------------------------------
(* A request and its response.                                             *)

CONSTANT
    Cases   \* the request (endpoint, engine behind it, body, stream flag), what
            \* is registered under the model's name (kind, target, draft), and the
            \* sampling parameters with gamma, branch and the last prompt token

VARIABLES
    call, model, params,
    pc,         \* "handler", "generate", "receive", "over"
    source,     \* what the generator still has to send
    sending,    \* the generator runs
    failed,     \* history: it ended with an error
    chan,       \* the channel
    listening,  \* its receiver exists
    finished,   \* the local of the stream
    events,     \* what the response stream has yielded
    answer      \* status, and for a full response its tokens and finish_reason

vars == <<call, model, params, pc, source, sending, failed, chan, listening, finished, events, answer>>

Event(kind, id, fin) == [kind |-> kind, id |-> id, fin |-> fin]
Role == Event("role", 0, "None")
Error == Event("error", 0, "None")
Done == Event("done", 0, "None")
Closing == Event("token", 0, "length")

NoAnswer == [status |-> 0, ids |-> <<>>, finish |-> "length"]

FinishReasonStr(fin) ==
    CASE fin = "None" -> "None" [] fin = "Length" -> "length" [] OTHER -> "stop"

-----------------------------------------------------------------------------
(* The endpoints and their drivers *)

\* A handler by its endpoint and by what is behind it.
Handler(api, via) == [api |-> api, via |-> via]

ChatCompletionsHandler == Handler("chat", "engine")
CompletionsHandler == Handler("text", "engine")
EmbeddingsHandler == Handler("embeddings", "engine")
ModelsHandler == Handler("models", "engine")
ScheduledChatCompletionsHandler == Handler("chat", "scheduler")
ScheduledCompletionsHandler == Handler("text", "scheduler")
RoutedChatCompletionsHandler == Handler("chat", "router")
RoutedCompletionsHandler == Handler("text", "router")
RoutedEmbeddingsHandler == Handler("embeddings", "router")

Handlers ==
    {ChatCompletionsHandler, CompletionsHandler, EmbeddingsHandler, ModelsHandler,
     ScheduledChatCompletionsHandler, ScheduledCompletionsHandler,
     RoutedChatCompletionsHandler, RoutedCompletionsHandler, RoutedEmbeddingsHandler}

Init ==
    /\ \E c \in Cases : call = c.call /\ model = c.model /\ params = c.params
    /\ Handler(call.api, call.via) \in Handlers
    /\ pc = "handler"
    /\ source = <<>> /\ sending = FALSE /\ failed = FALSE
    /\ chan = <<>> /\ listening = FALSE
    /\ finished = FALSE
    /\ events = <<>>
    /\ answer = NoAnswer

\* A driver: what its stream opens with, and whether it remembers a finish
\* reason behind later tokens.  A full response collects.
Driver(opening, sticky) == [opening |-> opening, sticky |-> sticky]

ChatCompletionStream == Driver(<<Role>>, FALSE)
CompletionStream == Driver(<<>>, FALSE)
ScheduledChatCompletionStream == Driver(<<Role>>, TRUE)
ScheduledCompletionStream == Driver(<<>>, TRUE)
ChatCompletion == Driver(<<>>, TRUE)
Completion == Driver(<<>>, TRUE)
ScheduledChatCompletion == Driver(<<>>, TRUE)
ScheduledCompletion == Driver(<<>>, TRUE)

DriverOf(c) ==
    LET chat == c.api = "chat"
    IN CASE c.stream /\ c.via # "scheduler"  -> IF chat THEN ChatCompletionStream
                                                ELSE CompletionStream
         [] c.stream /\ c.via = "scheduler"  -> IF chat THEN ScheduledChatCompletionStream
                                                ELSE ScheduledCompletionStream
         [] ~c.stream /\ c.via # "scheduler" -> IF chat THEN ChatCompletion ELSE Completion
         [] ~c.stream /\ c.via = "scheduler" -> IF chat THEN ScheduledChatCompletion
                                                ELSE ScheduledCompletion

-----------------------------------------------------------------------------
(* The handler *)

\* admit(), of the raw body: no model is named, or no replica takes it.
Admit(c) ==
    IF c.body \in {"nomodel", "nojson"} THEN 400 ELSE IF ~c.routed THEN 503 ELSE 0

\* The status that refuses the request, or 0.
Refusal ==
    IF call.api = "models" THEN 0
    ELSE IF call.body = "broken" THEN 400
    ELSE IF call.via = "router" /\ Admit(call) # 0 THEN Admit(call)
    ELSE IF call.body # "ok" THEN 400
    ELSE 0

Respond(status) ==
    /\ answer' = [answer EXCEPT !.status = status]
    /\ pc' = "over"
    /\ UNCHANGED <<finished, events>>

\* A stream is answered at once and generates when it is polled.
Handle ==
    /\ pc = "handler"
    /\ \/ Refusal # 0 /\ Respond(Refusal)
       \/ Refusal = 0 /\ call.api \in {"embeddings", "models"} /\ Respond(200)
       \/ /\ Refusal = 0 /\ call.api \in {"chat", "text"}
          /\ pc' = "generate"
          /\ answer' = [answer EXCEPT !.status = IF call.stream THEN 200 ELSE 0]
          /\ events' = DriverOf(call).opening
          /\ UNCHANGED finished
    /\ UNCHANGED <<call, model, params, source, sending, failed, chan, listening>>

\* What the scheduler's loop sends for a request, as SchedulerEngine has it: as
\* many tokens as it was asked for or one more, fewer when the loop met it late or
\* in the cache or when the model failed, then an empty one that carries the
\* finish reason.
ScheduledTokens(p) ==
    {[i \in 1..(n + 1) |->
        Token(0, IF i = n + 1 \/ p.max_tokens = 0 THEN "Length" ELSE "None")]
            : n \in 0..(p.max_tokens + 1)}

Sources ==
    IF call.via = "scheduler" THEN ScheduledTokens(params)
    ELSE {Generate(model.kind, model.target, model.draft, params).out}

\* Engine::generate starts a thread; an unknown model is an error.
CallGenerate ==
    /\ pc = "generate"
    /\ \/ /\ call.known
          /\ source' \in Sources
          /\ sending' = TRUE /\ listening' = TRUE
          /\ pc' = "receive"
          /\ UNCHANGED <<events, answer>>
       \/ /\ ~call.known
          /\ pc' = "over"
          /\ events' = IF call.stream THEN events \o <<Error, Done>> ELSE events
          /\ answer' = IF call.stream THEN answer ELSE [answer EXCEPT !.status = 422]
          /\ UNCHANGED <<source, sending, listening>>
    /\ UNCHANGED <<call, model, params, failed, chan, finished>>

-----------------------------------------------------------------------------
(* The generator *)

\* A model stops at the first token the channel refuses; the scheduler's loop
\* ignores it.
Send ==
    /\ sending /\ source # <<>>
    /\ source' = IF listening \/ call.via = "scheduler" THEN Tail(source) ELSE <<>>
    /\ chan' = IF listening THEN Append(chan, Head(source)) ELSE chan
    /\ UNCHANGED <<call, model, params, pc, sending, failed, listening, finished, events, answer>>

HangUp ==
    /\ sending /\ source = <<>>
    /\ sending' = FALSE
    /\ UNCHANGED <<call, model, params, pc, source, failed, chan, listening, finished, events, answer>>

\* A forward pass of the model fails before the next token: generate returns
\* the error to the thread, which ignores it and drops its end of the channel.
GenerateFails ==
    /\ sending /\ source # <<>> /\ call.via # "scheduler"
    /\ sending' = FALSE /\ source' = <<>> /\ failed' = TRUE
    /\ UNCHANGED <<call, model, params, pc, chan, listening, finished, events, answer>>

-----------------------------------------------------------------------------
(* The drivers *)

\* Mutant: a finish reason in the stream is not noticed.
Finished_Never(fin) == FALSE

Finished(fin) == fin # "None" \/ (DriverOf(call).sticky /\ finished)

Receive ==
    LET tok == Head(chan)
        fin == FinishReasonStr(tok.fin)
    IN /\ pc = "receive" /\ chan # <<>>
       /\ chan' = Tail(chan)
       /\ finished' = Finished(fin)
       /\ events' = IF call.stream THEN Append(events, Event("token", tok.id, fin)) ELSE events
       /\ answer' = IF call.stream THEN answer
                    ELSE [answer EXCEPT !.ids = Append(@, tok.id),
                                        !.finish = IF fin = "None" THEN @ ELSE fin]
       /\ UNCHANGED <<call, model, params, pc, source, sending, failed, listening>>

\* Mutant: the driver waits for a token with a finish reason.
Closed_OnFinish == chan = <<>> /\ ~sending /\ finished

\* recv() returns None.
Closed == chan = <<>> /\ ~sending

EndResponse ==
    /\ pc = "receive" /\ Closed
    /\ pc' = "over" /\ listening' = FALSE
    /\ events' = IF ~call.stream THEN events
                 ELSE IF finished THEN Append(events, Done) ELSE events \o <<Closing, Done>>
    /\ answer' = [answer EXCEPT !.status = 200]
    /\ UNCHANGED <<call, model, params, source, sending, failed, chan, finished>>

\* The client goes away: the response, and the receiver with it, is dropped.
ClientLeaves ==
    /\ pc \in {"handler", "generate", "receive"}
    /\ pc' = "left" /\ listening' = FALSE /\ chan' = <<>>
    /\ UNCHANGED <<call, model, params, source, sending, failed, finished, events, answer>>

Drive == Handle \/ CallGenerate \/ Receive \/ EndResponse

Next ==
    \/ Drive
    \/ Send \/ HangUp \/ GenerateFails
    \/ ClientLeaves

\* The generator is a thread and the response a task that the client's reading
\* drives; the second conjunct is weak fairness of Drive.  Nothing is assumed
\* of the scheduler, which may leave a request waiting for ever.
CanDrive == pc \in {"handler", "generate"} \/ (pc = "receive" /\ (chan # <<>> \/ Closed))

ThreadRuns == call.via # "scheduler" /\ (Send \/ HangUp)

Fairness == WF_vars(ThreadRuns) /\ ([]<>~CanDrive \/ []<><<Drive>>_vars)

Spec == Init /\ [][Next]_vars /\ Fairness

-----------------------------------------------------------------------------
IsToken(e) == e.kind = "token"
Ends(s) == {i \in DOMAIN s : s[i].fin # "None"}

\* A stream that ran to its end says so once: one [DONE], at the end, and right
\* before it the only chunk with a finish_reason (two of them when the
\* scheduler was asked for no token), or else an error; and what it carried are
\* the tokens of the model in order, all of them unless the model failed.  A
\* full response tells the same story.  (A model that fails is not told from
\* one that is through: engine.rs ignores its error, and the client reads the
\* first tokens, then "length".)
ResponsesAreWhole ==
    pc = "over" /\ answer.status = 200 /\ call.api \in {"chat", "text"} =>
        LET toks == SelectSeq(events, IsToken)
            n    == Len(events)
            Ids(s) == [i \in DOMAIN s |-> s[i].id]
            Whole(s, k) == k = Len(s) \/ (failed /\ k < Len(s))
        IN IF ~call.stream
           THEN LET k == Len(answer.ids)
                IN \E s \in Sources : /\ Whole(s, k) /\ answer.ids = SubSeq(Ids(s), 1, k)
                                      /\ answer.finish \in {"length", "stop"}
                                      /\ (answer.finish = "stop") = \E i \in 1..k : s[i].fin = "Stop"
           ELSE /\ \A i \in DOMAIN events : (events[i].kind = "done") = (i = n)
                /\ call.known =>
                    /\ events[n - 1].fin # "None"
                    /\ Ends(events) = {n - 1} \/ (call.via = "scheduler" /\ params.max_tokens = 0)
                    /\ \E s \in Sources, k \in {Len(toks), Len(toks) - 1} :
                          Whole(s, k) /\ SubSeq(Ids(toks), 1, k) = SubSeq(Ids(s), 1, k)

\* Whether or not the client stays, the response and the generation both end,
\* unless the scheduler leaves the request waiting for ever (StreamsEnd and
\* SequencesFinish say when it may).
CompletionEnds ==
    \/ <>(pc \in {"over", "left"} /\ (sending => call.via = "scheduler"))
    \/ <>[](call.via = "scheduler" /\ sending /\ chan = <<>>)

\* spec_decode_tree.rs:14 "produces exactly the same output as plain target
\* decode": wherever the sink stops taking tokens, the tree scheme gives the
\* tokens, the finish reason and the stop of the plain model.  The draft-target
\* scheme gives the same tokens, but goes on behind a stop token with which the
\* target corrected the draft.
SpeculationIsLossless ==
    \A k \in 0..params.max_tokens :
        LET p     == [params EXCEPT !.takes = k]
            plain == Plain(model.target, p)
            run   == Generate(model.kind, model.target, model.draft, p)
            Same  == run.out = plain.out /\ run.finish = plain.finish
            Ids(s) == [i \in DOMAIN s |-> s[i].id]
        IN pc = "receive" /\ call.via # "scheduler" =>
            IF model.kind = "draft" /\ plain.finish = "Stop"
            THEN IsPrefix(Ids(plain.out), Ids(run.out))
            ELSE Same

\* What the client reads is whole, and what it was computed from is exact.
ResponsesAreExact == ResponsesAreWhole /\ SpeculationIsLossless
==============================================================================
