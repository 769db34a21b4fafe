----------------------------- MODULE MCInference -----------------------------
(***************************************************************************)
(* The parts of the inference stack that are checked alone: the radix      *)
(* cache, the block pool, the disaggregated scheduler, the gateway, the    *)
(* scheduler engine and the completion endpoints.  pick says which one     *)
(* moves; the others stay in their initial state.                          *)
(*                                                                         *)
(* Radix cache: blocks of two tokens.  Prompts extend each other, part at  *)
(* the end of a block, or, <<0, 1>> and the others, inside one.            *)
(***************************************************************************)
EXTENDS RadixCache

MCPrompts == {<<0, 1>>, <<0, 0, 1, 1>>, <<0, 0, 2, 2, 0, 0>>}
MCQueries == MCPrompts \cup {<<0, 0, 1>>}

VARIABLES
    pick,
    pool, held, tracked, denied, swept,
    prefill, decode, turn, work, origin, cancelled,
    strategy, requireReady, registry, table, rr, pod, report, probe, request, decision, changes,
    sched, reg, context, stream, open, loop, alive, asked, failures, seen,
    call, model, params, pc, source, sending, failed, chan, listening, finished, events, answer

-----------------------------------------------------------------------------

\* Two blocks; the allocation counter is bounded.
Kv == INSTANCE KvBlockPool WITH Capacity <- 2, MaxCount <- 4, MaxHeld <- 1

\* Prompts of one and of two blocks that share nothing.
Pd == INSTANCE PdScheduler WITH
    Capacity <- 6, BlockSize <- 2, MaxNumSeqs <- 2, MaxBatchedTokens <- 3, MaxSeqLen <- 8,
    ChunkSize <- 2, Prompts <- {<<0, 0>>, <<1, 1, 0, 0>>}, TokenLimits <- {2},
    MaxRequests <- 3, MaxClock <- 12

-----------------------------------------------------------------------------

Version(v, at, aliases) == [version |-> v, created |-> at, aliases |-> aliases]

\* A pod of each of two versions; the alias moves from the first to the other.
Gw == INSTANCE InferenceGateway WITH
    MaxConcurrency <- 2, Pods <- {"p1", "p2"},
    Serves <- [p \in {"p1", "p2"} |-> IF p = "p1" THEN "v1" ELSE "v2"],
    Records <- {[versions |-> <<Version("v1", 1, {"stable"})>>, default |-> "stable",
                 routing |-> <<<<"k", "lora">>>>]},
    Versions <- {Version("v1", 1, {}), Version("v1", 1, {"stable"}), Version("v2", 2, {"stable"})},
    Requests <- {[version |-> "none", key |-> "k"], [version |-> "stable", key |-> "none"],
                 [version |-> "v1", key |-> "none"]},
    Loads <- {[active |-> 0, kv |-> 0], [active |-> 2, kv |-> 20], [active |-> 0, kv |-> 95]},
    MaxChanges <- 3, MaxRr <- 2

\* Two requests, in one chunk or two, of which the second may find the prefix
\* of the first cached.
Eng == INSTANCE SchedulerEngine WITH
    Capacity <- 6, BlockSize <- 2, MaxNumSeqs <- 2, MaxBatchedTokens <- 8, MaxSeqLen <- 20,
    ChunkSize <- 2, Vocab <- 4,
    Asks <- {[prompt |-> <<0, 1>>, max_tokens |-> 3], [prompt |-> <<0, 1, 1>>, max_tokens |-> 2]},
    MaxRequests <- 2, MaxClock <- 12, MaxFailures <- 1

-----------------------------------------------------------------------------

Toks == 0..2

\* A model by its greedy tokens; the others follow in the order of their ids.
Logits(h) == [t \in Toks |-> <<h[t], (h[t] + 1) % 3, (h[t] + 2) % 3>>]
Mock == [t \in Toks |-> (t + 1) % 3]

Endpoints == [api : {"chat", "text", "embeddings"}, via : {"engine", "router"}]
             \cup [api : {"chat", "text"}, via : {"scheduler"}] \cup [api : {"models"}, via : {"engine"}]

Ask(e, b, r, k, s) == [api |-> e.api, via |-> e.via, body |-> b, routed |-> r, known |-> k, stream |-> s]

PlainModel == [kind |-> "plain", target |-> Logits(Mock), draft |-> Logits(Mock)]

\* Every endpoint with every kind of body, for a plain model; and one endpoint
\* for every draft of two target models.
AskCases ==
    [call : {Ask(e, b, r, k, s) : e \in Endpoints, b \in {"ok", "broken", "nojson", "nomodel", "bad"},
                                  r \in BOOLEAN, k \in BOOLEAN, s \in BOOLEAN},
     model : {PlainModel},
     params : [prompt : {0}, max_tokens : {0, 2}, stop_tokens : {{2}}, takes : {9}, gamma : {0}, branch : {1}]]

DraftCases ==
    [call : {Ask([api |-> "text", via |-> "engine"], "ok", TRUE, TRUE, TRUE)},
     model : {PlainModel} \cup [kind : {"draft", "tree"},
                                target : {Logits(Mock), Logits([t \in Toks |-> 2 - t])},
                                draft : {Logits(h) : h \in [Toks -> Toks]}],
     params : [prompt : {0}, max_tokens : {0, 3}, stop_tokens : {{}, {2}}, takes : {9},
               gamma : {0, 2}, branch : {1, 2}]]

Cmp == INSTANCE Completions WITH Cases <- AskCases \cup DraftCases

-----------------------------------------------------------------------------

kvVars == <<pool, held, tracked, denied, swept>>
pdVars == <<prefill, decode, turn, work, origin, cancelled>>
gwVars == <<strategy, requireReady, registry, table, rr, pod, report, probe, request, decision, changes>>
engVars == <<sched, reg, context, stream, open, loop, alive, asked, failures, seen>>
cmpVars == <<call, model, params, pc, source, sending, failed, chan, listening, finished, events, answer>>

allVars == <<pick, vars, kvVars, pdVars, gwVars, engVars, cmpVars>>

InfInit ==
    /\ pick \in {"radix", "pool", "pd", "gateway", "engine", "completions"}
    /\ Init /\ Kv!Init /\ Pd!Init /\ Eng!Init
    /\ IF pick = "gateway" THEN Gw!Init
       ELSE Gw!Init /\ strategy = "RoundRobin" /\ requireReady
    /\ IF pick = "completions" THEN Cmp!Init
       ELSE /\ call = Ask([api |-> "models", via |-> "engine"], "ok", TRUE, TRUE, FALSE)
            /\ model = PlainModel
            /\ params = CHOOSE p \in {c.params : c \in AskCases} : p.max_tokens = 0
            /\ Cmp!Init

InfNext ==
    \/ /\ pick = "radix" /\ Next
       /\ UNCHANGED <<pick, kvVars, pdVars, gwVars, engVars, cmpVars>>
    \/ /\ pick = "pool" /\ Kv!Next
       /\ UNCHANGED <<pick, vars, pdVars, gwVars, engVars, cmpVars>>
    \/ /\ pick = "pd" /\ Pd!Next
       /\ UNCHANGED <<pick, vars, kvVars, gwVars, engVars, cmpVars>>
    \/ /\ pick = "gateway" /\ Gw!Next
       /\ UNCHANGED <<pick, vars, kvVars, pdVars, engVars, cmpVars>>
    \/ /\ pick = "engine" /\ Eng!Next
       /\ UNCHANGED <<pick, vars, kvVars, pdVars, gwVars, cmpVars>>
    \/ /\ pick = "completions" /\ Cmp!Next
       /\ UNCHANGED <<pick, vars, kvVars, pdVars, gwVars, engVars>>

\* The fairness of each part, for the behaviours in which it moves.  The steps
\* of Pd!Loop are those that change turn, and the steps of Eng!Loop those that
\* change loop.  A step of Observe, ReportLoad or SetReadyWrites disables
\* itself, and Insert is taken only a few times for an id: weak fairness of
\* these says that they are disabled again and again.
InfFairness ==
    /\ []<>~(pick = "pd" /\ Pd!CanLoop) \/ []<><<pick = "pd">>_turn
    /\ \A p \in {"p1", "p2"} :
          /\ []<>~(pick = "gateway" /\ report[p] = <<>> /\ pod[p].up)
          /\ []<>~(pick = "gateway" /\ report[p] # <<>>)
          /\ []<>~(pick = "gateway" /\ probe[p] # <<>>)
    /\ []<>~(pick = "engine" /\ Eng!CanLoop) \/ []<><<pick = "engine">>_loop
    /\ \A id \in 1..2 : []<>~(pick = "engine" /\ Eng!CanInsert(id))
    /\ WF_cmpVars(pick = "completions" /\ Cmp!ThreadRuns)
    /\ []<>~(pick = "completions" /\ Cmp!CanDrive) \/ []<><<pick = "completions" /\ Cmp!Drive>>_cmpVars

InfSpec == InfInit /\ [][InfNext]_allVars /\ InfFairness

-----------------------------------------------------------------------------
\* The properties of the parts, each stated where the part is modelled.

\* The block pool keeps free, cached, pinned and used blocks apart: KvBlockPool.
PoolIsSound == [][Kv!PoolIsSound]_kvVars

\* Requests and blocks of the two schedulers have one owner: PdScheduler.
OnePoolOneOwner == Pd!OnePoolOneOwner

\* Requests are prefilled, transferred and decoded: PdScheduler.
RequestsFinish == Pd!RequestsFinish

\* The gateway routes a request to what it names: InferenceGateway.
RoutingIsFaithful == Gw!RoutingIsFaithful

\* The gateway's table follows its pods: InferenceGateway.
TableFollowsCluster == Gw!TableFollowsCluster

\* The engine's token streams are whole: SchedulerEngine.
StreamsAreWhole == Eng!StreamsAreWhole

\* The engine's token streams end: SchedulerEngine.
StreamsEnd == Eng!StreamsEnd

\* Responses are whole and speculation changes nothing in them: Completions.
ResponsesAreExact == Cmp!ResponsesAreExact

\* A completion that is asked for ends (Completions); one that does not move
\* in a behaviour promises nothing.
CompletionEnds == pick = "completions" => Cmp!CompletionEnds

=============================================================================
