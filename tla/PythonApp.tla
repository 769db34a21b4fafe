----------------------------- MODULE PythonApp -----------------------------
(***************************************************************************)
(* A Python application from its first route to its last request: the      *)
(* registrations, run (native/app.rs), the dispatch of make_native_handler *)
(* (native/handlers.rs), the dedicated GIL workers (gil_pool.rs), the      *)
(* adaptive batcher (justapi-core/src/batching.rs) and the asyncio loop    *)
(* that carries coroutines.                                                *)
(*                                                                         *)
(* A ticket <<c, n>> names the n-th request of client c: the one-shot      *)
(* channel its answer travels on.  A request that was given up (the        *)
(* server's deadline dropped its future) leaves its ticket in whatever     *)
(* queue it had reached; the answer to it goes nowhere.                    *)
(***************************************************************************)
EXTENDS AppRegistry

CONSTANTS
    Plugins,      \* the plugins, in the order they were added
    Preludes,     \* registration calls made before anything else, by program
    Calls,        \* the calls the program may then make
    MaxCalls,     \* how many of them
    MaxRuns,      \* how often run is called
    Jwt, CorsMw,  \* the JWT and CORS middleware, when asked for
    Clients,
    Inputs,       \* Inputs[c]: the requests client c may send
    Probes,       \* requests the test client's handler is compared on
    MaxRequests,  \* MaxRequests[c]: how many requests client c sends
    Returned,     \* Returned[h]: what calling the Python handler h may give
    Awaited,      \* Awaited[h]: what its coroutine may end with
    Hangs,        \* handlers whose coroutine may never end
    MaxRoutes,    \* handler ids
    GilCapacity,  \* queue slots of a GIL worker
    MaxBatch,     \* batch_size
    Rows          \* what the table of the CRUD routes holds at first

ASSUME PythonAppBounds ==
    /\ {MaxCalls, MaxRuns, MaxRoutes, GilCapacity, MaxBatch} \subseteq Nat \ {0}
    /\ MaxRequests \in [Clients -> Nat]

VARIABLES
    app,      \* the JustAPIApp object
    phase,    \* "open", "serving" or "aborted" (a panic ends the process)
    calls, runs,
    raised,   \* some registration raised after it had pushed something
    declared, \* the row each successful registration last gave its key
    s,        \* what run captured
    hooks,    \* plugins started and stopped in this run
    reqs,     \* the requests
    gil,      \* the GIL worker: its queue and the job it runs
    batch,    \* the batchers, by handler id: channel, batch it collects, phase
    coros,    \* coroutines on the loop, by ticket: their handler, done or not
    notified, \* tickets whose DoneNotifier fired
    rows      \* the table behind the CRUD routes

vars == <<app, phase, calls, runs, raised, declared, s, hooks, reqs, gil,
          batch, coros, notified, rows>>

building == <<app, calls, runs, raised, declared, s, hooks>>
serving == <<reqs, gil, batch, coros, notified, rows>>

NoJob == [kind |-> None, tickets |-> <<>>, id |-> 0, handler |-> None, valid |-> TRUE,
          inBounds |-> TRUE]
Idle == [st |-> "idle", n |-> 0, in |-> None, id |-> 0, h |-> None, reply |-> Error, of |-> <<>>]

NoBatch == [chan |-> <<>>, items |-> <<>>, phase |-> "idle"]



MethodOf(op) == CHOOSE m \in {"GET", "POST", "PUT", "PATCH", "DELETE", "QUERY",
                              "HEAD", "OPTIONS", "TRACE"} :
                    <<op, m>> \in {<<"get", "GET">>, <<"sse_native", "GET">>,
                        <<"post", "POST">>, <<"put", "PUT">>, <<"patch", "PATCH">>,
                        <<"delete", "DELETE">>, <<"query", "QUERY">>, <<"head", "HEAD">>,
                        <<"options", "OPTIONS">>, <<"trace", "TRACE">>}

(* The tables as a program that only reads the docs sees them: one row per *)
(* key, the last one declared for it.                                      *)
IsRoute(call) == call.op \in {"get", "post", "put", "patch", "delete", "query",
                              "head", "options", "trace"}

Declares(d, call) ==
    IF ~IsRoute(call) THEN d
    ELSE {x \in d : x.method # MethodOf(call.op) \/ x.path # call.path}
            \cup {[method |-> MethodOf(call.op), path |-> call.path,
                   handler |-> call.args.handler, crud |-> call.args.crud]}

(* A program's first calls; one that raises is caught and left behind.     *)
ApplyAll(todo) ==
    FoldLeft(LAMBDA x, call :
                LET res == Apply(x.app, call)
                IN  [app |-> res.app, raised |-> x.raised \/ ~res.ok,
                     declared |-> IF res.ok THEN Declares(x.declared, call) ELSE x.declared],
             [app |-> NewApp(Plugins), raised |-> FALSE, declared |-> {}], todo)

Init == /\ \E prelude \in Preludes :
              LET first == ApplyAll(prelude)
              IN  app = first.app /\ raised = first.raised /\ declared = first.declared
        /\ phase = "open" /\ calls = 0 /\ runs = 0
        /\ s = [tables |-> NoRows, router |-> NewRouter(0), chain |-> <<>>, pool |-> FALSE]
        /\ hooks = [started |-> {}, stopped |-> {}]
        /\ reqs = [c \in Clients |-> Idle]
        /\ gil = [queue |-> <<>>, job |-> NoJob]
        /\ batch = [id \in {} |-> NoBatch]
        /\ coros = [t \in {} |-> None]
        /\ notified = {}
        /\ rows = Rows

-----------------------------------------------------------------------------
(* A call on the application object before run, or after it returned.      *)
Register(call) ==
    LET res == Apply(app, call)
    IN  /\ phase = "open" /\ calls < MaxCalls
        /\ calls' = calls + 1
        /\ IF IndexPanics(app, call)
           THEN phase' = "aborted" /\ UNCHANGED <<app, raised, declared>>
           ELSE /\ app' = res.app
                /\ raised' = (raised \/ ~res.ok)
                /\ declared' = IF res.ok THEN Declares(declared, call) ELSE declared
                /\ UNCHANGED phase
        /\ UNCHANGED <<runs, s, hooks>> /\ UNCHANGED serving

Returning == phase' = "open" /\ UNCHANGED <<s, batch>>

(* run fails to reach the database: the tables are already gone.           *)
RunNoDatabase ==
    /\ app.database /\ ~app.db_pool
    /\ app' = Taken(app)
    /\ Returning /\ UNCHANGED hooks

Connected == IF app.database THEN ConnectDatabase(app, TRUE).app ELSE app

(* on_startup of the k-th plugin raises: run returns at once.              *)
RunHookFails(k) ==
    /\ k \in DOMAIN app.plugins
    /\ hooks' = [started |-> {app.plugins[i] : i \in 1 .. k - 1}, stopped |-> {}]
    /\ app' = Drained(Connected)
    /\ Returning

AllPlugins == Range(app.plugins)

NeedsPool == \E i \in DOMAIN app.tables.crud : app.tables.crud[i] # None

(* CRUD routes without a database, or a broken WASM module: the server is  *)
(* never started, and every plugin is shut down.                           *)
RunRefused ==
    /\ (NeedsPool /\ ~Connected.db_pool) \/ app.wasm
    /\ hooks' = [started |-> AllPlugins, stopped |-> AllPlugins]
    /\ app' = Drained(Connected)
    /\ Returning

Batched(tables) == {id \in DOMAIN tables.batch_configs : tables.batch_configs[id] # None}

(* One batcher is started for every row with a batch_config.               *)
RunServes ==
    /\ ~(NeedsPool /\ ~Connected.db_pool)
    /\ batch' = [id \in Batched(app.tables) |-> NoBatch]
    /\ hooks' = [started |-> AllPlugins, stopped |-> {}]
    /\ s' = [tables |-> app.tables, router |-> app.router,
             chain |-> AppChain(app, Jwt, CorsMw), pool |-> Connected.db_pool]
    /\ app' = Drained(Connected)
    /\ phase' = "serving"

Run == /\ phase = "open" /\ runs < MaxRuns
       /\ runs' = runs + 1
       /\ RunNoDatabase \/ (\E k \in DOMAIN app.plugins : RunHookFails(k))
            \/ RunRefused \/ RunServes
       /\ UNCHANGED <<calls, raised, declared, reqs, gil, coros, notified, rows>>

(* The server drained and the runtime is dropped with the batcher tasks;   *)
(* on_shutdown of every plugin, its errors only logged.  The GIL worker    *)
(* and the loop thread live on.                                            *)
Stop == /\ phase = "serving"
        /\ \A c \in Clients : reqs[c].st \in {"idle", "done"}
        /\ hooks' = [hooks EXCEPT !.stopped = hooks.started]
        /\ phase' = "open"
        /\ batch' = [id \in {} |-> NoBatch]
        /\ UNCHANGED <<app, calls, runs, raised, declared, s, reqs, gil, coros, notified, rows>>

-----------------------------------------------------------------------------
Is(c, st) == reqs[c].st = st

Ticket(c) == <<c, reqs[c].n>>

To(c, st) == reqs' = [reqs EXCEPT ![c].st = st]

(* What is left of the n-th request once it has the answer made for of.    *)
Answered(n, reply, of) ==
    [Idle EXCEPT !.st = "done", !.n = n, !.reply = reply, !.of = of]

Answers(c, reply) == [reqs EXCEPT ![c] = Answered(reqs[c].n, reply, Ticket(c))]

(* The one-shot channel: dropped when nobody waits on it any more.         *)
Waiting(t) == reqs[t[1]].n = t[2] /\ reqs[t[1]].st \in {"gil", "batch"}

(* The middleware the request meets on its way down, outermost first.      *)
Stops(r) == {i \in DOMAIN s.chain : Before(s.chain[i], r, [routes |-> {}]).stop}

ChainReply(r) ==
    IF Stops(r) = {} THEN Go
    ELSE Before(s.chain[CHOOSE i \in Stops(r) : \A j \in Stops(r) : i <= j], r,
                [routes |-> {}]).reply

Routed(r) == RawResolve(s.router, r.method, r.path)

RoutedReply(r) == IF Routed(r).kind = "405" THEN Reply(405, "router") ELSE Reply(404, "router")

(* A request arrives: the chain, the body, the route, then its path.       *)
Arrive(c, r) ==
    LET early == IF ChainReply(r) # Go THEN ChainReply(r) ELSE Prologue(r)
        id == IF Routed(r).kind = "hit" THEN Routed(r).handler ELSE 0
        n == reqs[c].n + 1
        done(reply) == reqs' = [reqs EXCEPT ![c] = Answered(n, reply, <<c, n>>)]
        goes(st) == reqs' = [reqs EXCEPT ![c] = [Idle EXCEPT !.st = st, !.n = n, !.in = r,
                                !.id = id, !.h = s.tables.handlers[id]]]
        path == Path(s, id, r)
    IN  /\ phase = "serving" /\ reqs[c].st \in {"idle", "done"} /\ reqs[c].n < MaxRequests[c]
        /\ \/ early # Go /\ done(early) /\ UNCHANGED rows
           \/ early = Go /\ Routed(r).kind # "hit" /\ done(RoutedReply(r)) /\ UNCHANGED rows
           \/ /\ early = Go /\ Routed(r).kind = "hit"
              /\ \/ path = "batch" /\ goes("submit") /\ UNCHANGED rows
                 \/ path = "sse" /\ done(Reply(200, "sse")) /\ UNCHANGED rows
                 \/ /\ path = "crud"
                    /\ \E a \in CrudDispatch(r, rows) : done(a.reply) /\ rows' = a.rows
                 \/ path = "native" /\ done(Validated(JsonValid(r), "native"))
                    /\ UNCHANGED rows
                 \/ path = "native_query" /\ done(Validated(r.query # "invalid", "native"))
                    /\ UNCHANGED rows
                 \/ path = "refused" /\ done(Reply(422, "schema")) /\ UNCHANGED rows
                 \/ path = "python" /\ goes("send") /\ UNCHANGED rows
        /\ UNCHANGED <<phase, gil, batch, coros, notified>> /\ UNCHANGED building

Quiet == UNCHANGED <<phase, rows>> /\ UNCHANGED building

(* run_python: the send waits for a slot, the answer for the worker.       *)
HasSlot == Len(gil.queue) < GilCapacity

Enqueue(job) == gil' = [gil EXCEPT !.queue = Append(@, job)]

SendJob(c) ==
    /\ Is(c, "send") /\ HasSlot
    /\ Enqueue([kind |-> "call", tickets |-> <<Ticket(c)>>,
                id |-> reqs[c].id, handler |-> reqs[c].h,
                valid |-> BodyValidated(s, reqs[c].id, reqs[c].in),
                inBounds |-> ~IndexOutOfBounds(s, reqs[c].id)])
    /\ To(c, "gil")
    /\ UNCHANGED <<batch, coros, notified>> /\ Quiet

(* The worker thread: one job at a time, each under the GIL.               *)
TakeJob ==
    /\ gil.job = NoJob /\ gil.queue # <<>>
    /\ gil' = [queue |-> Tail(gil.queue), job |-> Head(gil.queue)]
    /\ UNCHANGED <<reqs, batch, coros, notified>> /\ Quiet

(* dispatch_python_handler indexes schemas and needs_request directly.     *)
WorkerPanics ==
    /\ gil.job.kind = "call" /\ ~gil.job.inBounds
    /\ phase' = "aborted"
    /\ UNCHANGED building /\ UNCHANGED serving

Deliver(t, reply) ==
    reqs' = IF Waiting(t) THEN Answers(t[1], reply) ELSE reqs

JobDone == gil' = [gil EXCEPT !.job = NoJob]

(* call_python_handler: 422 for the body, the handler's result, or a       *)
(* future that is handed back without waiting for it.                      *)
CallReturns_Blocking(v) ==
    LET t == gil.job.tickets[1]
    IN  /\ v.kind # "future"
        /\ Deliver(t, Outcome(v)) /\ JobDone /\ UNCHANGED coros

CallReturns(v) ==
    LET t == gil.job.tickets[1]
    IN  /\ JobDone
        /\ IF v.kind = "future"
           THEN /\ coros' = coros @@ (t :> [handler |-> gil.job.handler, done |-> FALSE])
                /\ reqs' = IF Waiting(t) THEN [reqs EXCEPT ![t[1]].st = "register"] ELSE reqs
           ELSE Deliver(t, Outcome(v)) /\ UNCHANGED coros

FinishCall ==
    /\ gil.job.kind = "call" /\ gil.job.inBounds
    /\ IF gil.job.valid
       THEN \E v \in Returned[gil.job.handler] : CallReturns(v)
       ELSE Deliver(gil.job.tickets[1], Reply(422, "body_schema")) /\ JobDone /\ UNCHANGED coros
    /\ UNCHANGED <<batch, notified>> /\ Quiet

-----------------------------------------------------------------------------
(* resolve_async_response: register the notifier on a blocking thread; the *)
(* future calls it at once when it is done already.                        *)
AddDoneCallback(c) ==
    /\ Is(c, "register")
    /\ To(c, "await")
    /\ notified' = IF coros[Ticket(c)].done THEN notified \cup {Ticket(c)} ELSE notified
    /\ UNCHANGED <<gil, batch, coros>> /\ Quiet

(* The loop thread finishes a coroutine and runs its callbacks.            *)
CoroutineEnds(t) ==
    /\ ~coros[t].done
    /\ coros' = [coros EXCEPT ![t].done = TRUE]
    /\ notified' = IF reqs[t[1]].n = t[2] /\ Is(t[1], "await")
                   THEN notified \cup {t} ELSE notified
    /\ UNCHANGED <<reqs, gil, batch>> /\ Quiet

(* The awaiting task wakes and reads the result on a blocking thread.      *)
ReadResult(c) ==
    /\ Is(c, "await") /\ Ticket(c) \in notified
    /\ \E v \in Awaited[reqs[c].h] : reqs' = Answers(c, Outcome(v))
    /\ notified' = notified \ {Ticket(c)}
    /\ UNCHANGED <<gil, batch, coros>> /\ Quiet

-----------------------------------------------------------------------------
(* Batcher::execute, then the loop of start_batcher.                       *)
Submit(c) ==
    /\ Is(c, "submit")
    /\ batch' = [batch EXCEPT ![reqs[c].id].chan = Append(@, Ticket(c))]
    /\ To(c, "batch")
    /\ UNCHANGED <<gil, coros, notified>> /\ Quiet

Collect(id) ==
    LET b == batch[id]
    IN  /\ id \in DOMAIN batch
        /\ b.chan # <<>>
        /\ b.phase = "idle" \/ (b.phase = "collect" /\ Len(b.items) < MaxBatch)
        /\ batch' = [batch EXCEPT ![id] =
                        [chan |-> Tail(b.chan), items |-> Append(b.items, Head(b.chan)),
                         phase |-> "collect"]]
        /\ UNCHANGED <<reqs, gil, coros, notified>> /\ Quiet

(* The batch is full or its window is over: run_python of the processor.   *)
Flush(id) ==
    /\ id \in DOMAIN batch
    /\ batch[id].phase = "collect" /\ HasSlot
    /\ Enqueue([NoJob EXCEPT !.kind = "batch", !.tickets = batch[id].items, !.id = id,
                             !.handler = s.tables.handlers[id]])
    /\ batch' = [batch EXCEPT ![id].phase = "exec"]
    /\ UNCHANGED <<reqs, coros, notified>> /\ Quiet

(* The processor's results: one per request from the front, padded with    *)
(* 500s or cut to the batch's length; a raise is a 500 for everyone.       *)
Padded_Front(tickets, k) ==
    [i \in DOMAIN tickets |->
        LET j == i - (Len(tickets) - k)
        IN  IF j < 1 THEN [of |-> <<>>, reply |-> Reply(500, "mismatch")]
            ELSE [of |-> tickets[j], reply |-> Reply(200, "data")]]

Padded(tickets, k) ==
    [i \in DOMAIN tickets |->
        IF i <= k THEN [of |-> tickets[i], reply |-> Reply(200, "data")]
        ELSE [of |-> <<>>, reply |-> Reply(500, "mismatch")]]

(* The responders and the results are zipped; the batcher, if its run is   *)
(* not over, starts anew.                                                  *)
Scatter(tickets, results) ==
    /\ reqs' = [c \in Clients |->
                  IF Is(c, "batch") /\ Ticket(c) \in Range(tickets)
                  THEN LET i == CHOOSE j \in DOMAIN tickets : tickets[j] = Ticket(c)
                       IN  Answered(reqs[c].n, results[i].reply, results[i].of)
                  ELSE reqs[c]]
    /\ batch' = [id \in DOMAIN batch |->
                    IF batch[id].phase = "exec" /\ batch[id].items = tickets
                    THEN [batch[id] EXCEPT !.items = <<>>, !.phase = "idle"]
                    ELSE batch[id]]

ScatterResults ==
    /\ \E k \in 0 .. Len(gil.job.tickets) : Scatter(gil.job.tickets, Padded(gil.job.tickets, k))
    /\ JobDone

(* call_batch_handler gives a list, or raises: the results go out.  If it  *)
(* gives a future, the worker thread waits for it in result().             *)
FinishBatch ==
    /\ gil.job.kind = "batch"
    /\ \E v \in Returned[gil.job.handler] :
          IF v.kind = "future"
          THEN /\ gil' = [gil EXCEPT !.job.kind = "result"]
               /\ coros' = coros @@ (gil.job.tickets[1] :> [handler |-> gil.job.handler,
                                                            done |-> FALSE])
               /\ UNCHANGED <<reqs, batch>>
          ELSE ScatterResults /\ UNCHANGED coros
    /\ UNCHANGED notified /\ Quiet

(* future.result() returns to the worker.                                  *)
BatchResult ==
    /\ gil.job.kind = "result" /\ coros[gil.job.tickets[1]].done
    /\ ScatterResults
    /\ UNCHANGED <<coros, notified>> /\ Quiet

-----------------------------------------------------------------------------
(* handle_request's deadline drops the whole future, wherever it waits.    *)
GivesUp(c) ==
    /\ phase = "serving" /\ reqs[c].st \notin {"idle", "done"}
    /\ reqs' = Answers(c, Reply(504, "deadline"))
    /\ UNCHANGED <<gil, batch, coros, notified>> /\ Quiet

Worker == TakeJob \/ FinishCall \/ FinishBatch \/ BatchResult \/ WorkerPanics

Batchers == \E id \in 1 .. MaxRoutes : Collect(id) \/ Flush(id)

Task(c) == SendJob(c) \/ Submit(c) \/ AddDoneCallback(c) \/ ReadResult(c)

Next == \/ \E call \in Calls : Register(call)
        \/ Run \/ Stop
        \/ \E c \in Clients : \E r \in Inputs[c] : Arrive(c, r)
        \/ \E c \in Clients : Task(c) \/ GivesUp(c)
        \/ phase # "aborted" /\ Worker
        \/ phase = "serving" /\ Batchers
        \/ \E t \in DOMAIN coros : phase # "aborted" /\ CoroutineEnds(t)

(* Threads, tasks and timers run; no coroutine of Hangs need ever end, and *)
(* no deadline need fire.                                                  *)
EndsInTime(t) ==
    /\ phase # "aborted" /\ t \in DOMAIN coros
    /\ coros[t].handler \notin Hangs
    /\ CoroutineEnds(t)

Fairness == /\ WF_vars(phase # "aborted" /\ Worker)
            /\ WF_vars(phase = "serving" /\ Batchers)
            /\ \A c \in Clients : /\ SF_vars(Task(c))
                                  /\ \A n \in 1 .. MaxRequests[c] : WF_vars(EndsInTime(<<c, n>>))

Spec == Init /\ [][Next]_vars /\ Fairness

-----------------------------------------------------------------------------
(* Served as declared: in a first run of an application none of whose      *)
(* calls raised, every route whose registration returned is found under    *)
(* its method and path, with the handler and the CRUD spec of its last     *)
(* registration, and every parallel vector has an entry for it             *)
(* (get/post/... and the taking of the tables in run, native/app.rs).      *)
ServedAsDeclared ==
    (phase = "serving" /\ runs = 1 /\ ~raised) =>
        /\ Aligned(s.tables)
        /\ \A d \in declared :
              \E x \in s.router.routes :
                /\ x.method = d.method /\ x.pattern = Pattern(d.path)
                /\ s.tables.handlers[x.handler] = d.handler
                /\ s.tables.crud[x.handler] = d.crud

(* An answer is the asker's own: what a client is sent was computed from   *)
(* its own request or is an error made up for it, however batches are      *)
(* padded and cut and whatever requests were given up before               *)
(* (start_batcher's scatter, the batch processor in run, run_python).      *)
AnswersAreOwn ==
    \A c \in Clients : Is(c, "done") => reqs[c].of \in {<<>>, Ticket(c)}

(* The GIL worker waits in result() for a batch that never ends.           *)
WorkerIsHeld == gil.job.kind = "result" /\ gil.job.handler \in Hangs

(* Nobody waits behind a coroutine that never ends, unless it is a batch:  *)
(* a request for any other handler is answered although deadlines need not *)
(* fire (call_python_handler hands the future back instead of blocking the *)
(* GIL worker on it; resolve_async_response; the batch window).  The       *)
(* processor of a batch does block the worker on its future, so the one    *)
(* exception is a worker that is held by such a batch for good.            *)
ServedDespiteHanging ==
    \A c \in Clients :
        (phase = "serving" /\ ~Is(c, "idle") /\ reqs[c].h \notin Hangs)
            ~> (Is(c, "done") \/ phase # "serving" \/ []WorkerIsHeld)

(* What the two handlers read alike: the server turns XML into JSON, takes *)
(* a form whose files are within their limit however large the rest is,    *)
(* and answers a form that breaks off; the test client's handler does not. *)
ReadAlike(r) ==
    /\ r.ctype # "xml" /\ r.body # "broken"
    /\ ~(r.ctype = "multipart" /\ r.body = "bulky")

(* The test client tells the truth: apart from what its comment lists      *)
(* (batches, CRUD) and what ReadAlike leaves out, its handler refuses what *)
(* a server run with the same max_body_size refuses, and serves a route by *)
(* the same path (make_test_handler against make_native_handler).  The     *)
(* tables are fixed while serving: it is enough to look before the first   *)
(* request.                                                                *)
TestHandlerMirrors ==
    (phase = "serving" /\ \A c \in Clients : Is(c, "idle")) =>
        \A r \in Probes :
            ReadAlike(r) =>
                /\ TestPrologue(r) = Prologue(r)
                /\ LET id == Routed(r).handler
                   IN  (Routed(r).kind = "hit" /\ At(s, "batch_configs", id) = None
                            /\ ~ServedByCrud(s, id, r))
                        => TestPath(s, id, r) = Path(s, id, r)

(* What the application declared is what its server and its test client    *)
(* do, and each client gets its own part of it.                            *)
ApplicationIsSound == ServedAsDeclared /\ AnswersAreOwn /\ TestHandlerMirrors
=============================================================================
