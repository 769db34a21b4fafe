----------------------------- MODULE RequestPath ----------------------------
(***************************************************************************)
(* The life of a request in justapi-core/src/server/mod.rs: the server is  *)
(* put together by builder calls in any order, run() freezes it, and every *)
(* request then goes through handle_request: input limits, WebSocket and   *)
(* WASM short cuts, down the middleware chain, through the router or the   *)
(* custom handler, back up the chain, and into static files when the chain *)
(* said 404.  The request timeout drops the chain wherever it awaits.      *)
(*                                                                         *)
(* Requests of different clients interleave at every chain position, and   *)
(* with the refill of rate-limit cells and the gateway's hot reload.       *)
(***************************************************************************)
EXTENDS Middleware

CONSTANTS Clients,       \* concurrent connections, one request at a time each
          Inputs,        \* requests a client may send
          Palette,       \* middleware the builder may add
          CustomRoutes,  \* <<method, pattern>> pairs for add_custom_route
          Mounts,        \* the static mounts of with_static_mounts, in order
          DirFiles,      \* the files below the directory of with_static_dir
          CacheCapacity, \* entries of a route cache (16384 in Router::new)
          Buckets,       \* rate-limit bucket keys
          Burst,         \* cells of a full bucket
          FirstTable,    \* what the gateway file says at start
          Edits,         \* what may be written to it: [table, valid]
          MaxCalls,      \* builder calls
          MaxRequests,   \* requests in all
          MaxRefills,    \* cells that come back
          MaxActs        \* edits of the gateway file, plus two per builder call

ASSUME BoundsAreNat == {CacheCapacity, Burst, MaxCalls, MaxRequests, MaxRefills, MaxActs} \subseteq Nat

VARIABLES phase,   \* "building", "serving" or "panicked"
          srv,     \* the Server struct
          reqs,    \* per client: where its request is
          sh,      \* state shared by the middleware
          file,    \* gateway file: content, validity; its watcher: queued change
                   \* events, stage of the reload, content read
          count    \* bounds: builder calls, requests, refills, file writes

vars == <<phase, srv, reqs, sh, file, count>>

Idle == [st |-> "idle", req |-> None, pos |-> 0, handler |-> None, reply |-> Error,
         logged |-> 0]

(* Server::new: an empty router, no handler but the dummy 404.             *)
NewServer ==
    [hasRouter |-> TRUE, router |-> NewRouter(CacheCapacity), custom |-> FALSE,
     defaults |-> FALSE, chain |-> <<>>, mounts |-> <<>>, dir |-> FALSE, wasm |-> FALSE]

(* GatewayState::load_config: methods it does not know are skipped, a      *)
(* pattern that will not insert is dropped.                                *)
LoadConfig(table) ==
    FoldSet(LAMBDA x, r : InsertRoute(r, x[1], x[2], "upstream"), NewRouter(CacheCapacity), table)

Unread == [table |-> {}, valid |-> FALSE]

Init == /\ phase = "building"
        /\ srv = NewServer
        /\ reqs = [c \in Clients |-> Idle]
        /\ sh = [cells |-> [b \in Buckets |-> Burst], gateway |-> LoadConfig(FirstTable)]
        /\ file = [table |-> FirstTable, valid |-> TRUE, events |-> 0, stage |-> "recv",
                   read |-> Unread]
        /\ count = [calls |-> 0, requests |-> 0, refills |-> 0, writes |-> 0]

-----------------------------------------------------------------------------
(* The builder.  A call on the wrong side of another panics.               *)

Call == /\ phase = "building"
        /\ count.calls < MaxCalls
        /\ count' = [count EXCEPT !.calls = @ + 1]
        /\ UNCHANGED <<reqs, sh, file>>

Panics == phase' = "panicked" /\ UNCHANGED srv
Builds(s) == srv' = s /\ UNCHANGED phase

InsertAll(routes) ==
    FoldSet(LAMBDA x, r : InsertRoute(r, x[1], x[2], x[3]), srv.router, routes)

Fresh(routes) == \A x \in routes : ~Registered(srv.router, x[1], x[2])

(* with_handler replaces the router, and with it every route added so far. *)
WithHandler ==
    /\ Call
    /\ IF srv.defaults THEN Panics
       ELSE Builds([srv EXCEPT !.hasRouter = FALSE, !.router = NewRouter(CacheCapacity),
                               !.custom = TRUE])

AddCustomRoute_Unchecked(m, p) ==
    /\ Call
    /\ IF ~Fresh({<<m, p, "custom">>}) THEN Panics
       ELSE Builds([srv EXCEPT !.hasRouter = TRUE,
                               !.router = InsertRoute(@, m, p, "custom")])

AddCustomRoute(m, p) ==
    /\ Call
    /\ IF srv.custom \/ ~Fresh({<<m, p, "custom">>}) THEN Panics
       ELSE Builds([srv EXCEPT !.router = InsertRoute(@, m, p, "custom")])

(* The default routes, one per handler kind the properties tell apart:     *)
(* /hello and /users/{id} are Static, /echo and /echo/{*rest} the echoes,  *)
(* /events Sse, /graphql GraphQL.                                          *)
DefaultRoutes ==
    {<<"GET", <<"/", "users", "/", "{}">>, "static">>,
     <<"POST", <<"/", "echo">>, "echo">>,
     <<"GET", <<"/", "echo", "/", "{*}">>, "static">>,
     <<"GET", <<"/", "graphql">>, "graphql">>}

WithDefaultRoutes ==
    /\ Call
    /\ IF srv.custom \/ ~Fresh(DefaultRoutes) THEN Panics
       ELSE Builds([srv EXCEPT !.router = [InsertAll(DefaultRoutes)
                                             EXCEPT !.fallback = "notfound"],
                               !.defaults = TRUE])

TokenPath == <<"/", "token">>

(* with_oauth2_password: the token route only if a router is left, the     *)
(* JwtAuth that exempts it in any case.                                    *)
WithOAuth2Password ==
    LET jwt == JwtAuth(<<[prefix |-> TokenPath, need |-> [kind |-> "none"]]>>)
        token == <<"POST", TokenPath, "token">>
    IN  /\ Call
        /\ IF srv.hasRouter /\ ~Fresh({token}) THEN Panics
           ELSE Builds([srv EXCEPT
                    !.router = IF srv.hasRouter THEN InsertAll({token}) ELSE @,
                    !.chain = Append(@, jwt)])

(* with_openai, with_openai_scheduled and with_openai_routed add the same   *)
(* four routes, and nothing at all when with_handler took the router away. *)
OpenAiRoutes ==
    {<<"POST", <<"/", "v1", "/", "chat", "/", "completions">>, "custom">>,
     <<"POST", <<"/", "v1", "/", "completions">>, "custom">>,
     <<"POST", <<"/", "v1", "/", "embeddings">>, "custom">>,
     <<"GET", <<"/", "v1", "/", "models">>, "custom">>}

WithOpenAi ==
    /\ Call
    /\ CASE ~srv.hasRouter -> Builds(srv)
         [] srv.hasRouter /\ ~Fresh(OpenAiRoutes) -> Panics
         [] OTHER -> Builds([srv EXCEPT !.router = InsertAll(OpenAiRoutes)])

(* add_cors, add_jwt, add_rate_limiter, ..., add_middleware.               *)
AddMiddleware(mw) == Call /\ Builds([srv EXCEPT !.chain = Append(@, mw)])

WithStaticMounts == Call /\ Builds([srv EXCEPT !.mounts = Mounts])

WithStaticDir == Call /\ Builds([srv EXCEPT !.dir = TRUE])

WithWasmMiddleware == Call /\ Builds([srv EXCEPT !.wasm = TRUE])

(* run, run_on and run_on_uds: a router that is left becomes the handler.  *)
Run == /\ phase = "building"
       /\ phase' = "serving"
       /\ UNCHANGED <<srv, reqs, sh, file, count>>

-----------------------------------------------------------------------------
(* handle_request.                                                         *)

Step(c, r) == reqs' = [reqs EXCEPT ![c] = r]

Done(r, reply) == [r EXCEPT !.st = "done", !.reply = reply]

(* Oversized parts are refused before anything is counted; an upgrade gets *)
(* its 101 past the whole chain; a WASM verdict other than 200 is final.   *)
Arrive(c, input) ==
    LET r == [Idle EXCEPT !.req = input, !.st = "down", !.pos = 1]
    IN  /\ phase = "serving"
        /\ reqs[c].st \in {"idle", "done"} /\ count.requests < MaxRequests
        /\ count' = [count EXCEPT !.requests = @ + 1]
        /\ Step(c, CASE input.oversize # 0 -> Done(r, Reply(input.oversize, "limits"))
                     [] input.oversize = 0 /\ input.upgrade -> Done(r, Reply(101, "ws"))
                     [] input.oversize = 0 /\ ~input.upgrade /\ srv.wasm
                          /\ input.wasm # 200 -> Done(r, Reply(input.wasm, "wasm"))
                     [] OTHER -> r)
        /\ UNCHANGED <<phase, srv, sh, file>>

(* Next::run: one middleware takes the request.                            *)
Descend(c) ==
    LET r == reqs[c]
        b == Before(srv.chain[r.pos], r.req, sh)
    IN  /\ r.st = "down" /\ r.pos <= Len(srv.chain)
        /\ sh' = b.sh
        /\ Step(c, IF b.stop
                   THEN [r EXCEPT !.st = "up", !.pos = @ - 1, !.reply = b.reply]
                   ELSE [r EXCEPT !.req = b.req, !.pos = @ + 1])
        /\ UNCHANGED <<phase, srv, file, count>>

(* make_handler: resolve through the route cache; 405 and an unmatched     *)
(* path without fallback are answered here.                                *)
Dispatch(c) ==
    LET r == reqs[c]
        found == Resolve(srv.router, r.req.method, r.req.path)
        up(reply) == [r EXCEPT !.st = "up", !.pos = Len(srv.chain), !.reply = reply]
        runs(h) == [r EXCEPT !.st = "run", !.handler = h]
    IN  /\ r.st = "down" /\ r.pos > Len(srv.chain)
        /\ IF ~srv.hasRouter
           THEN /\ Step(c, runs("custom"))
                /\ UNCHANGED srv
           ELSE /\ srv' = [srv EXCEPT !.router = found.router]
                /\ Step(c, CASE found.res.kind = "hit" -> runs(found.res.handler)
                             [] found.res.kind = "405" -> up(Reply(405, "router"))
                             [] found.res.kind = "404" /\ srv.router.fallback # None ->
                                   runs(srv.router.fallback)
                             [] OTHER -> up(Reply(404, "router")))
        /\ UNCHANGED <<phase, sh, file, count>>

(* token_handler: content type, form, grant, credentials, in that order.   *)
TokenReply(req) ==
    CASE req.form = "other" -> Reply(415, "handler")
      [] req.form = "broken" -> Error
      [] req.form \in {"grant", "empty"} -> Reply(400, "handler")
      [] req.form = "wrong" -> Reply(401, "handler")
      [] OTHER -> Reply(200, "handler")

(* execute_handler: what the matched handler may answer; a build without   *)
(* the graphql feature has only the 404 for /graphql.                      *)
HandlerReplies(h, req) ==
    CASE h = "static" -> {Reply(200, "handler")}
      [] h = "notfound" -> {Reply(404, "handler")}
      [] h = "echo" -> {Reply(CASE req.body = "huge" -> 413 [] req.body = "broken" -> 400
                                [] OTHER -> 200, "handler")}
      [] h = "graphql" -> {Reply(200, "handler"), Reply(500, "handler"),
                           Reply(404, "handler")}
      [] h = "token" -> {TokenReply(req)}
      [] OTHER -> {[Reply(200, "handler") EXCEPT !.large = TRUE],
                   [Reply(200, "handler") EXCEPT !.endless = TRUE],
                   Reply(404, "handler"), Error}

HandlerReturns(c) ==
    LET r == reqs[c]
    IN  /\ r.st = "run"
        /\ \E reply \in HandlerReplies(r.handler, r.req) :
              Step(c, [r EXCEPT !.st = "up", !.pos = Len(srv.chain), !.reply = reply])
        /\ UNCHANGED <<phase, srv, sh, file, count>>

Ascend_LogsOkOnly(c) ==
    LET r == reqs[c]
        mw == srv.chain[r.pos]
    IN  /\ r.st = "up" /\ r.pos > 0
        /\ CanAscend(mw, r.req, r.reply)
        /\ Step(c, [r EXCEPT !.pos = @ - 1,
                             !.reply = After(mw, r.req, r.reply),
                             !.logged = IF Logs(mw) /\ r.reply # Error THEN @ + 1
                                        ELSE @])
        /\ UNCHANGED <<phase, srv, sh, file, count>>

(* The answer passes one middleware on its way up; AccessLogger notes its  *)
(* status, 500 for an Err.                                                 *)
Ascend(c) ==
    LET r == reqs[c]
        mw == srv.chain[r.pos]
    IN  /\ r.st = "up" /\ r.pos > 0
        /\ CanAscend(mw, r.req, r.reply)
        /\ Step(c, [r EXCEPT !.pos = @ - 1,
                             !.reply = After(mw, r.req, r.reply),
                             !.logged = IF Logs(mw) THEN @ + 1 ELSE @])
        /\ UNCHANGED <<phase, srv, sh, file, count>>

(* StaticMount::resolve and StaticDir::resolve: a bare string prefix, the  *)
(* leading slash trimmed, nothing for the root itself or a "..".           *)
StaticResolve(mount, path) ==
    LET rel == IF mount.prefix = <<"/">> THEN path
               ELSE SubSeq(path, Len(mount.prefix) + 1, Len(path))
        trimmed == IF rel # <<>> /\ Head(rel) = "/" THEN Tail(rel) ELSE rel
    IN  /\ mount.prefix = <<"/">> \/ IsPrefix(mount.prefix, path)
        /\ \A i \in 1 .. Len(trimmed) : trimmed[i] # ".."
        /\ trimmed \in mount.files

UnderPrefix(mount, path) ==
    \/ mount.prefix = <<"/">>
    \/ path = mount.prefix
    \/ IsPrefix(Append(mount.prefix, "/"), path)

(* The legacy directory of with_static_dir is a mount at the root without  *)
(* a fallback, looked at after the others.                                 *)
LegacyDir == [prefix |-> <<"/">>, files |-> DirFiles, fallback |-> FALSE]

(* try_serve_static: the first mount with the file or a fallback, else the *)
(* legacy directory.                                                       *)
ServesStatic(path) ==
    LET mounts == srv.mounts \o IF srv.dir THEN <<LegacyDir>> ELSE <<>>
    IN  \E i \in 1 .. Len(mounts) :
            \/ StaticResolve(mounts[i], path)
            \/ mounts[i].fallback /\ UnderPrefix(mounts[i], path)

(* serve_file: small files are read, large ones streamed, always whole;    *)
(* with a file that cannot be opened or read, .ok() makes it None and the  *)
(* chain's 404 stands.                                                     *)
StaticReplies(reply) == {Reply(200, "static"), reply}

FinalReplies_AnyRefusal(r) ==
    CASE r.reply.status = 0 -> {Reply(500, "server")}
      [] r.reply.status \in {401, 403, 404} /\ ServesStatic(r.req.path) ->
            StaticReplies(r.reply)
      [] OTHER -> {r.reply}

(* The answer leaves the chain: an Err is a 500, a 404 gives the static    *)
(* files their chance.                                                     *)
FinalReplies(r) ==
    CASE r.reply.status = 0 -> {Reply(500, "server")}
      [] r.reply.status = 404 /\ ServesStatic(r.req.path) -> StaticReplies(r.reply)
      [] OTHER -> {r.reply}

Finish(c) ==
    LET r == reqs[c]
    IN  /\ r.st = "up" /\ r.pos = 0
        /\ \E reply \in FinalReplies(r) : Step(c, Done(r, reply))
        /\ UNCHANGED <<phase, srv, sh, file, count>>

(* tokio::time::timeout around chain.run: it can only fire where the chain *)
(* awaits, in the handler or in compression's body.collect().              *)
Awaits(r) ==
    \/ r.st = "run"
    \/ r.st = "up" /\ r.pos > 0 /\ ~CanAscend(srv.chain[r.pos], r.req, r.reply)

TimesOut_HandlerOnly(c) ==
    /\ reqs[c].st = "run"
    /\ Step(c, Done(reqs[c], Reply(504, "server")))
    /\ UNCHANGED <<phase, srv, sh, file, count>>

TimesOut(c) ==
    /\ Awaits(reqs[c])
    /\ Step(c, Done(reqs[c], Reply(504, "server")))
    /\ UNCHANGED <<phase, srv, sh, file, count>>

-----------------------------------------------------------------------------
(* governor gives a cell back per period (external).                       *)
Refill(b) ==
    /\ phase = "serving" /\ sh.cells[b] < Burst /\ count.refills < MaxRefills
    /\ sh' = [sh EXCEPT !.cells[b] = @ + 1]
    /\ count' = [count EXCEPT !.refills = @ + 1]
    /\ UNCHANGED <<phase, srv, reqs, file>>

(* Somebody edits the file of a gateway add_gateway put into the chain;    *)
(* notify queues an event, in the channel of ten or, while its thread is   *)
(* held by blocking_send, in the kernel.  An edit that is not valid is one *)
(* caught half written.                                                    *)
EditGatewayFile(edit) ==
    /\ phase = "serving" /\ 2 * count.calls + count.writes < MaxActs
    /\ \E i \in 1 .. Len(srv.chain) : srv.chain[i].kind = "gateway"
    /\ file' = [file EXCEPT !.table = edit.table, !.valid = edit.valid, !.events = @ + 1]
    /\ count' = [count EXCEPT !.writes = @ + 1]
    /\ UNCHANGED <<phase, srv, reqs, sh>>

(* GatewayState::watch: the loop takes one event and sleeps,               *)
GatewayReceive ==
    /\ file.stage = "recv" /\ file.events > 0
    /\ file' = [file EXCEPT !.events = @ - 1, !.stage = "sleep"]
    /\ UNCHANGED <<phase, srv, reqs, sh, count>>

(* then load_config reads what the file says by now,                       *)
GatewayLoad ==
    /\ file.stage = "sleep"
    /\ file' = [file EXCEPT !.stage = "store",
                            !.read = [table |-> file.table, valid |-> file.valid]]
    /\ UNCHANGED <<phase, srv, reqs, sh, count>>

GatewayStore_Drains ==
    /\ file.stage = "store"
    /\ file' = [file EXCEPT !.stage = "recv", !.read = Unread, !.events = 0]
    /\ sh' = IF file.read.valid THEN [sh EXCEPT !.gateway = LoadConfig(file.read.table)]
             ELSE sh
    /\ UNCHANGED <<phase, srv, reqs, count>>

(* and the table made of it is put in service, unless it did not parse:    *)
(* then the old one stays.                                                 *)
GatewayStore ==
    /\ file.stage = "store"
    /\ file' = [file EXCEPT !.stage = "recv", !.read = Unread]
    /\ sh' = IF file.read.valid THEN [sh EXCEPT !.gateway = LoadConfig(file.read.table)]
             ELSE sh
    /\ UNCHANGED <<phase, srv, reqs, count>>

GatewayReload == GatewayReceive \/ GatewayLoad \/ GatewayStore

Build == \/ WithHandler
         \/ \E x \in CustomRoutes : AddCustomRoute(x[1], x[2])
         \/ WithDefaultRoutes
         \/ WithOAuth2Password
         \/ WithOpenAi
         \/ \E mw \in Palette : AddMiddleware(mw)
         \/ WithStaticMounts
         \/ WithStaticDir
         \/ WithWasmMiddleware
         \/ Run

Serve(c) == \/ Descend(c) \/ Dispatch(c) \/ HandlerReturns(c) \/ Ascend(c)
            \/ Finish(c)

Next == \/ Build
        \/ \E c \in Clients : \E i \in Inputs : Arrive(c, i)
        \/ \E c \in Clients : Serve(c)
        \/ \E c \in Clients : TimesOut(c)
        \/ \E b \in Buckets : Refill(b)
        \/ \E e \in Edits : EditGatewayFile(e)
        \/ GatewayReload

(* tokio polls a ready task and fires an elapsed timer; the notify task    *)
(* keeps receiving.  Nothing is assumed of builders, clients or editors.   *)
Fairness == /\ \A c \in Clients : WF_vars(Serve(c)) /\ WF_vars(TimesOut(c))
            /\ WF_vars(GatewayReload)

Spec == Init /\ [][Next]_vars /\ Fairness

-----------------------------------------------------------------------------
Answered(c) == reqs[c].st = "done"

(* Installing a custom handler and installing routes exclude each other:   *)
(* whenever a custom handler was accepted there is no router left that     *)
(* run() would put in its place, whatever calls came before or after.      *)
CustomHandlerServes == srv.custom => ~srv.hasRouter

(* The route cache never changes an answer: with the table frozen by run,  *)
(* what any request would be told through the cache is what a fresh match  *)
(* says, and the cache stays within its capacity through evictions.        *)
RouteCacheTransparent ==
    phase = "serving" =>
        CacheTransparent(srv.router, {i.method : i \in Inputs}, {i.path : i \in Inputs})

Admits(mw, req) ==
    CASE mw.kind = "jwt" ->
            LET need == RequirementFor(mw, req.path)
            IN  need.kind = "none" \/ (req.token.valid /\ req.token.bearer
                                        /\ CheckClaims(req.token, need))
      [] mw.kind = "apikey" -> ~KeyRequired(mw, req.path)
                                 \/ ExtractKey(mw, req) \in mw.keys
      [] OTHER -> TRUE

(* Content is only given to a request every authentication middleware of   *)
(* the chain admits, wherever in the chain it sits, and that holds for     *)
(* static files too, which are served after the chain has answered.        *)
ContentBehindGuards ==
    \A c \in Clients :
        Answered(c) /\ reqs[c].reply.src \in {"handler", "static"} =>
            \A i \in 1 .. Len(srv.chain) : Admits(srv.chain[i], reqs[c].req)

Loggers == {i \in 1 .. Len(srv.chain) : Logs(srv.chain[i])}

(* The one AccessLogger of a chain, in front of it, logs every request the *)
(* chain answers exactly once; what it misses are the timeouts that drop   *)
(* the chain and the answers given before the chain is entered.            *)
LogFollowsChain ==
    \A c \in Clients :
        LET r == reqs[c]
        IN  Answered(c) /\ Loggers = {1} =>
                r.logged = IF r.reply.status = 504
                              \/ r.reply.src \in {"limits", "ws", "wasm"} THEN 0 ELSE 1

(* Builder calls in any order, and requests in any state of the caches and *)
(* the limiters, leave the four statements above true.                     *)
PathIsSound ==
    CustomHandlerServes /\ RouteCacheTransparent /\ ContentBehindGuards /\ LogFollowsChain

(* Every request the server has taken is answered, also when a compressing *)
(* chain waits for the end of an endless stream.                           *)
EveryRequestAnswered ==
    \A c \in Clients : reqs[c].st # "idle" ~> reqs[c].st = "done"

(* Once the editing stops, the table in service is what the file says, if  *)
(* it parses: an edit during the sleep, between the read and the store, or *)
(* while events are piled up is not lost, and a half-written file in       *)
(* between does not end the watching.                                      *)
GatewayConverges ==
    <>[](file.valid => sh.gateway = LoadConfig(file.table))

=============================================================================
