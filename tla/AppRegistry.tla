---------------------------- MODULE AppRegistry ----------------------------
(***************************************************************************)
(* What an application declares before it serves: native/app.rs of         *)
(* justapi-py.  A route is a row over eight parallel vectors; the router   *)
(* maps (method, path) to the row's index in the first of them.  Every     *)
(* operator takes the application record and returns                       *)
(* [app, ok], where ok is FALSE when the call raises to its Python caller; *)
(* whatever was pushed before the raise stays pushed.                      *)
(*                                                                         *)
(* A column value is "none", a value, or "bad": an argument whose          *)
(* evaluation (make_crud_spec, resolve_schema_json) raises.                *)
(*                                                                         *)
(* The second half is how one request is then served (native/handlers.rs). *)
(***************************************************************************)
EXTENDS Middleware

Columns ==
    <<"handlers", "native", "crud", "sse_specs", "schemas", "schema_jsons",
      "query_schema_jsons", "batch_configs">>

NoRows == [c \in Range(Columns) |-> <<>>]

(* JustAPIApp::new. *)
NewApp(plugins) ==
    [tables |-> NoRows, router |-> NewRouter(0), route_indices |-> {},
     named_routes |-> {}, route_meta |-> {}, ws_routes |-> {}, chain |-> {},
     database |-> FALSE, db_pool |-> FALSE, wasm |-> FALSE, plugins |-> plugins]

Returns(app) == [app |-> app, ok |-> TRUE]

Raises(app) == [app |-> app, ok |-> FALSE]

(* make_crud_spec: table and columns come together, and no empty column    *)
(* list; "partial" stands for an argument pair that is neither.            *)
MakeCrudSpec(arg) == IF arg = "partial" THEN "bad" ELSE arg

(* resolve_schema_json: no schema, a schema class or JSON text that parses;*)
(* anything else raises.                                                   *)
ResolveSchemaJson(arg) == IF arg \in {"notjson", "notschema"} THEN "bad" ELSE arg

Row(args) ==
    [handlers |-> args.handler, native |-> args.native,
     crud |-> MakeCrudSpec(args.crud), sse_specs |-> None,
     schemas |-> args.body_schema, schema_jsons |-> ResolveSchemaJson(args.schema),
     query_schema_jsons |-> ResolveSchemaJson(args.query),
     batch_configs |-> args.batch]

(* delete, head, options, trace and get take no body and no batch          *)
(* arguments.                                                              *)
BodylessRow(args) ==
    [Row(args) EXCEPT !.schemas = None, !.schema_jsons = None, !.batch_configs = None]

IsBad(row) == \E c \in Range(Columns) : row[c] = "bad"

FirstBad(row) ==
    IF IsBad(row)
    THEN CHOOSE i \in DOMAIN Columns :
            /\ row[Columns[i]] = "bad"
            /\ \A j \in 1 .. i - 1 : row[Columns[j]] # "bad"
    ELSE Len(Columns) + 1

PushAll(tables, row) == [c \in Range(Columns) |-> Append(tables[c], row[c])]

(* A path as it is written names its parameters; to the router they are    *)
(* all alike, so that two paths that differ in the names only conflict.    *)
Pattern(path) == [i \in DOMAIN path |-> IF path[i] \in {"{id}", "{name}"} THEN "{}" ELSE path[i]]

(* The pushes run in column order and stop where an argument raises.       *)
PushRow(tables, row) ==
    [c \in Range(Columns) |->
        IF \E i \in 1 .. FirstBad(row) - 1 : Columns[i] = c
        THEN Append(tables[c], row[c]) ELSE tables[c]]

(* store_meta and the entry of the name table.                             *)
StoreMeta(app, method, path) ==
    [app EXCEPT !.route_meta = @ \cup {<<method, path>>},
                !.named_routes = @ \cup {path}]

(* The body shared by post, put, patch, delete, query, head, options and   *)
(* trace: push the row, remember the metadata, and only then insert into   *)
(* the router, whose conflict error leaves all of it behind.               *)
RegisterRow(app, method, path, row) ==
    LET id == Len(app.tables.handlers) + 1
        pushed == [app EXCEPT !.tables = PushRow(@, row)]
        noted == StoreMeta(pushed, method, path)
    IN  CASE IsBad(row) -> Raises(pushed)
          [] ~IsBad(row) /\ Registered(app.router, method, Pattern(path)) -> Raises(noted)
          [] OTHER -> Returns([noted EXCEPT !.router =
                                   InsertRoute(@, method, Pattern(path), id)])

Post(app, path, args) == RegisterRow(app, "POST", path, Row(args))

Put(app, path, args) == RegisterRow(app, "PUT", path, Row(args))

Patch(app, path, args) == RegisterRow(app, "PATCH", path, Row(args))



Query(app, path, args) ==
    RegisterRow(app, "QUERY", path, [Row(args) EXCEPT !.batch_configs = None])

Delete(app, path, args) == RegisterRow(app, "DELETE", path, BodylessRow(args))

HeadRoute(app, path, args) == RegisterRow(app, "HEAD", path, BodylessRow(args))

Options(app, path, args) == RegisterRow(app, "OPTIONS", path, BodylessRow(args))

Trace(app, path, args) == RegisterRow(app, "TRACE", path, BodylessRow(args))

IndexOf(app, path) == (CHOOSE x \in app.route_indices : x[1] = path)[2]

Indexed(app, path) == \E x \in app.route_indices : x[1] = path

(* A GET path seen before keeps its index, and only the columns named are  *)
(* overwritten.  A new one is pushed whole and indexed, then inserted into *)
(* the router, whose conflict error leaves row and index behind: the next  *)
(* get of that path overwrites the orphan and returns.                     *)
RegisterGet(app, path, row, overwritten) ==
    LET id == Len(app.tables.handlers) + 1
        old == IndexOf(app, path)
        kept == [app EXCEPT !.tables =
                    [c \in Range(Columns) |->
                        IF c \in overwritten THEN [@[c] EXCEPT ![old] = row[c]] ELSE @[c]]]
        pushed == [app EXCEPT !.tables = PushAll(@, row),
                              !.route_indices = @ \cup {<<path, id>>}]
        fresh == [pushed EXCEPT !.router = InsertRoute(@, "GET", Pattern(path), id)]
    IN  CASE Indexed(app, path) -> Returns(StoreMeta(kept, "GET", path))
          [] ~Indexed(app, path) /\ Registered(app.router, "GET", Pattern(path)) ->
                Raises(pushed)
          [] OTHER -> Returns(StoreMeta(fresh, "GET", path))

Get_KeepsHandler(app, path, args) ==
    LET row == BodylessRow(args)
    IN  IF IsBad(row) THEN Raises(app)
        ELSE RegisterGet(app, path, row, {"native", "crud"})

(* get: the arguments are evaluated before anything is touched.            *)
Get(app, path, args) ==
    LET row == BodylessRow(args)
    IN  IF IsBad(row) THEN Raises(app)
        ELSE RegisterGet(app, path, row, Range(Columns) \ {"sse_specs", "batch_configs"})

(* sse_native: the handler is a placeholder, the stream is Rust's; the     *)
(* name is noted first.                                                    *)
SseNative(app, path) ==
    LET row == [c \in Range(Columns) |->
                   CASE c = "handlers" -> "placeholder" [] c = "sse_specs" -> "stream"
                     [] c = "native" -> "no" [] OTHER -> None]
        named == [app EXCEPT !.named_routes = @ \cup {path}]
    IN  RegisterGet(named, path, row, {"handlers", "sse_specs"})

(* websocket: one handler per path.                                        *)
WebSocketRoute(app, path) ==
    IF path \in app.ws_routes THEN Raises(app)
    ELSE Returns([app EXCEPT !.ws_routes = @ \cup {path}])

SetDatabase(app) == Returns([app EXCEPT !.database = TRUE])

(* connect_database: idempotent; needs a configured database that answers. *)
ConnectDatabase(app, reachable) ==
    CASE app.db_pool -> Returns(app)
      [] ~app.db_pool /\ app.database /\ reachable ->
            Returns([app EXCEPT !.db_pool = TRUE])
      [] OTHER -> Raises(app)

LoadWasmMiddleware(app) == Returns([app EXCEPT !.wasm = TRUE])

EnableCircuitBreaker(app) == Returns([app EXCEPT !.chain = @ \cup {"breaker"}])

EnableRequestCoalescing(app) == Returns([app EXCEPT !.chain = @ \cup {"coalescer"}])

EnableSecureHeaders(app) == Returns([app EXCEPT !.chain = @ \cup {"secure"}])

SetJwtAuth(app) == Returns([app EXCEPT !.chain = @ \cup {"jwt"}])

SetCors(app) == Returns([app EXCEPT !.chain = @ \cup {"cors"}])

EnableGateway(app) == Returns([app EXCEPT !.chain = @ \cup {"gateway"}])

(* url_for: the path of a named route, or a KeyError.                      *)
UrlFor(app, name) == IF name \in app.named_routes THEN Returns(app) ELSE Raises(app)

(* The call, by name, with its arguments.                                  *)
Apply(app, call) ==
    CASE call.op = "get" -> Get(app, call.path, call.args)
      [] call.op = "post" -> Post(app, call.path, call.args)
      [] call.op = "put" -> Put(app, call.path, call.args)
      [] call.op = "patch" -> Patch(app, call.path, call.args)
      [] call.op = "delete" -> Delete(app, call.path, call.args)
      [] call.op = "query" -> Query(app, call.path, call.args)
      [] call.op = "head" -> HeadRoute(app, call.path, call.args)
      [] call.op = "options" -> Options(app, call.path, call.args)
      [] call.op = "trace" -> Trace(app, call.path, call.args)
      [] call.op = "sse_native" -> SseNative(app, call.path)
      [] call.op = "websocket" -> WebSocketRoute(app, call.path)
      [] call.op = "url_for" -> UrlFor(app, call.path)
      [] call.op = "set_database" -> SetDatabase(app)
      [] call.op = "load_wasm_middleware" -> LoadWasmMiddleware(app)
      [] call.op = "enable_circuit_breaker" -> EnableCircuitBreaker(app)
      [] call.op = "enable_request_coalescing" -> EnableRequestCoalescing(app)
      [] call.op = "enable_secure_headers" -> EnableSecureHeaders(app)
      [] call.op = "enable_gateway" -> EnableGateway(app)
      [] call.op = "_set_jwt_auth" -> SetJwtAuth(app)
      [] call.op = "_set_cors" -> SetCors(app)

(* After a run took the tables, route_indices still holds their indices:   *)
(* get and sse_native of such a path index past the end.                   *)
IndexPanics(app, call) ==
    /\ call.op \in {"get", "sse_native"}
    /\ Indexed(app, call.path)
    /\ IndexOf(app, call.path) > Len(app.tables.handlers)

(* run moves the tables, the router and most settings out of the object.   *)
Taken(app) ==
    [app EXCEPT !.tables = NoRows, !.router = NewRouter(0)]

Drained(app) ==
    [Taken(app) EXCEPT !.ws_routes = {}, !.chain = @ \cap {"secure"},
                        !.wasm = FALSE, !.plugins = <<>>]

(* The order in which run adds the middleware that was asked for.          *)
AppChain(app, jwt, cors) ==
    SelectSeq(<<[kind |-> "breaker"], [kind |-> "coalescer"], [kind |-> "secure"],
                jwt, cors, [kind |-> "gateway"]>>,
              LAMBDA mw : mw.kind \in app.chain)

(* Every column has an entry for every handler id.                         *)
Aligned(tables) ==
    \A c \in Range(Columns) : Len(tables[c]) = Len(tables.handlers)

-----------------------------------------------------------------------------
(* make_native_handler and the functions it calls, native/handlers.rs of   *)
(* justapi-py, with crud_dispatch_bytes of justapi-core/src/server/crud.rs. *)
(* s holds the tables, the router and the pool that run captured.          *)
(*                                                                         *)
(* A request says of its body what the checks on it tell apart: "ok",      *)
(* "invalid" (not what its schema, media type or table asks for), "huge"   *)
(* (over max_body_size, and its files over max_upload_size), "bulky" (over *)
(* max_body_size, its files within max_upload_size) or "broken" (the       *)
(* connection fails while it is read).                                     *)

Go == Reply(100, "go")

(* QUERY without a Content-Type.                                           *)
RefuseQuery(r) == r.method = "QUERY" /\ r.ctype = None

(* parse_multipart: max_body_size does not count here, and of the form     *)
(* only the bytes of its files do; too many of them are a 413, anything    *)
(* else wrong a 400.                                                       *)
ReadMultipart(r) ==
    CASE r.body = "huge" -> Reply(413, "body")
      [] r.body \in {"invalid", "broken"} -> Reply(400, "body")
      [] OTHER -> Go

(* Limited::collect, then XML becomes JSON.                                *)
ReadBody(r) ==
    CASE r.body \in {"huge", "bulky"} -> Reply(413, "body")
      [] r.body = "broken" -> Error
      [] r.body = "invalid" /\ r.ctype = "xml" -> Reply(400, "body")
      [] OTHER -> Go

(* Everything that is read and checked before the route is looked up.      *)
Prologue(r) ==
    CASE RefuseQuery(r) -> Reply(400, "query")
      [] ~RefuseQuery(r) /\ r.ctype = "multipart" -> ReadMultipart(r)
      [] OTHER -> ReadBody(r)

(* What a schema, or the table of a CRUD route, says of the body: a form   *)
(* is not JSON, and the server has nothing left of its bytes.              *)
JsonValid(r) == r.ctype # "multipart" /\ r.body # "invalid"

(* .get(handler_id).flatten(): a missing entry reads as none.              *)
At(s, column, id) ==
    IF id \in DOMAIN s.tables[column] THEN s.tables[column][id] ELSE None

(* The CRUD operation a method stands for.                                 *)
CrudOp(method) ==
    CASE method = "POST" -> "insert"
      [] method = "GET" -> "select"
      [] method \in {"PUT", "PATCH"} -> "update"
      [] method = "DELETE" -> "delete"
      [] OTHER -> None

(* crud_dispatch_bytes: the possible answers, each with the rows the table *)
(* holds after it.  Every operation is one statement with RETURNING, so a  *)
(* row that is not there is a 404, and a database error changes nothing.   *)
(* No validator is passed: a body is refused only when it is not an object *)
(* with at least one allowed column.                                       *)
Answer(status, rows) == [reply |-> Reply(status, "crud"), rows |-> rows]

DbErrors(rows) == {Answer(500, rows), Answer(503, rows)}

InsertRow(r, rows) ==
    IF ~JsonValid(r) THEN {Answer(422, rows)}
    ELSE {Answer(200, rows \cup {r.row})} \cup DbErrors(rows)

SelectRows(r, rows) == {Answer(200, rows)} \cup DbErrors(rows)

UpdateRow(r, rows) ==
    CASE ~r.param -> {Answer(400, rows)}
      [] r.param /\ ~JsonValid(r) -> {Answer(422, rows)}
      [] OTHER -> {Answer(IF r.row \in rows THEN 200 ELSE 404, rows)} \cup DbErrors(rows)

DeleteRow(r, rows) ==
    IF ~r.param THEN {Answer(400, rows)}
    ELSE {Answer(IF r.row \in rows THEN 200 ELSE 404, rows \ {r.row})} \cup DbErrors(rows)

CrudDispatch(r, rows) ==
    CASE CrudOp(r.method) = "insert" -> InsertRow(r, rows)
      [] CrudOp(r.method) = "select" -> SelectRows(r, rows)
      [] CrudOp(r.method) = "update" -> UpdateRow(r, rows)
      [] CrudOp(r.method) = "delete" -> DeleteRow(r, rows)

ServedByCrud(s, id, r) ==
    At(s, "crud", id) # None /\ s.pool /\ CrudOp(r.method) # None

(* try_native_fast_path: validate in Rust and echo the body.               *)
NativeBody(s, id) == At(s, "native", id) = "yes" /\ At(s, "schema_jsons", id) # None

(* try_native_fast_path_query: the same for the query string.              *)
NativeQuery(s, id) == At(s, "native", id) = "yes" /\ At(s, "query_schema_jsons", id) # None

Validated(good, src) == IF good THEN Reply(200, src) ELSE Reply(422, src)

(* The fork in the road after a route matched, in the order it is tried.   *)
Path(s, id, r) ==
    CASE At(s, "batch_configs", id) # None -> "batch"
      [] At(s, "sse_specs", id) # None -> "sse"
      [] ServedByCrud(s, id, r) -> "crud"
      [] NativeBody(s, id) -> "native"
      [] NativeQuery(s, id) -> "native_query"
      [] At(s, "schema_jsons", id) # None /\ ~JsonValid(r) -> "refused"
      [] OTHER -> "python"

(* make_test_handler, a second copy of the above for the test client: it   *)
(* collects the body, a form's too, within its max_body_size before it     *)
(* parses a form, does not convert XML, and knows neither batchers nor     *)
(* CRUD routes.                                                            *)
TestPrologue(r) ==
    CASE RefuseQuery(r) -> Reply(400, "query")
      [] ~RefuseQuery(r) /\ r.body \in {"huge", "bulky"} -> Reply(413, "body")
      [] ~RefuseQuery(r) /\ r.body = "broken" -> Error
      [] ~RefuseQuery(r) /\ r.ctype = "multipart" /\ r.body = "invalid" -> Reply(400, "body")
      [] OTHER -> Go

TestPath_NoStream(s, id, r) ==
    CASE NativeBody(s, id) -> "native"
      [] NativeQuery(s, id) -> "native_query"
      [] At(s, "schema_jsons", id) # None /\ ~JsonValid(r) -> "refused"
      [] OTHER -> "python"

TestPath(s, id, r) ==
    CASE At(s, "sse_specs", id) # None -> "sse"
      [] NativeBody(s, id) -> "native"
      [] NativeQuery(s, id) -> "native_query"
      [] At(s, "schema_jsons", id) # None /\ ~JsonValid(r) -> "refused"
      [] OTHER -> "python"

(* The first three entries are read with .get, but schemas and             *)
(* needs_request are indexed on the way to the Python handler.             *)
IndexOutOfBounds(s, id) == id \notin DOMAIN s.tables.schemas

(* call_python_handler validates a body_schema under the GIL first.        *)
BodyValidated(s, id, r) == At(s, "schemas", id) = None \/ JsonValid(r)

EnvelopeKeys == {"status", "headers", "body", "__response__"}

(* serialize_response: a Response, an envelope, JSON, bytes, or whatever   *)
(* wrap_result makes of it.  The reply's source says whether the value's   *)
(* data reached the client.                                                *)
SerializeResponse(v) ==
    CASE v.kind = "response" -> Reply(v.status, "data")
      [] v.kind = "dict" /\ (v.keys \subseteq EnvelopeKeys \/ v.explicit) ->
            Reply(v.status, IF "body" \in v.keys THEN "data" ELSE "empty")
      [] v.kind = "dict" /\ ~(v.keys \subseteq EnvelopeKeys \/ v.explicit) ->
            Reply(200, "data")
      [] v.kind = "object" -> Reply(500, "unserializable")

(* handle_ok_result: streams become a channel-backed body.                 *)
HandleOk(v) ==
    IF v.kind = "stream" THEN [Reply(200, "stream") EXCEPT !.endless = TRUE]
    ELSE SerializeResponse(v)

(* handle_py_error: only an HTTPException chooses its status.              *)
HandlePyError(v) ==
    CASE v.kind = "HTTPException" -> Reply(v.status, "raised")
      [] v.kind = "RequestValidationError" -> Reply(422, "raised")
      [] OTHER -> Reply(500, "raised")

Raised(v) == v.kind \in {"HTTPException", "RequestValidationError", "Exception"}

Outcome(v) == IF Raised(v) THEN HandlePyError(v) ELSE HandleOk(v)
=============================================================================
