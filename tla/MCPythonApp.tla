---------------------------- MODULE MCPythonApp ----------------------------
(* A small Python application. *)
EXTENDS PythonApp

MCNoToken == [bearer |-> FALSE, valid |-> FALSE, roles |-> {}, scopes |-> {}]
MCJwt == JwtAuth(<<>>)
MCCors == Cors({"o1"}, FALSE)

P(x) == <<"/", x>>

MCArgs == [handler |-> "sync", native |-> "no", crud |-> None, body_schema |-> None,
           schema |-> None, query |-> None, batch |-> None]

MCCall(op, path, args) == [op |-> op, path |-> path, args |-> args]

MCWeb ==
    <<MCCall("post", P("s"), [MCArgs EXCEPT !.body_schema = "S"]),
      MCCall("post", P("b"), [MCArgs EXCEPT !.handler = "batched", !.batch = "two"]),
      MCCall("get", P("h"), [MCArgs EXCEPT !.handler = "hang"])>>

MCCrud ==
    <<[op |-> "set_database"],
      MCCall("put", P("i"), [MCArgs EXCEPT !.handler = "item", !.crud = "items"]),
      MCCall("get", P("{id}"), MCArgs)>>

MCTorn ==
    <<MCCall("delete", P("i"), [MCArgs EXCEPT !.crud = "partial"]),
      MCCall("post", P("s"), MCArgs)>>

MCPreludes == {MCWeb, MCCrud, MCTorn}

MCCalls ==
    {MCCall("get", P("h"), [MCArgs EXCEPT !.handler = "co"]),
     MCCall("get", P("{name}"), MCArgs),
     MCCall("post", P("a"), [MCArgs EXCEPT !.handler = "cobatch", !.batch = "two"]),
     MCCall("put", P("i"), [MCArgs EXCEPT !.handler = "item", !.crud = "items"]),

     MCCall("post", P("n"), [MCArgs EXCEPT !.native = "yes", !.schema = "S"]),
     MCCall("query", P("n"), [MCArgs EXCEPT !.native = "yes", !.query = "Q"]),
     MCCall("sse_native", P("e"), MCArgs),
     [op |-> "load_wasm_middleware"]}

MCRequest ==
    [method |-> "POST", path |-> P("s"), ctype |-> "json", body |-> "ok", query |-> "ok",
     param |-> FALSE, row |-> "r1", origin |-> None, token |-> MCNoToken, claims |-> None]

MCShared ==
    {MCRequest,
     [MCRequest EXCEPT !.ctype = "multipart"],
     [MCRequest EXCEPT !.path = P("b"), !.body = "invalid"],
     [MCRequest EXCEPT !.path = P("a")]}

MCInputs ==
    ("c1" :> MCShared \cup
        {[MCRequest EXCEPT !.method = "GET", !.path = P("h")],
         [MCRequest EXCEPT !.method = "PUT", !.path = P("i"), !.param = TRUE],
         [MCRequest EXCEPT !.path = P("n"), !.body = "invalid"],
         [MCRequest EXCEPT !.method = "QUERY", !.path = P("n")],
         [MCRequest EXCEPT !.body = "bulky"],
         [MCRequest EXCEPT !.method = "GET", !.path = P("e")]})
    @@ ("c2" :> MCShared)

MCProbes ==
    [method : {"GET", "POST", "QUERY"}, path : {P("s"), P("h"), P("n"), P("e")},
     ctype : {None, "json", "xml", "multipart"},
     body : {"ok", "invalid", "huge", "bulky", "broken"},
     query : {"ok", "invalid"}]

MCDict == [kind |-> "dict", keys |-> {"status"}, explicit |-> FALSE, status |-> 200]
MCRefusal == [kind |-> "HTTPException", status |-> 403]
MCReturned ==
    [h \in {"sync", "hang", "co", "item", "batched", "cobatch", "placeholder"} |->
        CASE h \in {"hang", "co", "cobatch"} -> {[kind |-> "future"]}
          [] h = "batched" -> {[kind |-> "list"]}
          [] OTHER -> {MCDict, MCRefusal}]
MCAwaited == [h \in {"hang", "co"} |-> {MCDict}]
MCClients == {"c1", "c2"}
MCMaxRequests == ("c1" :> 2) @@ ("c2" :> 1)
MCPlugins == <<"p1">>
MCHangs == {"hang", "cobatch"}
MCRows == {"r1"}
=============================================================================
