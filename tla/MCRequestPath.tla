--------------------------- MODULE MCRequestPath ---------------------------
(* Small instances of RequestPath. *)
EXTENDS RequestPath

MCAnon == [bearer |-> FALSE, valid |-> FALSE, roles |-> {}, scopes |-> {}]
MCUser == [bearer |-> TRUE, valid |-> TRUE, roles |-> {"user"}, scopes |-> {}]

MCPlain ==
    [method |-> "POST", path |-> <<"/", "echo">>, origin |-> None,
     token |-> MCUser, key |-> None, qkey |-> None, accept |-> [c \in {} |-> 0],
     oversize |-> 0, upgrade |-> FALSE, wasm |-> 200, form |-> "other",
     body |-> "huge", claims |-> None]

MCInputs ==
    {MCPlain,
     [MCPlain EXCEPT !.method = "GET", !.wasm = 403, !.token = MCAnon],
     [MCPlain EXCEPT !.method = "GET", !.path = <<"/", "app", "/", "x">>,
                     !.token = MCAnon, !.origin = "o1",
                     !.accept = ("br" :> 5) @@ ("gzip" :> 5)]}

MCMiddleware ==
    {[kind |-> "log"],
     [kind |-> "compress"],
     JwtAuth(<<>>),
     [kind |-> "gateway"],
     [kind |-> "iprate"],
     Cors({"o1"}, TRUE),
     ApiKeyAuth({"k1"}, TRUE, <<[prefix |-> <<"/", "echo">>, need |-> [kind |-> "none"]]>>),
     [kind |-> "perroute", fallback |-> "all",
      rules |-> <<[prefix |-> <<"/", "app">>, method |-> "GET", bucket |-> "app"]>>]}

MCCustomRoutes == {<<"GET", <<"/", "app", "/", "{}">>>>}
MCMounts == <<[prefix |-> <<"/", "app">>, files |-> {<<"x">>}, fallback |-> FALSE]>>
MCFirstTable == {<<"GET", <<"/", "app", "/", "x">>>>}
MCDirFiles == {<<"echo">>}
MCEdits == {[table |-> {}, valid |-> TRUE], [table |-> MCFirstTable, valid |-> FALSE]}
MCBuckets == {"all", "app", "unknown"}
=============================================================================
