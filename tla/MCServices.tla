----------------------------- MODULE MCServices -----------------------------
(***************************************************************************)
(* The services around a request, which share no state: the circuit        *)
(* breaker, the resilience chain, the database, migrations, static files,  *)
(* metrics and health.  They are checked side by side, one per behaviour:  *)
(* pick says which one moves, the others stay in their initial state.      *)
(*                                                                         *)
(* Breaker: four slots, so that requests of the closed breaker can outlive *)
(* an open and a half-open period; SuccessThreshold = HalfOpenMax + 1, the *)
(* largest threshold the probes of one half-open period can reach.         *)
(***************************************************************************)
EXTENDS CircuitBreaker, Resilience, Migrations

VARIABLES
    pick,
    config, free, task, waits, asked, answer, up, store,
    file, age, serving,
    cell, recording, seen, overlap,
    probes, pc, now, outcome, deadline, reply

-----------------------------------------------------------------------------

\* Two requests of one path and one of another, two permits, room for one
\* breaker, and two fallbacks that cover the first path.
MCPathOf == [r \in Clients |-> IF r = "c3" THEN "b" ELSE "a"]
MCFallbacks == {[covers |-> {"a"}, status |-> s] : s \in {200, 210}}
MCChaos == [enabled |-> TRUE, errors |-> TRUE]

-----------------------------------------------------------------------------

Statement(do, value) == [do |-> do, value |-> value, unrendered |-> FALSE, rows |-> 0, chunk |-> 0]
Write(value) == Statement("write", value)
Read == Statement("read", "none")
Bad == Statement("fail", "none")
Odd == [Write("int") EXCEPT !.unrendered = TRUE]
Streamed(rows, chunk) == [Read EXCEPT !.rows = rows, !.chunk = chunk]

Call(op, stmts) == [op |-> op, stmts |-> stmts, isolation |-> "none"]

\* Two callers of a pool with one connection.
Db == INSTANCE Database WITH
    Callers <- {"a", "b"},
    MaxConnections <- 1,
    Calls <- {Call("insert", <<Write(v)>>) : v \in {"none", "int", "nan", "bigint", "hugeint", "DbParam", "dict"}}
             \cup {Call("query", <<Read>>), Call("execute", <<Odd>>)}
             \cup {Call("stream", <<Streamed(r, k)>>) : r \in {3}, k \in {0, 2}}
             \cup {Call("insert", <<Bad>>), Call("health", <<Read>>)}
             \cup {[Call("transaction", s) EXCEPT !.isolation = i] :
                      s \in {<<Write("int"), Write("int")>>, <<Write("int"), Bad>>, <<Write("int"), Odd>>},
                      i \in {"snapshot", "none"}},
    Configs <- {[kind |-> "postgres", isolation |-> "serializable"], [kind |-> "sqlite", isolation |-> "bogus"]}

-----------------------------------------------------------------------------

File(v, n, d) == [version |-> v, named |-> n, down |-> d]

\* Two processes; one directory is out of order, in one a name does not parse,
\* in one two files share a version; the first migration cannot be applied
\* twice, the second is a script of several statements.
MCDirectories ==
    {<<File(2, TRUE, TRUE), File(1, TRUE, TRUE), File(3, TRUE, FALSE)>>,
     <<File(1, TRUE, TRUE), File(2, FALSE, TRUE)>>,
     <<File(2, TRUE, TRUE), File(2, TRUE, FALSE), File(1, TRUE, TRUE)>>}

-----------------------------------------------------------------------------

\* Every range with ends up to one beyond the longest file, which is streamed.
Static == INSTANCE StaticFiles WITH
    Requests <- {"s"},
    MaxLen <- 2,
    Small <- 1,
    MaxEdits <- 2,
    MaxAge <- 1,
    Ranges <- [form : {"both"}, first : 0..3, last : 0..3] \cup [form : {"from"}, first : 0..3, last : {0}]
              \cup [form : {"suffix"}, first : {0}, last : 0..3] \cup {[form |-> "bad", first |-> 0, last |-> 0]}

\* Latencies on the first and above the last bound.
Met == INSTANCE Metrics WITH
    Requests <- {"m1", "m2"},
    Bounds <- <<1, 2>>,
    Latencies <- {1, 3},
    Codes <- {2}

\* Up to three probes; time runs to where their timeouts would add up.
Hea == INSTANCE Health WITH Timeout <- 2, MaxProbes <- 3, MaxNow <- 6

-----------------------------------------------------------------------------

dbVars == <<config, free, task, waits, asked, answer, up, store>>
staticVars == <<file, age, serving>>
metVars == <<cell, recording, seen, overlap>>
heaVars == <<probes, pc, now, outcome, deadline, reply>>

allVars == <<pick, vars, resVars, dbVars, migVars, staticVars, metVars, heaVars>>

SvcInit ==
    /\ pick \in {"breaker", "resilience", "database", "migrations", "static", "metrics", "health"}
    /\ Init /\ ResilienceInit /\ Met!Init /\ Hea!Init
    /\ Db!Init /\ (pick = "database" \/ config.kind = "sqlite")
    /\ MigratorInit /\ (pick = "migrations" \/ Len(dir) = 2)
    /\ Static!Init /\ (pick = "static" \/ file.len = 0)

SvcNext ==
    \/ /\ pick = "breaker" /\ Next
       /\ UNCHANGED <<pick, resVars, dbVars, migVars, staticVars, metVars, heaVars>>
    \/ /\ pick = "resilience" /\ ResilienceNext
       /\ UNCHANGED <<pick, vars, dbVars, migVars, staticVars, metVars, heaVars>>
    \/ /\ pick = "database" /\ Db!Next
       /\ UNCHANGED <<pick, vars, resVars, migVars, staticVars, metVars, heaVars>>
    \/ /\ pick = "migrations" /\ MigratorNext
       /\ UNCHANGED <<pick, vars, resVars, dbVars, staticVars, metVars, heaVars>>
    \/ /\ pick = "static" /\ Static!Next
       /\ UNCHANGED <<pick, vars, resVars, dbVars, migVars, metVars, heaVars>>
    \/ /\ pick = "metrics" /\ Met!Next
       /\ UNCHANGED <<pick, vars, resVars, dbVars, migVars, staticVars, heaVars>>
    \/ /\ pick = "health" /\ Hea!Next
       /\ UNCHANGED <<pick, vars, resVars, dbVars, migVars, staticVars, metVars>>

\* The fairness of each part, for the behaviours in which it moves.
SvcFairness ==
    /\ WF_vars(pick = "breaker" /\ Elapse)
    /\ WF_vars(pick = "breaker" /\ \E r \in Requests : Admit(r))
    /\ \A r \in Requests : WF_vars(pick = "breaker" /\ (Succeed(r) \/ Fail(r)))

    /\ \A c \in {"a", "b"} : WF_dbVars(pick = "database" /\ Db!PoolWork(c))

SvcSpec == SvcInit /\ [][SvcNext]_allVars /\ SvcFairness

-----------------------------------------------------------------------------
\* The properties of the instantiated parts, each stated where the part is
\* modelled; those of the parts that are extended are checked as they are.

\* Atomic transactions, faithful answers and no lost connection: Database.
CallsAreSound == Db!CallsAreSound

\* Only a statement that hangs keeps a caller of the pool: Database.
CallersAreAnswered == Db!CallersAreAnswered

\* What the built-in endpoints tell a client is exact, although files are
\* replaced, counters move and probes hang meanwhile: StaticFiles, Metrics
\* and Health.
EndpointsAreExact == Static!RepliesAreExact /\ Met!ScrapeIsAccurate /\ Hea!ReportsInTime

=============================================================================
