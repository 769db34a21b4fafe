------------------------------ MODULE Database ------------------------------
(***************************************************************************)
(* The database bridge: AnyPool (justapi-core/src/db/pool.rs) behind the   *)
(* Python DbPool (justapi-py/src/database.rs).  A caller hands a statement *)
(* or a transaction to a task on the database's own runtime and waits for  *)
(* its answer; an asyncio caller may give up waiting; the runtime may be   *)
(* dropped with tasks in flight.                                           *)
(*                                                                         *)
(* The engine behind sqlx is external: a statement reads the column, or    *)
(* writes a value to it, or fails.  A value is its kind: the conversions   *)
(* between Python, JSON and the column are what the code does with a kind. *)
(***************************************************************************)
EXTENDS Integers, Sequences, FiniteSetsExt

CONSTANTS
    Callers,
    MaxConnections,
    Calls,          \* [op, stmts, isolation]; a statement is [do, value, unrendered,
                    \* rows, chunk]: unrendered says that it returns a column the
                    \* bridge cannot render
    Configs         \* [kind, isolation]

VARIABLES
    config,         \* DatabaseConfig: the engine and the isolation string
    free,           \* idle connections
    task,           \* the task of each caller on the runtime
    waits,          \* the caller waits for the answer
    asked,          \* the call of each caller
    answer,         \* what the caller got
    up,             \* the runtime exists
    store           \* the committed writes <<caller, statement>>, in order

vars == <<config, free, task, waits, asked, answer, up, store>>

Levels == {"readuncommitted", "readcommitted", "repeatableread", "serializable", "snapshot"}
NoTask == [pc |-> "none"]
NoAnswer == [kind |-> "none"]
Failed(why) == [kind |-> "error", why |-> why]
Got(value) == [kind |-> "ok", value |-> value]

Init ==
    /\ config \in Configs
    /\ free = MaxConnections
    /\ task = [c \in Callers |-> NoTask]
    /\ waits = [c \in Callers |-> FALSE]
    /\ asked = [c \in Callers |-> [op |-> "none"]]
    /\ answer = [c \in Callers |-> NoAnswer]
    /\ up = TRUE
    /\ store = <<>>

-----------------------------------------------------------------------------
(* Values on their way to a column and back *)

\* A Python object as JSON: a number that is no float in JSON is null, an
\* integer beyond 64 bits is a float while a float can hold it, and what has
\* no JSON form, a larger integer among it, is its str().
PythonToJson(v) ==
    CASE v \in {"none", "nan"}                    -> "null"
      [] v = "bigint"                             -> "float"
      [] v = "DbParam"                            -> "marker"
      [] v \in {"list", "dict"}                   -> "document"
      [] v \in {"bool", "int", "float", "text"}   -> v
      [] OTHER                                    -> "text"

ToParam_NoMarker(v) ==
    CASE v \in {"marker", "document"} -> "text" [] OTHER -> v

\* Param::from and bind_param: a document is bound as its text.
ToParam(v) ==
    CASE v = "marker" -> "bytes" [] v = "document" -> "text" [] OTHER -> v

\* A column as JSON.
ColumnToJson(v) ==
    CASE v = "bytes" -> "marker" [] v = "inf" -> "null" [] OTHER -> v

\* JSON as a Python object: the marker of a blob stays a dict.
JsonToPython(v) ==
    CASE v = "null" -> "none" [] v = "marker" -> "dict" [] OTHER -> v

\* query_stream: the rows in chunks.
QueryStream(n, chunk) ==
    LET size == IF chunk = 0 THEN 1 ELSE chunk
        full == [i \in 1..(n \div size) |-> size]
    IN IF n % size = 0 THEN full ELSE Append(full, n % size)

-----------------------------------------------------------------------------
(* Isolation *)

ParseIsolation(s) == IF s \in Levels THEN s ELSE "default"

DefaultIsolation == ParseIsolation(config.isolation)

\* The level of a call: its own string if that names one, the pool's otherwise.
Requested(call) ==
    IF ParseIsolation(call.isolation) # "default" THEN ParseIsolation(call.isolation)
    ELSE DefaultIsolation

IsSupported(level) == config.kind = "sqlite" => level = "serializable"

\* begin_with: SQLite has one level and is never told.
BeginWith(level) ==
    IF level = "default" \/ ~IsSupported(level) \/ config.kind = "sqlite" THEN "default"
    ELSE IF level = "snapshot" THEN "repeatableread"
    ELSE level

-----------------------------------------------------------------------------
(* The caller *)

Op(op, blocking) == [op |-> op, blocking |-> blocking]

Query == Op("query", TRUE)
Execute == Op("execute", TRUE)
Insert == Op("insert", TRUE)
Health == Op("health", TRUE)
Stream == Op("stream", TRUE)
Transaction == Op("transaction", TRUE)
QueryAsync == Op("query", FALSE)
ExecuteAsync == Op("execute", FALSE)

Operations == {Query, Execute, Insert, Health, Stream, Transaction, QueryAsync, ExecuteAsync}

\* run_blocking, and future_into_py with a spawned task: the parameters are
\* converted, the task is spawned, the caller waits.  A runtime that is gone
\* drops the task at once, and the caller hears of that.
RunBlocking(c, call, o) ==
    /\ answer[c] = NoAnswer /\ task[c] = NoTask
    /\ call.op = o.op
    /\ asked' = [asked EXCEPT ![c] = call]
    /\ \/ /\ up
          /\ task' = [task EXCEPT ![c] = [pc |-> "acquire", op |-> call.op, blocking |-> o.blocking,
                                          stmts |-> call.stmts, level |-> "none", at |-> 1,
                                          isolation |-> Requested(call), rows |-> <<>>, affected |-> 0]]
          /\ waits' = [waits EXCEPT ![c] = TRUE]
          /\ UNCHANGED answer
       \/ /\ ~up
          /\ answer' = [answer EXCEPT ![c] = Failed("dropped")]
          /\ UNCHANGED <<task, waits>>
    /\ UNCHANGED <<config, free, up, store>>

\* The coroutine is cancelled; the spawned task does not notice.
GiveUp(c) ==
    /\ waits[c] /\ task[c] # NoTask /\ ~task[c].blocking
    /\ waits' = [waits EXCEPT ![c] = FALSE]
    /\ answer' = [answer EXCEPT ![c] = Failed("cancelled")]
    /\ UNCHANGED <<config, free, task, asked, up, store>>

-----------------------------------------------------------------------------
(* The task *)

\* The answer reaches a caller that still waits.
Answered(c, a) ==
    /\ answer' = IF waits[c] THEN [answer EXCEPT ![c] = a] ELSE answer
    /\ waits' = [waits EXCEPT ![c] = FALSE]

Ends_Leaks(c, a) ==
    /\ task' = [task EXCEPT ![c] = NoTask]
    /\ free' = IF a.kind = "error" THEN free ELSE free + 1
    /\ Answered(c, a)

\* The task ends; its connection goes back, and an open transaction with it.
Ends(c, a) ==
    /\ task' = [task EXCEPT ![c] = NoTask]
    /\ free' = free + 1
    /\ Answered(c, a)

InTransaction(c) == task[c].op = "transaction"

\* insert_returning of a body with no insertable column asks for no connection.
NothingToInsert(c) == task[c].op = "insert" /\ task[c].stmts[1].do = "fail"

Refuse(c) ==
    /\ task[c].pc = "acquire" /\ NothingToInsert(c)
    /\ task' = [task EXCEPT ![c] = NoTask]
    /\ Answered(c, Failed("columns"))
    /\ UNCHANGED <<config, free, asked, up, store>>

\* The pool lends a connection: to the statement, or to the transaction that
\* begins on it.
Acquire(c) ==
    /\ task[c].pc = "acquire" /\ ~NothingToInsert(c) /\ free > 0
    /\ free' = free - 1
    /\ task' = [task EXCEPT ![c].pc = IF InTransaction(c) THEN "begin" ELSE "run"]
    /\ UNCHANGED <<config, waits, asked, answer, up, store>>

\* The pool has room for a connection but cannot open one.
ConnectFails(c) ==
    /\ task[c].pc = "acquire" /\ ~NothingToInsert(c) /\ free > 0
    /\ task' = [task EXCEPT ![c] = NoTask]
    /\ Answered(c, Failed("connect"))
    /\ UNCHANGED <<config, free, asked, up, store>>

AcquireTimesOut_Off(c) ==
    FALSE /\ UNCHANGED vars

\* PoolTimedOut, after the acquire_timeout that connect always sets: nothing
\* was taken.
AcquireTimesOut(c) ==
    /\ task[c].pc = "acquire" /\ ~NothingToInsert(c) /\ free = 0
    /\ task' = [task EXCEPT ![c] = NoTask]
    /\ Answered(c, Failed("timed out"))
    /\ UNCHANGED <<config, free, asked, up, store>>

\* begin_with: the engine begins the transaction and is told the level; it may
\* refuse either.
Begin(c) ==
    /\ task[c].pc = "begin"
    /\ \/ Ends(c, Failed("begin"))
       \/ /\ task' = [task EXCEPT ![c].pc = "run", ![c].level = BeginWith(task[c].isolation)]
          /\ UNCHANGED <<free, waits, answer>>
    /\ UNCHANGED <<config, asked, up, store>>

Column == IF store = <<>> THEN "null" ELSE store[Len(store)].value

Written(c, i, s) == [c |-> c, at |-> i, value |-> ToParam(PythonToJson(s.value))]

\* What a statement leaves in the store when it is not in a transaction.
AutoCommit(c, s) ==
    IF s.do = "write" THEN Append(store, Written(c, task[c].at, s)) ELSE store

\* What the caller gets of it: rows, chunks of rows, or a count.
Result(c, s, column) ==
    CASE s.unrendered                      -> Failed("column")
      [] ~s.unrendered /\ task[c].op \in {"execute", "health"} -> Got("affected")
      [] ~s.unrendered /\ task[c].op = "stream" -> Got(QueryStream(s.rows, s.chunk))
      [] ~s.unrendered /\ task[c].op \in {"query", "insert"} ->
             Got(JsonToPython(ColumnToJson(column)))

\* Outside a transaction a statement commits by itself; its rows are rendered
\* after that.  A connection that breaks leaves open whether it ran.
RunStatement(c) ==
    /\ task[c].pc = "run" /\ ~InTransaction(c)
    /\ LET s == task[c].stmts[1]
       IN \/ s.do = "fail" /\ Ends(c, Failed("database")) /\ UNCHANGED store
          \/ /\ s.do # "fail"
             /\ store' = AutoCommit(c, s)
             /\ Ends(c, Result(c, s, Column'))
          \/ store' \in {store, AutoCommit(c, s)} /\ Ends(c, Failed("lost"))
    /\ UNCHANGED <<config, asked, up>>

\* The statements of a transaction that have run, as the engine would commit
\* them.
Pending(c) ==
    LET ran == SubSeq(task[c].stmts, 1, task[c].at - 1)
        f[i \in 0..Len(ran)] ==
            IF i = 0 THEN <<>> ELSE IF ran[i].do = "write" THEN Append(f[i - 1], Written(c, i, ran[i])) ELSE f[i - 1]
    IN f[Len(ran)]

TransactionStep_OnPool(c) ==
    /\ task[c].pc = "run" /\ InTransaction(c) /\ task[c].at <= Len(task[c].stmts)
    /\ LET s == task[c].stmts[task[c].at]
       IN \/ (s.do = "fail" \/ s.unrendered) /\ Ends(c, Failed("database")) /\ UNCHANGED store
          \/ /\ s.do # "fail" /\ ~s.unrendered
             /\ store' = AutoCommit(c, s)
             /\ task' = [task EXCEPT ![c].at = @ + 1]
             /\ UNCHANGED <<free, waits, answer>>
    /\ UNCHANGED <<config, asked, up>>

\* One statement of transaction_with_isolation: any error leaves the function,
\* and the transaction is rolled back as it is dropped.
TransactionStep(c) ==
    /\ task[c].pc = "run" /\ InTransaction(c) /\ task[c].at <= Len(task[c].stmts)
    /\ LET s == task[c].stmts[task[c].at]
       IN \/ (s.do = "fail" \/ s.unrendered) /\ Ends(c, Failed("database"))
          \/ /\ s.do # "fail" /\ ~s.unrendered
             /\ task' = [task EXCEPT ![c].at = @ + 1,
                                     ![c].rows = IF s.do = "read" THEN <<s>> ELSE <<>>,
                                     ![c].affected = @ + (IF s.do = "write" THEN 1 ELSE 0)]
             /\ UNCHANGED <<free, waits, answer>>
    /\ UNCHANGED <<config, asked, up, store>>

Commit_IgnoresError(c) ==
    /\ task[c].pc = "run" /\ InTransaction(c) /\ task[c].at > Len(task[c].stmts)
    /\ store' \in {store, store \o Pending(c)}
    /\ Ends(c, IF task[c].rows = <<>> THEN Got("affected") ELSE Got("rows"))
    /\ UNCHANGED <<config, asked, up>>

\* The commit goes through, or the engine refuses it and rolls back, or the
\* connection breaks and the caller cannot tell which.
Commit(c) ==
    /\ task[c].pc = "run" /\ InTransaction(c) /\ task[c].at > Len(task[c].stmts)
    /\ \/ /\ store' = store \o Pending(c)
          /\ Ends(c, IF task[c].rows = <<>> THEN Got("affected") ELSE Got("rows"))
       \/ Ends(c, Failed("commit")) /\ UNCHANGED store
       \/ store' \in {store, store \o Pending(c)} /\ Ends(c, Failed("lost"))
    /\ UNCHANGED <<config, asked, up>>

\* The runtime goes away: every task is dropped where it waits.  A statement
\* or a commit that was on its way may still be executed by the engine.
InFlight(c) ==
    IF InTransaction(c) THEN IF task[c].at > Len(task[c].stmts) THEN Pending(c) ELSE <<>>
    ELSE IF task[c].stmts[1].do = "write" THEN <<Written(c, 1, task[c].stmts[1])>> ELSE <<>>

DropRuntime ==
    /\ up
    /\ up' = FALSE
    /\ \E late \in SUBSET {c \in Callers : task[c].pc = "run"} :
         store' = FoldSet(LAMBDA c, acc : acc \o InFlight(c), store, late)
    /\ answer' = [c \in Callers |-> IF waits[c] THEN Failed("dropped") ELSE answer[c]]
    /\ waits' = [c \in Callers |-> FALSE]
    /\ task' = [c \in Callers |-> NoTask]
    /\ free' = MaxConnections
    /\ UNCHANGED <<config, asked>>

\* What the pool does of itself, and what waits for the engine.
PoolWork(c) == Refuse(c) \/ Acquire(c) \/ ConnectFails(c) \/ AcquireTimesOut(c)
EngineWork(c) == Begin(c) \/ RunStatement(c) \/ TransactionStep(c) \/ Commit(c)

Next ==
    \/ DropRuntime
    \/ \E c \in Callers :
          \/ \E call \in Calls, o \in Operations : RunBlocking(c, call, o)
          \/ GiveUp(c)
          \/ PoolWork(c)
          \/ EngineWork(c)

\* The runtime's threads run every task that can move, and the pool's timer
\* fires.  Nothing makes the engine answer: no statement has a timeout.
Fairness == \A c \in Callers : WF_vars(PoolWork(c))

Spec == Init /\ [][Next]_vars /\ Fairness

-----------------------------------------------------------------------------

Writes(call) == {i \in 1..Len(call.stmts) : call.stmts[i].do = "write"}
Stored(c) == {store[i].at : i \in {j \in 1..Len(store) : store[j].c = c}}

\* Every transaction() is in the store with all of its writes or with none, at
\* every moment: whether a statement fails, a row cannot be rendered, the pool
\* has no connection, the level or the commit is refused, or the connection or
\* the runtime goes away in the middle of it.  Success means all; an error
\* means none, but for a connection or a runtime that was lost, which leaves
\* open whether a commit on its way went through.  On an engine that has
\* levels the statements run at the one the call named, or else the pool.
TransactionsAreAtomic ==
    \A c \in Callers : asked[c].op = "transaction" =>
        /\ Stored(c) \in {{}, Writes(asked[c])}
        /\ answer[c].kind = "ok" => Stored(c) = Writes(asked[c])
        /\ answer[c].kind = "error" /\ answer[c].why \notin {"lost", "dropped"} => Stored(c) = {}
        /\ task[c].pc = "run" /\ config.kind # "sqlite" =>
               task[c].level = CASE asked[c].isolation = "snapshot" -> "repeatableread"
                                 [] asked[c].isolation \in Levels \ {"snapshot"} -> asked[c].isolation
                                 [] OTHER -> ParseIsolation(config.isolation)

\* What a round trip makes of a bound value: nothing JSON holds changes its
\* kind, a DbParam comes back as its {"$bytes"} dict, a plain bytes, list or
\* dict as text.
RoundTrip(v) ==
    CASE v \in {"none", "bool", "int", "float", "text"} -> v
      [] v = "nan"     -> "none"
      [] v = "bigint"  -> "float"
      [] v = "DbParam" -> "dict"
      [] OTHER         -> "text"

\* An insert returns the round trip of the value it bound, whoever else writes
\* meanwhile, and a query reads the round trip of a value some caller bound;
\* and the chunks of query_stream hold every row once, all of the asked size
\* but the last.
AnswersAreFaithful ==
    \A c \in Callers : answer[c].kind = "ok" =>
        /\ asked[c].op = "insert" => answer[c].value = RoundTrip(asked[c].stmts[1].value)
        /\ asked[c].op = "query" =>
               \/ answer[c].value = "none"
               \/ \E d \in Callers : /\ Writes(asked[d]) \cap Stored(d) # {}
                                     /\ \E i \in Writes(asked[d]) :
                                           answer[c].value = RoundTrip(asked[d].stmts[i].value)
        /\ asked[c].op = "stream" =>
               LET chunks == answer[c].value
                   size == asked[c].stmts[1].chunk
               IN /\ FoldSet(LAMBDA i, n : n + chunks[i], 0, DOMAIN chunks) = asked[c].stmts[1].rows
                  /\ \A i \in DOMAIN chunks : /\ chunks[i] > 0
                                              /\ size > 0 /\ i < Len(chunks) => chunks[i] = size

WithEngine(c) == task[c].pc \in {"begin", "run"}

\* No failure, cancelled coroutine or refused commit costs the pool a
\* connection: those that are not free are with a task the engine works for.
ConnectionsReturn ==
    free + Cardinality({c \in Callers : WithEngine(c)}) = MaxConnections

\* The pool's promise to its callers is all of the above.
CallsAreSound == TransactionsAreAtomic /\ AnswersAreFaithful /\ ConnectionsReturn

\* A statement that the engine never answers keeps its own caller and nobody
\* else: every other caller that waits gets an answer, if need be that the
\* pool timed out, however many connections hanging statements hold.
CallersAreAnswered ==
    \A c \in Callers : waits[c] ~> (~waits[c] \/ []WithEngine(c))

=============================================================================
