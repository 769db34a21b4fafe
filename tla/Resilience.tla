----------------------------- MODULE Resilience -----------------------------
(***************************************************************************)
(* The resilience policies around a handler                                *)
(* (justapi-core/src/resilience.rs), in the order fallback, timeout,       *)
(* bulkhead, per-route breaker, chaos: requests wait for a permit, find    *)
(* or create the breaker of their path under a lock that is taken twice,   *)
(* and may be dropped or timed out wherever they wait.                     *)
(*                                                                         *)
(* A breaker here is the one of CircuitBreaker with a threshold of one     *)
(* failure and an open_timeout longer than the run: closed, then open.     *)
(***************************************************************************)
EXTENDS Integers, FiniteSets

CONSTANTS
    Clients,        \* the requests, by the client that waits
    PathOf,         \* the path of each request
    Fallbacks,      \* [covers, status]: a prefix, by the paths it covers
    Default,        \* default_fallback: a set of at most one entry
    MaxConcurrent,  \* bulkhead
    MaxBreakers,    \* MAX_PER_ROUTE_BREAKERS
    Chaos           \* ChaosConfig: [enabled, errors]

\* Semaphore::new is given a usize.
ASSUME ChainAssumption == IsFiniteSet(Clients) /\ MaxConcurrent \in Nat

VARIABLES
    permits,        \* the semaphore's
    table,          \* path -> breaker, for the paths in the map
    open,           \* the breakers that are open
    made,           \* breakers created so far
    req,            \* where each request is, its breaker, what the client got
    evicted,        \* history: how often each path was evicted
    tripped         \* history: <<path, evictions>> under which a failure was recorded

resVars == <<permits, table, open, made, req, evicted, tripped>>

Paths == {PathOf[r] : r \in Clients}
At(pc, cell, era, status) == [pc |-> pc, cell |-> cell, era |-> era, status |-> status]

ResilienceInit ==
    /\ permits = MaxConcurrent
    /\ table = [p \in {} |-> 0]
    /\ open = {}
    /\ made = 0
    /\ req = [r \in Clients |-> At("new", 0, 0, 0)]
    /\ evicted = [p \in Paths |-> 0]
    /\ tripped = {}

-----------------------------------------------------------------------------
(* The answer on its way out *)

\* FallbackPolicy::get: the first prefix in the map's order that matches, or
\* the default.
FallbackFor(p) ==
    LET hits == {f \in Fallbacks : p \in f.covers}
    IN IF hits = {} THEN Default ELSE hits

\* An error of the chain (status 0) without a fallback is a 500.
FallbackHandle(p, status) ==
    IF (status = 0 \/ status >= 500) /\ FallbackFor(p) # {} THEN {f.status : f \in FallbackFor(p)}
    ELSE {IF status = 0 THEN 500 ELSE status}

\* The request leaves the chain with this result; a permit it holds returns.
HoldsPermit(r) == req[r].pc \in {"find", "create", "acquire", "chaos", "handler"}

LeavesChain_KeepsPermit(r, status) ==
    /\ \E s \in FallbackHandle(PathOf[r], status) : req' = [req EXCEPT ![r] = At("done", 0, 0, s)]
    /\ permits' = permits

LeavesChain(r, status) ==
    /\ \E s \in FallbackHandle(PathOf[r], status) : req' = [req EXCEPT ![r] = At("done", 0, 0, s)]
    /\ permits' = IF HoldsPermit(r) THEN permits + 1 ELSE permits

Goes(r, pc) == req' = [req EXCEPT ![r].pc = pc]

-----------------------------------------------------------------------------

Arrive(r) ==
    /\ req[r].pc = "new"
    /\ Goes(r, "wait")
    /\ UNCHANGED <<permits, table, open, made, evicted, tripped>>

TakePermit(r) ==
    /\ req[r].pc = "wait" /\ permits > 0
    /\ permits' = permits - 1
    /\ Goes(r, "find")
    /\ UNCHANGED <<table, open, made, evicted, tripped>>

\* max_wait passes without a permit.
BulkheadRefuses(r) ==
    /\ req[r].pc = "wait" /\ permits = 0
    /\ LeavesChain(r, 503)
    /\ UNCHANGED <<table, open, made, evicted, tripped>>

\* get_breaker, under the read lock.
FindBreaker(r) ==
    /\ req[r].pc = "find"
    /\ req' = [req EXCEPT ![r] = IF PathOf[r] \in DOMAIN table
                                 THEN At("acquire", table[PathOf[r]], evicted[PathOf[r]], 0)
                                 ELSE At("create", 0, 0, 0)]
    /\ UNCHANGED <<permits, table, open, made, evicted, tripped>>

NewBreaker_Recycles(r) ==
    LET p == PathOf[r]
        full == Cardinality(DOMAIN table) >= MaxBreakers
    IN \E gone \in IF full THEN {{q} : q \in DOMAIN table} ELSE {{}} :
           /\ made' = IF gone = {} THEN made + 1 ELSE table[CHOOSE q \in gone : TRUE]
           /\ table' = [q \in (DOMAIN table \ gone) \cup {p} |-> IF q = p THEN made' ELSE table[q]]
           /\ evicted' = [q \in Paths |-> IF q \in gone THEN evicted[q] + 1 ELSE evicted[q]]
           /\ req' = [req EXCEPT ![r] = At("acquire", made', evicted[p], 0)]

\* ... and under the write lock: one breaker is created, and at the limit some
\* other entry of the map makes room for it.
NewBreaker(r) ==
    LET p == PathOf[r]
        full == Cardinality(DOMAIN table) >= MaxBreakers
    IN \E gone \in IF full THEN {{q} : q \in DOMAIN table} ELSE {{}} :
           /\ made' = made + 1
           /\ table' = [q \in (DOMAIN table \ gone) \cup {p} |-> IF q = p THEN made' ELSE table[q]]
           /\ evicted' = [q \in Paths |-> IF q \in gone THEN evicted[q] + 1 ELSE evicted[q]]
           /\ req' = [req EXCEPT ![r] = At("acquire", made', evicted[p], 0)]

CreateBreaker_NoRecheck(r) ==
    /\ req[r].pc = "create"
    /\ NewBreaker(r)
    /\ UNCHANGED <<permits, open, tripped>>

CreateBreaker(r) ==
    /\ req[r].pc = "create"
    /\ IF PathOf[r] \in DOMAIN table
       THEN /\ req' = [req EXCEPT ![r] = At("acquire", table[PathOf[r]], evicted[PathOf[r]], 0)]
            /\ UNCHANGED <<table, made, evicted>>
       ELSE NewBreaker(r)
    /\ UNCHANGED <<permits, open, tripped>>

TryAcquire(r) ==
    /\ req[r].pc = "acquire"
    /\ IF req[r].cell \in open THEN LeavesChain(r, 503) ELSE Goes(r, "chaos") /\ UNCHANGED permits
    /\ UNCHANGED <<table, open, made, evicted, tripped>>

\* The chain below answered: the breaker records it, then the answer goes up.
Record(r, status) ==
    /\ open' = IF status = 0 \/ status >= 500 THEN open \cup {req[r].cell} ELSE open
    /\ tripped' = IF status = 0 \/ status >= 500
                  THEN tripped \cup {<<PathOf[r], req[r].era>>} ELSE tripped
    /\ LeavesChain(r, status)

\* A roll below error_p fails the request; latency is a stay in "chaos".
ChaosHandle(r) ==
    /\ req[r].pc = "chaos"
    /\ \/ Chaos.enabled /\ Chaos.errors /\ Record(r, 500)
       \/ Goes(r, "handler") /\ UNCHANGED <<permits, open, tripped>>
    /\ UNCHANGED <<table, made, evicted>>

HandlerAnswers(r) ==
    /\ req[r].pc = "handler"
    /\ \E status \in {200, 404, 502, 0} : Record(r, status)
    /\ UNCHANGED <<table, made, evicted>>

TimeoutFires_Records(r) ==
    /\ req[r].pc \notin {"new", "done"}
    /\ LeavesChain(r, 504)
    /\ open' = IF req[r].cell = 0 THEN open ELSE open \cup {req[r].cell}
    /\ UNCHANGED <<table, made, evicted, tripped>>

\* The timeout drops the chain below it: the permit returns, no result is
\* recorded.
TimeoutFires(r) ==
    /\ req[r].pc \notin {"new", "done"}
    /\ LeavesChain(r, 504)
    /\ UNCHANGED <<table, open, made, evicted, tripped>>

\* The client goes away, and the whole chain is dropped.
Dropped(r) ==
    /\ req[r].pc \notin {"new", "done"}
    /\ req' = [req EXCEPT ![r] = At("done", 0, 0, 499)]
    /\ permits' = IF HoldsPermit(r) THEN permits + 1 ELSE permits
    /\ UNCHANGED <<table, open, made, evicted, tripped>>

Steps(r) ==
    \/ Arrive(r) \/ TakePermit(r) \/ BulkheadRefuses(r) \/ FindBreaker(r) \/ CreateBreaker(r)
    \/ TryAcquire(r) \/ ChaosHandle(r) \/ HandlerAnswers(r)

ResilienceNext == \E r \in Clients : Steps(r) \/ TimeoutFires(r) \/ Dropped(r)

ResilienceSpec == ResilienceInit /\ [][ResilienceNext]_resVars

-----------------------------------------------------------------------------

\* A path has one breaker for as long as it stays in the map, however many
\* requests missed it under the read lock at once: after a failure recorded by
\* one of them, no other that took its breaker since the path's last eviction
\* passes try_acquire.
TripHolds ==
    \A r \in Clients :
        (req[r].pc = "acquire" /\ req'[r].pc = "chaos") => <<PathOf[r], req[r].era>> \notin tripped

\* Permits are neither lost nor invented by timeouts, drops and errors below
\* the bulkhead, and a client whose path has a fallback never sees a failure
\* of its own chain.
PermitsAndFallbacks ==
    /\ permits + Cardinality({r \in Clients : HoldsPermit(r)}) = MaxConcurrent
    /\ \A r \in Clients : req[r].pc = "done" /\ FallbackFor(PathOf[r]) # {} =>
           req[r].status \in {200, 404, 499} \cup {f.status : f \in FallbackFor(PathOf[r])}

PolicyStep == TripHolds /\ PermitsAndFallbacks'

\* The policies of the chain hold in every step, however breakers are created
\* and evicted and wherever timeouts and drops hit.
PoliciesHold == [][PolicyStep]_resVars

\* An open breaker turns a request away only for a failure of its own path,
\* recorded in the breaker that its path has had since the last eviction: no
\* failure of another path, of the path's evicted breaker, of a refusal, a
\* timeout or a client that left is held against it.
RefusalsAreEarned ==
    \A r \in Clients :
        req[r].pc = "acquire" /\ req[r].cell \in open => <<PathOf[r], req[r].era>> \in tripped

=============================================================================
