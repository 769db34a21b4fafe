-------------------------------- MODULE Dag ---------------------------------
(***************************************************************************)
(* Dag.execute (justapi-py/src/dag.rs): a graph of named Python handlers,  *)
(* each called with the values of its dependencies once these are in the   *)
(* shared state, on blocking threads, and one asyncio future that gets the *)
(* final state or the first error.  A dependency may be a node or a key of *)
(* the inputs; an input may also have the name of a node.                  *)
(***************************************************************************)
EXTENDS Naturals, FiniteSets

CONSTANTS
    Nodes,      \* names of the nodes
    Keys        \* keys an inputs dict may have; may overlap with Nodes

VARIABLES
    deps,       \* deps[n]: DagNode.dependencies
    failing,    \* nodes whose handler raises
    inputs,     \* keys of the inputs dict
    state,      \* state[k]: who wrote the value of k: "input", "node" or "none"
    pending, running,   \* locals of run_dag_internal
    thread,     \* thread[n]: the blocking task of n, with the arguments it got
    future      \* the asyncio future

vars == <<deps, failing, inputs, state, pending, running, thread, future>>

NotSpawned == [at |-> "none", got |-> {}]

Init ==
    /\ deps \in [Nodes -> SUBSET (Nodes \cup Keys)]
    /\ failing \in SUBSET Nodes
    /\ inputs \in SUBSET Keys
    /\ state = [k \in Nodes \cup Keys |-> IF k \in inputs THEN "input" ELSE "none"]
    /\ pending = Nodes
    /\ running = {}
    /\ thread = [n \in Nodes |-> NotSpawned]
    /\ future = "unset"

Present == {k \in DOMAIN state : state[k] # "none"}

\* Mutant: a dependency is met as soon as it has been started.
Ready_Started == {n \in pending : deps[n] \subseteq Present \cup running}

\* can_run
Ready == {n \in pending : deps[n] \subseteq Present}

Finishes(outcome) ==
    /\ future' = outcome
    /\ UNCHANGED <<deps, failing, inputs, state, pending, running, thread>>

\* The top of the loop: spawn what is ready.
Spawn ==
    /\ future = "unset" /\ Ready # {}
    /\ pending' = pending \ Ready
    /\ running' = running \cup Ready
    /\ thread' = [n \in Nodes |-> IF n \in Ready THEN [NotSpawned EXCEPT !.at = "spawned"]
                                  ELSE thread[n]]
    /\ UNCHANGED <<deps, failing, inputs, state, future>>

\* The closure of spawn_blocking, with the GIL: collect the arguments, then
\* call the handler.  It goes on when the graph has failed meanwhile.
CallHandler(n) ==
    /\ thread[n].at = "spawned"
    /\ thread' = [thread EXCEPT ![n] =
                    [at |-> IF n \in failing THEN "raised" ELSE "returned",
                     got |-> {<<k, state[k]>> : k \in deps[n] \cap Present}]]
    /\ UNCHANGED <<deps, failing, inputs, state, pending, running, future>>

\* join_next
Join(n) ==
    /\ future = "unset" /\ Ready = {} /\ n \in running
    /\ thread[n].at \in {"returned", "raised"}
    /\ running' = running \ {n}
    /\ IF thread[n].at = "returned"
       THEN state' = [state EXCEPT ![n] = "node"] /\ UNCHANGED future
       ELSE future' = "failed" /\ UNCHANGED state
    /\ UNCHANGED <<deps, failing, inputs, pending, thread>>

\* Mutant: the loop ends when nothing runs.
Complete_Idle == future = "unset" /\ Ready = {} /\ running = {} /\ Finishes("result")

Complete == future = "unset" /\ pending = {} /\ running = {} /\ Finishes("result")

Deadlocked ==
    /\ future = "unset" /\ Ready = {} /\ running = {} /\ pending # {}
    /\ Finishes("deadlock")

Next ==
    \/ Spawn \/ Complete \/ Deadlocked
    \/ \E n \in Nodes : CallHandler(n) \/ Join(n)

\* Handlers return, and the runtime polls the task.
Spec == Init /\ [][Next]_vars /\ WF_vars(Next)

-----------------------------------------------------------------------------
(* Properties.                                                             *)

\* Reference: the nodes that can be called after at most k rounds.
Callable[k \in 0..Cardinality(Nodes)] ==
    IF k = 0 THEN {}
    ELSE {n \in Nodes : deps[n] \subseteq inputs \cup (Callable[k - 1] \ failing)}

Reached == Callable[Cardinality(Nodes)]

Expected ==
    IF Reached \cap failing # {} THEN "failed"
    ELSE IF Reached = Nodes THEN "result" ELSE "deadlock"

\* The future is always resolved, with the outcome that the graph, its inputs
\* and its handlers determine, whatever the order in which threads run and
\* are joined: cycles and missing keys are reported, and only they, and a
\* graph that can be completed is.
OutcomeIsDetermined == <>(future = Expected)

\* No handler is called without all of its arguments, and none is called
\* with the value of a node that has not returned.
ArgumentsComplete ==
    \A n \in Nodes : thread[n].at \in {"returned", "raised"} =>
        /\ {a[1] : a \in thread[n].got} = deps[n]
        /\ \A a \in thread[n].got : a[1] \notin inputs => thread[a[1]].at = "returned"
=============================================================================
