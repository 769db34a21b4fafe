-------------------------- MODULE InferenceGateway --------------------------
(***************************************************************************)
(* The Kubernetes inference gateway (gateway.rs of justapi-inference): the *)
(* registry and the replica table of ModelRouting, used by the threads of  *)
(* a cluster controller.  Each access to the registry or to the table is   *)
(* atomic; set_ready and route make two of them.                           *)
(***************************************************************************)
EXTENDS ModelRouting

CONSTANTS
    Pods,           \* ids of the pods; pod p serves the version Serves[p]
    Serves,
    Records,        \* model records register() is called with
    Versions,       \* versions register_version() is called with
    Requests,       \* [version, key] of the requests
    Loads,          \* [active, kv] of the pods
    MaxChanges,     \* bound: changes of the registry and of the cluster
    MaxRr           \* bound of the round-robin counter (usize wraps)

VARIABLES
    strategy, requireReady,     \* GatewayConfig
    registry,       \* the model's record, or <<>> when it is not registered
    table, rr,      \* Router
    pod,            \* pod[p]: load and readiness of p in the cluster
    report,         \* report[p]: an observation on its way to update_load
    probe,          \* probe[p]: a readiness callback between its two accesses
    request,        \* the request between resolve and candidates
    decision,       \* history: the last decision
    changes

vars == <<strategy, requireReady, registry, table, rr, pod, report, probe,
          request, decision, changes>>

config  == <<strategy, requireReady>>
cluster == <<pod, report, probe>>

NewReplica(p) == [id |-> p, version |-> Serves[p], active |-> 0, kv |-> 0,
                  healthy |-> TRUE, adapters |-> {}]

Idle == <<>>

Init ==
    /\ strategy \in {"LeastLoaded", "LowestKvPressure", "RoundRobin"}
    /\ requireReady \in BOOLEAN
    /\ registry = <<>>
    /\ table = <<>> /\ rr = 0
    /\ pod = [p \in Pods |-> [up |-> FALSE, active |-> 0, kv |-> 0, ready |-> TRUE]]
    /\ report = [p \in Pods |-> Idle]
    /\ probe = [p \in Pods |-> Idle]
    /\ request = Idle /\ decision = Idle
    /\ changes = 0

Changes == changes < MaxChanges /\ changes' = changes + 1

-----------------------------------------------------------------------------
(* The registry.                                                           *)

Register(record) ==
    /\ Changes /\ registry' = <<record>>
    /\ UNCHANGED <<config, table, rr, cluster, request, decision>>

RegisterVersion(v) ==
    /\ Changes
    /\ registry' = <<AddVersion(IF registry = <<>> THEN NewRecord ELSE Head(registry), v)>>
    /\ UNCHANGED <<config, table, rr, cluster, request, decision>>

Unregister ==
    /\ registry # <<>> /\ Changes /\ registry' = <<>>
    /\ UNCHANGED <<config, table, rr, cluster, request, decision>>

-----------------------------------------------------------------------------
(* The cluster.                                                            *)

\* register_replica and remove_replica, as pods come and go.
PodAdded(p) ==
    /\ ~pod[p].up /\ Changes
    /\ pod' = [pod EXCEPT ![p] = [up |-> TRUE, active |-> 0, kv |-> 0, ready |-> TRUE]]
    /\ table' = RegisterReplica(table, NewReplica(p))
    /\ UNCHANGED <<config, registry, rr, report, probe, request, decision>>

PodRemoved(p) ==
    /\ pod[p].up /\ Changes
    /\ pod' = [pod EXCEPT ![p].up = FALSE]
    /\ table' = RemoveReplica(table, p)
    /\ UNCHANGED <<config, registry, rr, report, probe, request, decision>>

PodChanges(p, load, ready) ==
    /\ pod[p].up /\ Changes
    /\ pod' = [pod EXCEPT ![p].active = load.active, ![p].kv = load.kv, ![p].ready = ready]
    /\ UNCHANGED <<config, registry, table, rr, report, probe, request, decision>>

\* The controller tells the router which adapters a pod has loaded.
AdaptersLoaded(p, adapters) ==
    /\ pod[p].up /\ Changes
    /\ table' = SetLoadedAdapters(table, p, adapters)
    /\ UNCHANGED <<config, registry, rr, cluster, request, decision>>

\* Mutant: without readiness gating a pod is never healthy.
GatewayUpdateLoad_Gated(p, active, kv, ready) ==
    table' = UpdateLoad(table, p, active, kv, requireReady /\ ready)

\* InferenceGateway::update_load
GatewayUpdateLoad(p, active, kv, ready) ==
    table' = UpdateLoad(table, p, active, kv, requireReady => ready)

Observe(p) ==
    /\ report[p] = Idle /\ pod[p].up
    /\ report' = [report EXCEPT ![p] = pod[p]]
    /\ UNCHANGED <<config, registry, table, rr, pod, probe, request, decision, changes>>

ReportLoad(p) ==
    /\ report[p] # Idle
    /\ GatewayUpdateLoad(p, report[p].active, report[p].kv, report[p].ready)
    /\ report' = [report EXCEPT ![p] = Idle]
    /\ UNCHANGED <<config, registry, rr, pod, probe, request, decision, changes>>

\* set_ready reads the replica's load ...
SetReady(p) ==
    /\ probe[p] = Idle
    /\ \E i \in DOMAIN table :
          /\ table[i].id = p
          /\ probe' = [probe EXCEPT ![p] = [active |-> table[i].active, kv |-> table[i].kv,
                                            ready |-> pod[p].ready]]
    /\ UNCHANGED <<config, registry, table, rr, pod, report, request, decision, changes>>

\* ... and writes it back with the new readiness.
SetReadyWrites(p) ==
    /\ probe[p] # Idle
    /\ GatewayUpdateLoad(p, probe[p].active, probe[p].kv, probe[p].ready)
    /\ probe' = [probe EXCEPT ![p] = Idle]
    /\ UNCHANGED <<config, registry, rr, pod, report, request, decision, changes>>

-----------------------------------------------------------------------------
(* Requests.                                                               *)

NamesOf(version) ==
    UNION {{Head(registry).versions[i].version} \cup Head(registry).versions[i].aliases :
              i \in {j \in DOMAIN Head(registry).versions :
                        Head(registry).versions[j].version = version}}

\* route: resolve the request; an unknown model or version is refused.
RouteResolves(q) ==
    /\ request = Idle /\ registry # <<>>
    /\ LET resolved == Resolve(Head(registry), q.version, q.key)
       IN /\ resolved # <<>>
          /\ request' = [asked |-> q, resolved |-> Head(resolved),
                         names |-> NamesOf(Head(resolved).version)]
    /\ UNCHANGED <<config, registry, table, rr, cluster, decision, changes>>

\* Then choose among the candidates, or refuse when there is none.
RouteChooses ==
    /\ request # Idle
    /\ LET candidates == Candidates(table, request.resolved)
       IN IF candidates = <<>> THEN UNCHANGED <<rr, decision>>
          ELSE /\ decision' = [request |-> request,
                               replica |-> Chosen(strategy, candidates, rr)]
               /\ rr' = IF strategy = "RoundRobin" THEN (rr + 1) % MaxRr ELSE rr
    /\ request' = Idle
    /\ UNCHANGED <<config, registry, table, cluster, changes>>

-----------------------------------------------------------------------------

Controller(p) == Observe(p) \/ ReportLoad(p)
Probe(p) == SetReady(p) \/ SetReadyWrites(p)

Next ==
    \/ \E r \in Records : Register(r)
    \/ \E v \in Versions : RegisterVersion(v)
    \/ Unregister
    \/ \E p \in Pods :
          \/ PodAdded(p) \/ PodRemoved(p)
          \/ \E load \in Loads, b \in BOOLEAN : PodChanges(p, load, b)
          \/ AdaptersLoaded(p, {"lora"})
          \/ Controller(p) \/ Probe(p)
    \/ \E q \in Requests : RouteResolves(q)
    \/ RouteChooses

\* The controller reports every pod again and again, and a callback that has
\* begun ends.
Fairness ==
    \A p \in Pods : WF_vars(Observe(p)) /\ WF_vars(ReportLoad(p)) /\ WF_vars(SetReadyWrites(p))

Spec == Init /\ [][Next]_vars /\ Fairness

-----------------------------------------------------------------------------
(* Properties.                                                             *)

\* A registered model with a version resolves when no version is asked for,
\* whatever registrations replaced the version its default named.
DefaultResolves ==
    registry # <<>> /\ Head(registry).versions # <<>> =>
        Resolve(Head(registry), None, None) # <<>>

\* A decision honours its request although registry and table change between
\* the two halves of route: a pinned version is served by a replica of a
\* version that had that name, and an adapter only by a replica that has it
\* loaded.
DecisionHonoursRequest ==
    decision # Idle =>
        LET q == decision.request
        IN /\ q.asked.version # None => q.asked.version \in q.names
           /\ decision.replica.version = q.resolved.version
           /\ q.resolved.adapter # None => q.resolved.adapter \in decision.replica.adapters

\* Requests are routed to what they name, and a model with a version can always
\* be named.
RoutingIsFaithful == DefaultResolves /\ DecisionHonoursRequest

Shown(p) ==
    \A i \in DOMAIN table :
        table[i].id = p => /\ table[i].active = pod[p].active /\ table[i].kv = pod[p].kv
                           /\ table[i].healthy = (requireReady => pod[p].ready)

\* When the cluster is left alone, the table shows each pod again and again,
\* and for good once no readiness callback comes any more.  (It is not for
\* good before: set_ready writes back the load it read, and undoes a report
\* that came in between.)
TableFollowsCluster ==
    \A p \in Pods :
        /\ []<>Shown(p)
        /\ <>[](probe[p] = Idle) => <>[]Shown(p)
=============================================================================
