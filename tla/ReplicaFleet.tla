---------------------------- MODULE ReplicaFleet ----------------------------
(***************************************************************************)
(* The multi-replica supervisor (supervisor.rs), its autoscaler            *)
(* (autoscaler.rs) and its router, with the executor that fulfils the      *)
(* supervisor's intents.  The executor is outside the crate: it takes the  *)
(* intents in order, its replicas may die, and its reports may arrive in   *)
(* any order.                                                              *)
(***************************************************************************)
EXTENDS ModelRouting, FiniteSets

CONSTANTS
    MinReplicas, MaxReplicas,
    CooldownTicks,
    MaxStarts,      \* bound: replicas ever started
    MaxSwings       \* bound: metrics that ask for another size

VARIABLES
    current, cooldown,  \* Autoscaler
    live,               \* Supervisor.live
    nextIndex,          \* Supervisor.next_index
    table,              \* Supervisor.router
    intents,            \* actions returned by reconcile, not fulfilled yet
    replica,            \* replica[i]: what the executor has under index i
    reports,            \* calls the executor has yet to make
    swings,             \* metrics so far that asked for another size
    steady              \* history: reconciles since the size last changed

vars == <<current, cooldown, live, nextIndex, table, intents, replica, reports,
          swings, steady>>

Ids == 0..(MaxStarts - 1)

Least2(a, b) == IF a <= b THEN a ELSE b
Most2(a, b)  == IF a >= b THEN a ELSE b

Init ==
    /\ current = Least2(Most2(MinReplicas, 1), Most2(MaxReplicas, 1))
    /\ cooldown = 0
    /\ live = <<>> /\ nextIndex = 0
    /\ table = <<>>
    /\ intents = <<>>
    /\ replica = [i \in Ids |-> "none"]
    /\ reports = {}
    /\ swings = 0
    /\ steady = CooldownTicks

-----------------------------------------------------------------------------
(* Autoscaler::decide.  The metrics are saturated, underused or neither.   *)

Desired(metrics) ==
    CASE metrics = "saturated" -> Least2(current + 1, MaxReplicas)
      [] metrics = "underused" -> Most2(IF current = 0 THEN 0 ELSE current - 1, MinReplicas)
      [] metrics = "fine"      -> current

\* Mutant: the countdown does not stop a decision.
Decide_NoCooldown(metrics) ==
    /\ current' = Desired(metrics)
    /\ cooldown' = IF Desired(metrics) # current THEN CooldownTicks
                   ELSE IF cooldown > 0 THEN cooldown - 1 ELSE 0

Decide(metrics) ==
    IF cooldown > 0
    THEN cooldown' = cooldown - 1 /\ UNCHANGED current
    ELSE /\ current' = Desired(metrics)
         /\ cooldown' = IF Desired(metrics) = current THEN 0 ELSE CooldownTicks

-----------------------------------------------------------------------------
(* The supervisor.                                                         *)

LiveReplica(i) == [id |-> i, active |-> 0, kv |-> 0, healthy |-> FALSE]

\* sync_router: drop what is gone, then register all that is live.
Synced(tab, l) ==
    FoldLeft(LAMBDA t, r : RegisterReplica(t, r),
             SelectSeq(tab, LAMBDA r : \E i \in DOMAIN l : l[i].id = r.id),
             [i \in DOMAIN l |-> [id |-> l[i].id, version |-> "v", active |-> l[i].active,
                                  kv |-> l[i].kv, healthy |-> l[i].healthy, adapters |-> {}]])

\* The first replica that is not healthy, else the last one.
Victim(l) ==
    LET sick == {i \in DOMAIN l : ~l[i].healthy}
    IN IF sick = {} THEN Len(l) ELSE CHOOSE i \in sick : \A j \in sick : i <= j

\* Starts n replicas.
Grown(n) == live \o [k \in 1..n |-> LiveReplica(nextIndex + k - 1)]

\* Stops the n first victims, one after the other: the replicas left, and
\* the ids that go.
Shrunk(l, n) ==
    FoldLeft(LAMBDA cut, k : [left |-> RemoveAt(cut.left, Victim(cut.left)),
                              gone |-> Append(cut.gone, cut.left[Victim(cut.left)].id)],
             [left |-> l, gone |-> <<>>], [k \in 1..n |-> k])

Intent(what, i) == [do |-> what, id |-> i]

\* Mutant: replicas are started when the wanted size grows, and only then.
Missing_OnGrowth(want) == IF want > current THEN want - current ELSE 0

\* How many replicas the first loop of reconcile starts.
Missing(want) == Most2(Least2(want, MaxReplicas), Len(live)) - Len(live)

Reconcile(metrics) ==
    /\ metrics # "fine" => swings < MaxSwings
    /\ swings' = IF metrics = "fine" THEN swings ELSE swings + 1
    /\ Decide(metrics)
    /\ steady' = IF current' # current THEN 0 ELSE Least2(steady + 1, CooldownTicks)
    /\ LET up   == Missing(current')
           down == Most2(Len(live), current') - current'
           cut  == Shrunk(Grown(up), down)
       IN /\ nextIndex + up <= MaxStarts
          /\ nextIndex' = nextIndex + up
          /\ live' = cut.left
          /\ intents' = intents
                \o [k \in 1..up |-> Intent("start", nextIndex + k - 1)]
                \o [k \in DOMAIN cut.gone |-> Intent("stop", cut.gone[k])]
    /\ table' = Synced(table, live')
    /\ UNCHANGED <<replica, reports>>

\* Mutant: a report for an unknown id adds it.
OnReplicaStarted_Upsert(i) ==
    /\ live' = IF \E k \in DOMAIN live : live[k].id = i
               THEN [k \in DOMAIN live |-> IF live[k].id = i THEN [live[k] EXCEPT !.healthy = TRUE]
                                           ELSE live[k]]
               ELSE Append(live, [LiveReplica(i) EXCEPT !.healthy = TRUE])
    /\ table' = Synced(table, live')

OnReplicaStarted(i) ==
    /\ live' = [k \in DOMAIN live |->
                    IF live[k].id = i THEN [live[k] EXCEPT !.healthy = TRUE] ELSE live[k]]
    /\ table' = Synced(table, live')

OnReplicaReport(i, active, kv) ==
    /\ live' = [k \in DOMAIN live |->
                    IF live[k].id = i THEN [live[k] EXCEPT !.active = active, !.kv = kv]
                    ELSE live[k]]
    /\ table' = Synced(table, live')

OnReplicaStopped(i) ==
    /\ live' = SelectSeq(live, LAMBDA r : r.id # i)
    /\ table' = RemoveReplica(table, i)

-----------------------------------------------------------------------------
(* The executor.                                                           *)

Report(what, i) == [event |-> what, id |-> i]

\* Fulfils the next intent: a start takes time, a stop is confirmed.
TakeIntent ==
    /\ intents # <<>>
    /\ intents' = Tail(intents)
    /\ LET it == Head(intents)
       IN IF it.do = "start"
          THEN replica' = [replica EXCEPT ![it.id] = "starting"] /\ UNCHANGED reports
          ELSE /\ replica' = [replica EXCEPT ![it.id] = "gone"]
               /\ reports' = IF replica[it.id] = "gone" THEN reports
                             ELSE reports \cup {Report("stopped", it.id)}
    /\ UNCHANGED <<current, cooldown, live, nextIndex, table, swings, steady>>

Serves(i) ==
    /\ replica[i] = "starting"
    /\ replica' = [replica EXCEPT ![i] = "serving"]
    /\ reports' = reports \cup {Report("started", i), Report("load", i)}
    /\ UNCHANGED <<current, cooldown, live, nextIndex, table, intents, swings, steady>>

\* A replica dies; the bound on starts also bounds the deaths that matter.
Dies(i) ==
    /\ replica[i] \in {"starting", "serving"} /\ nextIndex < MaxStarts - 1
    /\ replica' = [replica EXCEPT ![i] = "gone"]
    /\ reports' = reports \cup {Report("stopped", i)}
    /\ UNCHANGED <<current, cooldown, live, nextIndex, table, intents, swings, steady>>

Deliver(r) ==
    /\ r \in reports
    /\ reports' = reports \ {r}
    /\ CASE r.event = "started" -> OnReplicaStarted(r.id)
         [] r.event = "load"    -> OnReplicaReport(r.id, MaxConcurrency, 50)
         [] r.event = "stopped" -> OnReplicaStopped(r.id)
    /\ UNCHANGED <<current, cooldown, nextIndex, intents, replica, swings, steady>>

-----------------------------------------------------------------------------

Executor == TakeIntent \/ \E i \in Ids : Serves(i)

Next ==
    \/ \E m \in {"saturated", "underused", "fine"} : Reconcile(m)
    \/ Executor
    \/ \E i \in Ids : Dies(i)
    \/ \E r \in reports : Deliver(r)

\* Reconcile("fine") would change something.
CanReconcile ==
    /\ nextIndex + Missing(current) <= MaxStarts
    /\ \/ cooldown > 0 \/ steady < CooldownTicks
       \/ Missing(current) > 0 \/ Len(live) > current
       \/ table # Synced(table, live)

CanExecute == intents # <<>> \/ \E i \in Ids : replica[i] = "starting"

\* The supervisor is driven periodically, the executor works, and no report
\* is lost.
Fairness ==
    /\ WF_vars(Reconcile("fine"))
    /\ WF_vars(Executor)
    /\ WF_vars(\E r \in reports : Deliver(r))

Spec == Init /\ [][Next]_vars /\ Fairness

-----------------------------------------------------------------------------
(* Properties.                                                             *)

LiveIds   == {live[k].id : k \in DOMAIN live}
Asked(do) == {intents[k].id : k \in {j \in DOMAIN intents : intents[j].do = do}}

\* The supervisor's books and the executor's replicas agree up to what is in
\* flight, however late or out of order the executor's reports arrive: no
\* replica runs that the supervisor has forgotten and not ordered to stop, none
\* is on the books that is neither running, nor on its way, nor about to be
\* reported gone, and the router offers exactly the replicas on the books.
BooksMatchFleet ==
    /\ \A i \in Ids : replica[i] \in {"starting", "serving"} =>
          i \in LiveIds \cup Asked("stop")
    /\ \A i \in LiveIds : \/ i \in Asked("start")
                          \/ replica[i] \in {"starting", "serving"}
                          \/ Report("stopped", i) \in reports
    /\ Cardinality(LiveIds) = Len(live) /\ Len(live) <= MaxReplicas
    /\ Len(table) = Len(live)
    /\ \A k \in DOMAIN live : \E j \in DOMAIN table :
          /\ table[j].id = live[k].id /\ table[j].healthy = live[k].healthy
          /\ table[j].active = live[k].active

\* Flap protection: after the wanted size has changed, cooldown_ticks
\* reconciles pass before it changes again, whatever the metrics do.
FlapProtected ==
    current' # current => /\ steady = CooldownTicks
                          /\ current' \in {current - 1, current + 1}

\* The supervisor of replicas keeps its books and its cooldown in every step.
FleetIsBooked == BooksMatchFleet' /\ FlapProtected

\* Once the metrics are calm and replicas stop dying, the fleet has the wanted
\* size and every replica of it is healthy and known to the router as such.
FleetConverges ==
    <>[]( \/ /\ Len(live) = current
             /\ \A j \in DOMAIN table : table[j].healthy /\ replica[table[j].id] = "serving"
          \/ nextIndex + current - Len(live) > MaxStarts)
=============================================================================
