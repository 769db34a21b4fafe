---------------------------- MODULE MCSupervisors ---------------------------
(***************************************************************************)
(* The supervisors and the task schedulers: of worker processes, of model  *)
(* replicas, of timed jobs and of graphs of handlers.  They share no       *)
(* state: pick says which one moves, the others stay in their initial      *)
(* state.  Parts are the ones a run looks at.                              *)
(*                                                                         *)
(* Supervisors.cfg starts two workers and scales between one and three in  *)
(* steps of two.  SupervisorsFixed.cfg is supervise() with no policy:      *)
(* ScalingPolicy::default() (1 to 4, step 1) and NoProbe, whose every      *)
(* sample is below the low threshold.                                      *)
(***************************************************************************)
EXTENDS PreforkSupervisor

CONSTANT Parts

VARIABLES
    pick,
    current, cooldown, live, nextIndex, table, intents, replica, reports, swings, steady,
    jobs, nextId, active, loops, mutex, gil, call, clock,
    deps, failing, inputs, state, pending, running, thread, future

replicaVars == <<current, cooldown, live, nextIndex, table, intents, replica, reports, swings, steady>>
jobVars == <<jobs, nextId, active, loops, mutex, gil, call, clock>>
dagVars == <<deps, failing, inputs, state, pending, running, thread, future>>
allVars == <<pick, vars, replicaVars, jobVars, dagVars>>

\* One or two replicas, and time for one to die and another to follow.
Replicas == INSTANCE ReplicaFleet WITH
    MaxConcurrency <- 2, MinReplicas <- 1, MaxReplicas <- 2, CooldownTicks <- 1,
    MaxStarts <- 4, MaxSwings <- 3

\* An interval or a cron job, and a loop that is stopped and started again.
Sched == INSTANCE JobScheduler WITH
    Steps <- {2}, Period <- 3, MaxJobs <- 1, MaxStarts <- 2, MaxLag <- 2,
    running <- active, phase <- clock

\* Every graph of three nodes, with cycles, missing keys and inputs that have
\* the name of a node.
Graph == INSTANCE Dag WITH Nodes <- {"a", "b", "c"}, Keys <- {"a"}

MCInit ==
    /\ pick \in Parts
    /\ Init /\ Replicas!Init /\ Sched!Init
    /\ IF pick = "graph" THEN Graph!Init
       ELSE /\ deps = [n \in {"a", "b", "c"} |-> {}] /\ failing = {} /\ inputs = {}
            /\ Graph!Init

MCNext ==
    \/ pick = "prefork" /\ Next /\ UNCHANGED <<pick, replicaVars, jobVars, dagVars>>
    \/ pick = "fleet" /\ Replicas!Next /\ UNCHANGED <<pick, vars, jobVars, dagVars>>
    \/ pick = "jobs" /\ Sched!Next /\ UNCHANGED <<pick, vars, replicaVars, dagVars>>
    \/ pick = "graph" /\ Graph!Next /\ UNCHANGED <<pick, vars, replicaVars, jobVars>>

\* The fairness of each part, for the behaviours in which it moves.  Start,
\* DrainTimeout, Reap, Exit and the actions of ReplicaFleet are taken only
\* finitely often, so that weak fairness of these says that they are disabled
\* again and again.
MCFairness ==
    /\ []<>~(pick = "prefork" /\ phase = "starting")
    /\ []<>~(pick = "prefork" /\ deadline = "set")
    /\ WF_vars(pick = "prefork" /\ (NothingToJoin \/ Drain \/ Killed))
    /\ \A p \in Procs : /\ []<>~(pick = "prefork" /\ proc[p] = "zombie" /\ phase \notin {"done", "failed"})
                        /\ []<>~(pick = "prefork" /\ proc[p] = "killed")
    /\ []<>~(pick = "fleet" /\ Replicas!CanReconcile)
    /\ []<>~(pick = "fleet" /\ Replicas!CanExecute)
    /\ []<>~(pick = "fleet" /\ reports # {})
    /\ WF_jobVars(pick = "jobs" /\ Sched!Clock)
    /\ WF_jobVars(pick = "jobs" /\ Sched!Return)
    /\ \A l \in 1..2 : SF_jobVars(pick = "jobs" /\ l \in DOMAIN loops /\ Sched!Round(l))
    /\ WF_dagVars(pick = "graph" /\ Graph!Next)

MCSpec == MCInit /\ [][MCNext]_allVars /\ MCFairness

-----------------------------------------------------------------------------
\* The properties of the parts, each stated where the part is modelled.

\* The books and the flap protection of the replica supervisor: ReplicaFleet.
FleetIsBooked == [][Replicas!FleetIsBooked]_replicaVars

\* A fleet of replicas that moves converges: ReplicaFleet.
FleetConverges == pick = "fleet" => Replicas!FleetConverges

\* No job fires early (JobScheduler), no handler of a graph is called without
\* its arguments (Dag).
TasksAreSound == [][Sched!NeverEarly /\ Graph!ArgumentsComplete']_<<jobVars, dagVars>>

\* A started scheduler with jobs fires them: JobScheduler.
FiresUnlessDeadlocked == Sched!FiresUnlessDeadlocked

\* The future of a graph that is executed gets the outcome the graph
\* determines: Dag.
OutcomeIsDetermined == pick = "graph" => Graph!OutcomeIsDetermined
=============================================================================
