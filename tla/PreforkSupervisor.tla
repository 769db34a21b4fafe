-------------------------- MODULE PreforkSupervisor --------------------------
(***************************************************************************)
(* supervise() of justapi-cli: the parent process that spawns the workers, *)
(* restarts the ones that die, scales their number with the load, and      *)
(* drains them on shutdown.                                                *)
(*                                                                         *)
(* Three parties take steps: the select loop of supervise(), the worker    *)
(* processes, and the wait task of each worker, which reaps it.  An        *)
(* iteration of the loop is one action, its drain check included.          *)
(***************************************************************************)
EXTENDS Integers, FiniteSets, SequencesExt

CONSTANTS
    Count,        \* workers spawned at the start
    MinWorkers,   \* the scaling policy
    MaxWorkers,
    Step,
    Loads,        \* what the probe may sample: "low", "mid" or "high"
    MaxSpawns     \* bound: processes that are ever spawned

ASSUME PolicyAssumption ==
    /\ {Count, Step, MaxSpawns} \subseteq Nat \ {0}
    /\ {MinWorkers, MaxWorkers} \subseteq Nat
    /\ Loads \subseteq {"low", "mid", "high"}

Procs == 1..MaxSpawns
None == 0

VARIABLES
    proc,       \* proc[p]: what the operating system knows of process p
    pids,       \* the table of the supervisor: slot -> process or None
    waits,      \* the JoinSet: <<slot, process>> of each wait task
    stopping,   \* slots that are scaled down on purpose
    cancelled,  \* the shutdown token
    deadline,   \* drain_deadline: "none", "set" or "passed"
    cooled,     \* the cooldown since the last scaling is over
    armed,      \* the token was not cancelled when this iteration began
    phase       \* of supervise()

fleetVars == <<proc, pids, waits, stopping>>
vars == <<fleetVars, cancelled, deadline, cooled, armed, phase>>

\* A process is told to drain by SIGTERM, killed by SIGKILL, a zombie when it
\* has exited and reaped when its wait task has its status.
Alive == {"running", "draining", "killed"}
Unborn == {p \in Procs : proc[p] = "unborn"}
Slots == 1..Len(pids)
Fork(t) == Min({p \in Procs : t.proc[p] = "unborn"})

Fleet == [proc |-> proc, pids |-> pids, waits |-> waits]

Becomes(t) == proc' = t.proc /\ pids' = t.pids /\ waits' = t.waits

\* spawn_worker and its wait task, for a slot of the table.
Spawn(t, slot) ==
    [proc  |-> [t.proc EXCEPT ![Fork(t)] = "running"],
     pids  |-> [t.pids EXCEPT ![slot] = Fork(t)],
     waits |-> t.waits \cup {<<slot, Fork(t)>>}]

Init ==
    /\ proc = [p \in Procs |-> "unborn"]
    /\ pids = <<>>
    /\ waits = {}
    /\ stopping = {}
    /\ cancelled = FALSE
    /\ deadline = "none"
    /\ cooled = TRUE
    /\ armed = FALSE
    /\ phase = "starting"

\* The spawn loop before the select loop; an error of spawn_worker returns.
Start ==
    /\ phase = "starting"
    /\ \/ /\ Unborn # {}
          /\ Becomes(Spawn([Fleet EXCEPT !.pids = Append(@, None)], Len(pids) + 1))
          /\ phase' = IF Len(pids) + 1 = Count THEN "loop" ELSE phase
       \/ /\ phase' = "failed"
          /\ UNCHANGED <<proc, pids, waits>>
    /\ armed' = ~cancelled
    /\ UNCHANGED <<stopping, cancelled, deadline, cooled>>

\* SIGTERM or SIGINT: the signal task of main() and the two signal branches of
\* the loop all cancel the token.
Shutdown ==
    /\ ~cancelled
    /\ cancelled' = TRUE
    /\ UNCHANGED <<fleetVars, deadline, cooled, armed, phase>>

-----------------------------------------------------------------------------
(* Worker processes, wait tasks and time.                                  *)

\* A worker crashes, finishes its drain or is killed.
Exit(p) ==
    /\ proc[p] \in Alive
    /\ proc' = [proc EXCEPT ![p] = "zombie"]
    /\ UNCHANGED <<pids, waits, stopping, cancelled, deadline, cooled, armed, phase>>

Reap(p) ==
    /\ proc[p] = "zombie"
    /\ phase \notin {"done", "failed"}
    /\ proc' = [proc EXCEPT ![p] = "reaped"]
    /\ UNCHANGED <<pids, waits, stopping, cancelled, deadline, cooled, armed, phase>>

DrainTimeout ==
    /\ deadline = "set"
    /\ deadline' = "passed"
    /\ UNCHANGED <<fleetVars, cancelled, cooled, armed, phase>>

Cooldown ==
    /\ ~cooled
    /\ cooled' = TRUE
    /\ UNCHANGED <<fleetVars, cancelled, deadline, armed, phase>>

-----------------------------------------------------------------------------
(* The select loop.                                                        *)

\* kill(2) on every process of a set; a reaped one is not there any more.
Signal(procs, set, how) ==
    [p \in Procs |-> IF p \in set /\ procs[p] \in Alive THEN how ELSE procs[p]]

\* The end of an iteration.  A slot that is being scaled down counts as
\* exited; past the deadline the fleet is killed, and only its wait results
\* are still awaited.
Iterate(t, stops, until) ==
    LET allExited == \A s \in 1..Len(t.pids) : t.pids[s] = None \/ s \in stops
        kill      == until = "passed" /\ ~allExited
    IN /\ Becomes([t EXCEPT !.proc = IF kill THEN Signal(@, ToSet(t.pids), "killed") ELSE @])
       /\ stopping' = stops
       /\ deadline' = until
       /\ phase' = CASE until = "none" -> phase
                     [] until # "none" /\ allExited -> "done"
                     [] kill -> "killing"
                     [] OTHER -> phase

\* Mutant: a worker is restarted although the token is cancelled.
RestartsAlways == TRUE

Restarts == ~cancelled

\* A worker of slot s has been waited for.  The exit of a scaled-down worker
\* goes back to the top of the loop; a worker that dies is restarted unless
\* the token is cancelled or waiting for it has failed.
Joined(s, p) ==
    LET left == [Fleet EXCEPT !.pids[s] = None, !.waits = @ \ {<<s, p>>}]
    IN /\ phase = "loop"
       /\ <<s, p>> \in waits
       /\ proc[p] = "reaped"
       /\ \/ /\ s \in stopping
             /\ Becomes(left)
             /\ stopping' = stopping \ {s}
             /\ UNCHANGED <<deadline, phase>>
          \/ /\ s \notin stopping
             /\ \/ Iterate(left, stopping, deadline)    \* cancelled, or the wait failed
                \/ /\ Restarts
                   /\ Unborn # {}
                   /\ Iterate(Spawn(left, s), stopping, deadline)
                \/ /\ Restarts                         \* the spawn failed
                   /\ Becomes(left)
                   /\ phase' = "failed"
                   /\ UNCHANGED <<stopping, deadline>>
       /\ armed' = ~cancelled
       /\ UNCHANGED <<cancelled, cooled>>

\* join_next() of an empty JoinSet.
NothingToJoin ==
    /\ phase = "loop"
    /\ waits = {}
    /\ cancelled
    /\ phase' = "done"
    /\ UNCHANGED <<fleetVars, cancelled, deadline, cooled, armed>>

\* Mutant: the branch is disabled once the deadline is set.
DrainOnce ==
    /\ phase = "loop"
    /\ cancelled
    /\ deadline = "none"
    /\ Iterate([Fleet EXCEPT !.proc = Signal(@, ToSet(pids), "draining")], stopping, "set")
    /\ armed' = FALSE
    /\ UNCHANGED <<cancelled, cooled>>

\* The cancelled token: the first time it sets the deadline and sends SIGTERM,
\* afterwards it only turns the loop.
Drain ==
    /\ phase = "loop"
    /\ cancelled
    /\ IF deadline = "none"
       THEN Iterate([Fleet EXCEPT !.proc = Signal(@, ToSet(pids), "draining")], stopping, "set")
       ELSE Iterate(Fleet, stopping, deadline)
    /\ armed' = FALSE
    /\ UNCHANGED <<cancelled, cooled>>

\* signal_kill is followed by joining all that is left.
Killed ==
    /\ phase = "killing"
    /\ \A w \in waits : proc[w[2]] = "reaped"
    /\ waits' = {}
    /\ phase' = "done"
    /\ UNCHANGED <<proc, pids, stopping, cancelled, deadline, cooled, armed>>

-----------------------------------------------------------------------------
(* Scaling.                                                                *)

Active == {s \in Slots : pids[s] # None /\ s \notin stopping}

Clamp(n) == IF n < MinWorkers THEN MinWorkers ELSE IF n > MaxWorkers THEN MaxWorkers ELSE n

\* Mutant: the desired number is not clamped.
DecideUnclamped(current, load) ==
    CASE load = "high" -> current + Step
      [] load = "low"  -> IF current > Step THEN current - Step ELSE 0
      [] OTHER         -> current

DecideScale(current, load) ==
    Clamp(CASE load = "high" -> current + Step
            [] load = "low"  -> IF current > Step THEN current - Step ELSE 0
            [] OTHER         -> current)

\* Mutant: a full table is not grown.
NextFreeSlotFull(table) ==
    LET free == {s \in 1..Len(table) : table[s] = None}
    IN IF free = {} THEN Len(table) ELSE Min(free)

\* The lowest free slot, or a new one.
NextFreeSlot(table) ==
    LET free == {s \in 1..Len(table) : table[s] = None}
    IN IF free = {} THEN Len(table) + 1 ELSE Min(free)

Grown(t) ==
    IF NextFreeSlot(t.pids) > Len(t.pids) THEN [t EXCEPT !.pids = Append(@, None)] ELSE t

ScaleUp(t, k) ==
    FoldLeft(LAMBDA u, i : Spawn(Grown(u), NextFreeSlot(u.pids)), t, [i \in 1..k |-> i])

\* The k highest slots that are not stopping yet.
Victims(k) ==
    {s \in Active : Cardinality({u \in Active : u > s}) < k}

\* A tick of the scale timer.  The branch is chosen by the token as it was when
\* the iteration began, so one tick may still follow the cancellation.
Tick(load) ==
    LET active  == Cardinality(Active)
        desired == DecideScale(active, load)
        scale   == desired # active /\ cooled
        add     == Min({desired - active, Step})
        remove  == Victims(Min({active - desired, Step}))
    IN /\ phase = "loop"
       /\ MaxWorkers > MinWorkers
       /\ armed
       /\ armed' = ~cancelled
       /\ cooled' = (cooled /\ ~scale)
       /\ \/ ~scale /\ Iterate(Fleet, stopping, deadline)
          \/ /\ scale /\ desired > active
             /\ \/ /\ add <= Cardinality(Unborn)
                   /\ Iterate(ScaleUp(Fleet, add), stopping, deadline)
                \/ \E k \in 0..Min({add - 1, Cardinality(Unborn)}) :    \* then spawn failed
                    Iterate(Grown(ScaleUp(Fleet, k)), stopping, deadline)
          \/ /\ scale /\ desired < active
             /\ Iterate([Fleet EXCEPT !.proc = Signal(@, {pids[s] : s \in remove}, "draining")],
                        stopping \cup remove, deadline)
       /\ UNCHANGED cancelled

Next ==
    \/ Start \/ Shutdown \/ DrainTimeout \/ Cooldown
    \/ \E p \in Procs : Exit(p) \/ Reap(p) \/ \E s \in Slots : Joined(s, p)
    \/ NothingToJoin \/ Drain \/ Killed
    \/ \E load \in Loads : Tick(load)

Spec == Init /\ [][Next]_vars

\* The loop runs, the deadline comes, a killed process exits and wait tasks
\* notice exits.  Nothing is asked of a worker that is told to drain.
FairSpec ==
    /\ Spec
    /\ WF_vars(Start) /\ WF_vars(DrainTimeout)
    /\ WF_vars(NothingToJoin \/ Drain \/ Killed)
    /\ \A p \in Procs : WF_vars(Reap(p)) /\ WF_vars(proc[p] = "killed" /\ Exit(p))

-----------------------------------------------------------------------------
\* `pids[slot]` mirrors the wait tasks (workers.rs:136): while the loop runs,
\* every process that was spawned and not yet joined has its own slot, so that
\* no worker can be missed when the fleet is signalled.
TableMirrorsFleet ==
    phase = "loop" =>
        /\ waits = {<<s, pids[s]>> : s \in {u \in Slots : pids[u] # None}}
        /\ \A p \in Procs : proc[p] \in Alive \cup {"zombie"} =>
            Cardinality({s \in Slots : pids[s] = p}) = 1

\* workers.rs:14 the supervisor "forwards SIGTERM to every child": from the
\* drain on there is no worker that was not told, and a supervisor that has
\* returned leaves behind only workers that were being scaled down.
DrainReachesEveryone ==
    /\ deadline # "none" => \A p \in Procs : proc[p] # "running"
    /\ phase = "done" => \A p \in Procs : proc[p] \in Alive =>
        proc[p] = "draining" /\ \E s \in stopping : pids[s] = p

\* Restarts, scaling and exits together keep the number of workers that are
\* not being stopped within the policy: never above its maximum (or the count
\* started with), and no scaling down below its minimum.
FleetWithinPolicy ==
    /\ Cardinality(Active') <= Max({Count, MaxWorkers})
    /\ stopping' \subseteq stopping \/ Cardinality(Active') >= MinWorkers

\* supervise() keeps the fleet: no step of it, of the probe or of a worker
\* breaks one of the three.
FleetIsKept == [][TableMirrorsFleet' /\ DrainReachesEveryone' /\ FleetWithinPolicy]_vars

\* workers.rs:415 of a supervisor without a scaling policy: "the fleet stays at
\* its fixed size", so no worker is ever stopped on purpose.
FleetStaysFixed == stopping = {}

\* A cancelled supervisor returns, whatever its workers do with SIGTERM.
ShutdownReturns == cancelled ~> phase \in {"done", "failed"}
=============================================================================
