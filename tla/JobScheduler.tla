---------------------------- MODULE JobScheduler ----------------------------
(***************************************************************************)
(* The cron and interval scheduler (justapi-py/src/scheduler.rs): Python   *)
(* threads that register, list and remove jobs, and the tick loop that     *)
(* fires them.  Two locks are involved: the mutex of the job list, and the *)
(* GIL, which a Python thread keeps for the whole of a native call and the *)
(* tick loop takes for each due job.                                       *)
(*                                                                         *)
(* Times are relative to the clock: a job that is due at the instant       *)
(* clock + n has due = n.  A tick loop reads the clock before it waits for *)
(* the mutex; lag is how old its reading is.                               *)
(***************************************************************************)
EXTENDS Integers, Sequences, SequencesExt

CONSTANTS
    Steps,      \* intervals, in ticks, that every() is called with
    Period,     \* the cron expression fires when clock % Period = 0
    MaxJobs,    \* bound: jobs ever registered
    MaxStarts,  \* bound: tick loops ever started
    MaxLag      \* bound: ticks of the clock during one round of a loop

VARIABLES
    jobs,       \* SchedulerInner.jobs
    nextId,     \* SchedulerInner.next_id
    running,    \* SchedulerInner.running
    loops,      \* the tick loops started so far; the last one has the handle
    mutex,      \* holder of the mutex of jobs: a loop, or 0
    gil,        \* holder of the GIL: "python", or "none"
    call,       \* the native call the Python thread is in
    phase       \* the clock, modulo Period

vars == <<jobs, nextId, running, loops, mutex, gil, call, phase>>

Unset  == 100   \* next_fire_ms = None
NoCall == [op |-> "none", arg |-> 0]
Cron   == 0     \* the step of a cron job

Init ==
    /\ jobs = <<>> /\ nextId = 1
    /\ running = FALSE
    /\ loops = <<>>
    /\ mutex = 0
    /\ gil = "none" /\ call = NoCall
    /\ phase = 0

-----------------------------------------------------------------------------
(* Next-fire arithmetic.                                                   *)

\* compute_next, with now relative to the clock; last = Unset for None.
ComputeNext(step, last, now) ==
    IF step = Cron
    THEN now + Period - ((phase + now) % Period)
    ELSE LET base == IF last = Unset THEN now ELSE last
         IN IF base + step <= now THEN now + step ELSE base + step

\* The clock moves on.  An overdue job is overdue by at most MaxLag: no loop
\* tells larger delays apart.
Later(t) == IF t = Unset THEN t ELSE IF t > -MaxLag THEN t - 1 ELSE t

Rounds == {"lock", "scan", "attach"}

Clock ==
    /\ \A l \in DOMAIN loops : loops[l].at \in Rounds => loops[l].lag < MaxLag
    /\ phase' = (phase + 1) % Period
    /\ jobs' = [j \in DOMAIN jobs |->
                    [jobs[j] EXCEPT !.next = Later(@), !.last = Later(@)]]
    /\ loops' = [l \in DOMAIN loops |->
                    IF loops[l].at \in Rounds THEN [loops[l] EXCEPT !.lag = @ + 1]
                    ELSE loops[l]]
    /\ UNCHANGED <<nextId, running, mutex, gil, call>>

-----------------------------------------------------------------------------
(* Python threads.  A native call keeps the GIL until it returns.          *)

Ops == {[op |-> "every", arg |-> n] : n \in Steps \cup {0}}
       \cup {[op |-> o, arg |-> 0] :
                o \in {"schedule", "start", "stop", "stats", "maybe_start"}}
       \cup {[op |-> "remove", arg |-> i] : i \in 1..MaxJobs}

Enter(c) ==
    /\ call = NoCall /\ gil = "none"
    /\ c.op \in {"every", "schedule"} => nextId <= MaxJobs
    /\ c.op \in {"start", "maybe_start"} => Len(loops) < MaxStarts
    /\ call' = c /\ gil' = "python"
    /\ UNCHANGED <<jobs, nextId, running, loops, mutex, phase>>

Leave == call' = NoCall /\ gil' = "none"

\* schedule and every push a job whose fire times are not computed yet.
Push(step) ==
    /\ mutex = 0
    /\ jobs' = Append(jobs, [id |-> nextId, step |-> step, last |-> Unset, next |-> Unset])
    /\ nextId' = nextId + 1
    /\ Leave
    /\ UNCHANGED <<running, loops, mutex, phase>>

Schedule == call.op = "schedule" /\ Push(Cron)

Every ==
    /\ call.op = "every"
    /\ \/ call.arg > 0 /\ Push(call.arg)
       \/ call.arg = 0 /\ Leave /\ UNCHANGED <<jobs, nextId, running, loops, mutex, phase>>

Without(i) == SelectSeq(jobs, LAMBDA j : j.id # i)

RemoveJob ==
    /\ call.op = "remove" /\ mutex = 0
    /\ jobs' = Without(call.arg)
    /\ Leave
    /\ UNCHANGED <<nextId, running, loops, mutex, phase>>

\* stats and jobs read the list.
ListJobs ==
    /\ call.op = "stats" /\ mutex = 0
    /\ Leave
    /\ UNCHANGED <<jobs, nextId, running, loops, mutex, phase>>

NewLoop == [at |-> "tick", lag |-> 0, i |-> 0, aborted |-> FALSE]

\* Mutant: the loop is started once per process.
Spawn_Once == loops' = IF loops = <<>> THEN <<NewLoop>> ELSE loops

Spawn == loops' = Append(loops, NewLoop)

\* Scheduler::start; maybe_start_if_jobs looks at the list first.
Start ==
    /\ \/ call.op = "start"
       \/ call.op = "maybe_start" /\ mutex = 0
    /\ IF running \/ (call.op = "maybe_start" /\ jobs = <<>>)
       THEN UNCHANGED <<running, loops>>
       ELSE running' = TRUE /\ Spawn
    /\ Leave
    /\ UNCHANGED <<jobs, nextId, mutex, phase>>

\* Scheduler::stop.  abort ends a loop where it awaits its ticker; a loop in
\* the middle of a round goes on to the end of it, shutdown_timeout or not.
Stop ==
    /\ call.op = "stop"
    /\ running' = FALSE
    /\ loops' = IF ~running THEN loops
                ELSE [loops EXCEPT ![Len(loops)] =
                        [@ EXCEPT !.aborted = TRUE,
                                  !.at = IF @ = "tick" THEN "ended" ELSE @]]
    /\ Leave
    /\ UNCHANGED <<jobs, nextId, mutex, phase>>

Return == Schedule \/ Every \/ RemoveJob \/ ListJobs \/ Start \/ Stop

-----------------------------------------------------------------------------
(* The tick loop.                                                          *)

\* The ticker fires: leave if stopped, else read the clock.
Tick(l) ==
    /\ loops[l].at = "tick"
    /\ loops' = [loops EXCEPT ![l] = [@ EXCEPT !.at = IF running THEN "lock" ELSE "ended",
                                               !.lag = 0]]
    /\ UNCHANGED <<jobs, nextId, running, mutex, gil, call, phase>>

LockJobs(l) ==
    /\ loops[l].at = "lock" /\ mutex = 0
    /\ mutex' = l
    /\ loops' = [loops EXCEPT ![l] = [@ EXCEPT !.at = "scan", !.i = 1]]
    /\ UNCHANGED <<jobs, nextId, running, gil, call, phase>>

Now(l) == -loops[l].lag

\* Resolve the job's fire time, and see whether it is due.
Scan(l) ==
    /\ loops[l].at = "scan" /\ loops[l].i <= Len(jobs)
    /\ LET i == loops[l].i
           job == jobs[i]
           next == IF job.next = Unset THEN ComputeNext(job.step, job.last, Now(l))
                   ELSE job.next
       IN /\ jobs' = [jobs EXCEPT ![i].next = next]
          /\ loops' = IF next <= Now(l) THEN [loops EXCEPT ![l].at = "attach"]
                      ELSE [loops EXCEPT ![l].i = @ + 1]
    /\ UNCHANGED <<nextId, running, mutex, gil, call, phase>>

\* Mutant: the next fire time is computed before the last one is recorded.
Advanced_Stale(job, now) ==
    [job EXCEPT !.last = now, !.next = IF job.last = Unset THEN job.next ELSE ComputeNext(job.step, job.last, now)]

Advanced(job, now) ==
    [job EXCEPT !.last = now, !.next = ComputeNext(job.step, now, now)]

\* Python::attach, hand the job to the background pool, and advance it.
Fire(l) ==
    /\ loops[l].at = "attach" /\ gil = "none"
    /\ LET i == loops[l].i
       IN jobs' = [jobs EXCEPT ![i] = Advanced(@, Now(l))]
    /\ loops' = [loops EXCEPT ![l] = [@ EXCEPT !.at = "scan", !.i = @ + 1]]
    /\ UNCHANGED <<nextId, running, mutex, gil, call, phase>>

EndRound(l) ==
    /\ loops[l].at = "scan" /\ loops[l].i > Len(jobs)
    /\ mutex' = 0
    /\ loops' = [loops EXCEPT ![l] =
                    [NewLoop EXCEPT !.aborted = loops[l].aborted,
                                    !.at = IF loops[l].aborted THEN "ended" ELSE "tick"]]
    /\ UNCHANGED <<jobs, nextId, running, gil, call, phase>>

Round(l) == Tick(l) \/ LockJobs(l) \/ Scan(l) \/ Fire(l) \/ EndRound(l)

-----------------------------------------------------------------------------

Next ==
    \/ Clock
    \/ \E c \in Ops : Enter(c)
    \/ Return
    \/ \E l \in DOMAIN loops : Round(l)

\* The clock runs, native calls return when they can, and a thread of the
\* scheduler's runtime polls its loop.
Fairness ==
    /\ WF_vars(Clock)
    /\ WF_vars(Return)
    /\ \A l \in 1..MaxStarts : SF_vars(l \in DOMAIN loops /\ Round(l))

Spec == Init /\ [][Next]_vars /\ Fairness

-----------------------------------------------------------------------------
(* Properties.                                                             *)

\* The Python thread waits for the mutex with the GIL, and a tick loop for
\* the GIL with the mutex.
LockCycle ==
    /\ mutex # 0 /\ loops[mutex].at = "attach"
    /\ gil = "python"
    /\ call.op \in {"every", "schedule", "remove", "stats", "maybe_start"}

\* An interval job never fires twice within its interval, measured on the
\* readings of the clock that fired it: not when a stopped loop is still in
\* its last round while its successor runs, and not after a delay.
NeverEarly ==
    \A l \in DOMAIN loops : Fire(l) =>
        LET job == jobs[loops[l].i]
        IN job.step # Cron /\ job.last # Unset /\ job.last > -MaxLag
           => Now(l) - job.last >= job.step

\* A started scheduler with jobs keeps firing, stop and restart included,
\* unless it ends in the one deadlock tick_loop is exposed to: the loop that
\* holds the job list waits for the GIL, and the thread with the GIL waits
\* for the job list.
FiresUnlessDeadlocked ==
    <>[](running /\ jobs # <<>>) =>
        \/ []<><<\E l \in DOMAIN loops : Fire(l)>>_vars
        \/ <>[]LockCycle
=============================================================================
