-------------------------- MODULE BackgroundTasks ---------------------------
(***************************************************************************)
(* The background task executor (justapi-py/src/background.rs): callers    *)
(* that enqueue batches of tasks, the queue with its condition variable,   *)
(* the worker threads and shutdown(wait=True).                             *)
(*                                                                         *)
(* Queue operations run under the mutex of the queue and are atomic, with  *)
(* one exception: pop reads the shutdown flag and then goes to sleep, and  *)
(* shutdown() takes no lock, so it can come between the two.  Counters are *)
(* updated outside the lock, one atomic at a time.                         *)
(***************************************************************************)
EXTENDS Naturals, Sequences, FiniteSets

CONSTANTS
    Workers,        \* worker threads
    Producers,      \* threads that enqueue, one batch each
    PyProducers,    \* those that run Python code (BackgroundTasks.run); the
                    \* others call submit_py_task from a Rust thread
    GilEnabled,     \* FALSE on free-threaded interpreters
    MaxTotal,       \* max_total
    MaxBatch,       \* bound of the model: tasks in a batch
    Wrap,           \* usize::MAX + 1
    Nobody          \* the GIL is not held by native code

ASSUME BackgroundAssumption ==
    /\ IsFiniteSet(Workers) /\ IsFiniteSet(Producers)
    /\ Producers # {} /\ PyProducers \subseteq Producers
    /\ GilEnabled \in BOOLEAN
    /\ MaxTotal \in Nat /\ MaxBatch \in Nat \ {0}
    /\ Wrap \in Nat /\ Wrap > MaxBatch * Cardinality(Producers)
    /\ Nobody \notin Producers

VARIABLES
    caller,     \* caller[p]: where the thread p stands in enqueue
    pending,    \* pending[p]: tasks registered by p
    handed,     \* handed[p]: tasks of the batch taken up by enqueue so far
    queue,      \* TaskQueue.tasks
    worker,     \* worker[w]: where worker w stands
    task,       \* task[w]: the last task w took
    submitted, active, completed, failed, dropped, asyncs,  \* Stats
    shut,       \* where shutdown() stands
    gil,        \* the thread inside a native call that keeps the GIL
    ended       \* history: tasks whose callable has ended

vars == <<caller, pending, handed, queue, worker, task, submitted, active,
          completed, failed, dropped, asyncs, shut, gil, ended>>

counters == <<submitted, active, completed, failed, dropped, asyncs>>

Tasks   == Producers \X (1..MaxBatch)
NoTask  == <<Nobody, 0>>
Closer  == "shutdown"

\* TaskQueue.shutdown
ShutdownFlag == shut # "running"

CallerStates == {"idle", "checking", "pushing", "submitting", "activating",
                 "done"}
WorkerStates == {"polling", "committing", "waiting", "running", "returned",
                 "awaiting", "leaving", "exited"}

InState(S) == {w \in Workers : worker[w] \in S}
Waiting    == InState({"waiting"})
Busy       == InState({"running", "returned", "awaiting"})
LockFree   == InState({"committing"}) = {}
GilFree    == gil = Nobody

TypeOK ==
    /\ caller \in [Producers -> CallerStates]
    /\ pending \in [Producers -> 0..MaxBatch]
    /\ handed \in [Producers -> 0..MaxBatch]
    /\ queue \in Seq(Tasks)
    /\ worker \in [Workers -> WorkerStates]
    /\ task \in [Workers -> Tasks \cup {NoTask}]
    /\ {submitted, active, completed, failed, dropped, asyncs} \subseteq 0..(Wrap - 1)
    /\ shut \in {"running", "stored", "joining", "returned"}
    /\ gil \in Producers \cup {Nobody, Closer}
    /\ ended \subseteq Tasks

Init ==
    /\ caller = [p \in Producers |-> "idle"]
    /\ pending = [p \in Producers |-> 0]
    /\ handed = [p \in Producers |-> 0]
    /\ queue = <<>>
    /\ worker = [w \in Workers |-> "polling"]
    /\ task = [w \in Workers |-> NoTask]
    /\ submitted = 0 /\ active = 0 /\ completed = 0
    /\ failed = 0 /\ dropped = 0 /\ asyncs = 0
    /\ shut = "running"
    /\ gil = Nobody
    /\ ended = {}

-----------------------------------------------------------------------------
(* Callers.                                                                *)

\* add_task; submit_py_task is called with one task at a time.
AddTask(p) ==
    /\ caller[p] = "idle"
    /\ pending[p] < (IF p \in PyProducers THEN MaxBatch ELSE 1)
    /\ GilFree
    /\ pending' = [pending EXCEPT ![p] = @ + 1]
    /\ UNCHANGED <<caller, handed, queue, worker, task, counters, shut, gil, ended>>

\* Native code called from Python has the GIL, if there is one, to its end.
TakeGil(t) ==
    /\ GilFree
    /\ gil' = IF GilEnabled THEN t ELSE gil

\* run() keeps the GIL until the batch is enqueued.
Run(p) ==
    /\ caller[p] = "idle"
    /\ pending[p] > 0
    /\ IF p \in PyProducers THEN TakeGil(p) ELSE UNCHANGED gil
    /\ caller' = [caller EXCEPT ![p] = "checking"]
    /\ UNCHANGED <<pending, handed, queue, worker, task, counters, shut, ended>>

\* Mutant: the loop runs once too often.
NextTaskInclusive(p) ==
    IF handed'[p] <= pending[p]
    THEN caller' = [caller EXCEPT ![p] = "checking"] /\ UNCHANGED gil
    ELSE /\ caller' = [caller EXCEPT ![p] = "done"]
         /\ gil' = IF gil = p THEN Nobody ELSE gil

\* The loop of run() goes on, or returns and gives the GIL up.
NextTask(p) ==
    IF handed'[p] < pending[p]
    THEN caller' = [caller EXCEPT ![p] = "checking"] /\ UNCHANGED gil
    ELSE /\ caller' = [caller EXCEPT ![p] = "done"]
         /\ gil' = IF gil = p THEN Nobody ELSE gil

\* Mutant: a queue with max_total tasks takes another one.
CheckSizeInclusive(p) ==
    /\ caller[p] = "checking"
    /\ handed' = [handed EXCEPT ![p] = @ + 1]
    /\ IF Len(queue) > MaxTotal
       THEN /\ dropped' = (dropped + 1) % Wrap
            /\ NextTask(p)
       ELSE /\ caller' = [caller EXCEPT ![p] = "pushing"]
            /\ UNCHANGED <<dropped, gil>>
    /\ UNCHANGED <<pending, queue, worker, task, submitted, active, completed,
                   failed, asyncs, shut, ended>>

\* enqueue reads the size without the lock.
CheckSize(p) ==
    /\ caller[p] = "checking"
    /\ handed' = [handed EXCEPT ![p] = @ + 1]
    /\ IF Len(queue) >= MaxTotal
       THEN /\ dropped' = (dropped + 1) % Wrap
            /\ NextTask(p)
       ELSE /\ caller' = [caller EXCEPT ![p] = "pushing"]
            /\ UNCHANGED <<dropped, gil>>
    /\ UNCHANGED <<pending, queue, worker, task, submitted, active, completed,
                   failed, asyncs, shut, ended>>

\* Mutant: a push on a queue that is not empty wakes nobody.
PushQuietly(p) ==
    /\ caller[p] = "pushing"
    /\ LockFree
    /\ queue' = Append(queue, <<p, handed[p]>>)
    /\ \/ /\ queue = <<>>
          /\ \E w \in Waiting : worker' = [worker EXCEPT ![w] = "polling"]
       \/ /\ Waiting = {} \/ queue # <<>>
          /\ UNCHANGED worker
    /\ caller' = [caller EXCEPT ![p] = "submitting"]
    /\ UNCHANGED <<pending, handed, task, counters, shut, gil, ended>>

\* push: append and notify_one, which is lost when nobody waits.
Push(p) ==
    /\ caller[p] = "pushing"
    /\ LockFree
    /\ queue' = Append(queue, <<p, handed[p]>>)
    /\ \/ \E w \in Waiting : worker' = [worker EXCEPT ![w] = "polling"]
       \/ Waiting = {} /\ UNCHANGED worker
    /\ caller' = [caller EXCEPT ![p] = "submitting"]
    /\ UNCHANGED <<pending, handed, task, counters, shut, gil, ended>>

CountSubmitted(p) ==
    /\ caller[p] = "submitting"
    /\ submitted' = (submitted + 1) % Wrap
    /\ caller' = [caller EXCEPT ![p] = "activating"]
    /\ UNCHANGED <<pending, handed, queue, worker, task, active, completed,
                   failed, dropped, asyncs, shut, gil, ended>>

CountActive(p) ==
    /\ caller[p] = "activating"
    /\ active' = (active + 1) % Wrap
    /\ UNCHANGED handed
    /\ NextTask(p)
    /\ UNCHANGED <<pending, queue, worker, task, submitted, completed, failed,
                   dropped, asyncs, shut, ended>>

-----------------------------------------------------------------------------
(* Workers.                                                                *)

Goto(w, s) == worker' = [worker EXCEPT ![w] = s]

\* Mutant: no task is handed out once the shutdown flag is set.
PopWhileOpen(w) ==
    /\ worker[w] = "polling"
    /\ LockFree
    /\ ~ShutdownFlag
    /\ queue # <<>>
    /\ queue' = Tail(queue)
    /\ task' = [task EXCEPT ![w] = Head(queue)]
    /\ Goto(w, "running")
    /\ UNCHANGED <<caller, pending, handed, counters, shut, gil, ended>>

Pop(w) ==
    /\ worker[w] = "polling"
    /\ LockFree
    /\ queue # <<>>
    /\ queue' = Tail(queue)
    /\ task' = [task EXCEPT ![w] = Head(queue)]
    /\ Goto(w, "running")
    /\ UNCHANGED <<caller, pending, handed, counters, shut, gil, ended>>

\* The queue is empty: the worker reads the flag and exits, or makes up its
\* mind to wait.  It holds the lock until it sleeps.
LoadShutdown(w) ==
    /\ worker[w] = "polling"
    /\ LockFree
    /\ queue = <<>>
    /\ Goto(w, IF ShutdownFlag THEN "exited" ELSE "committing")
    /\ UNCHANGED <<caller, pending, handed, queue, task, counters, shut, gil,
                   ended>>

Wait(w) ==
    /\ worker[w] = "committing"
    /\ Goto(w, "waiting")
    /\ UNCHANGED <<caller, pending, handed, queue, task, counters, shut, gil,
                   ended>>

\* A condition variable may wake a thread that nobody notified.
SpuriousWakeup(w) ==
    /\ worker[w] = "waiting"
    /\ Goto(w, "polling")
    /\ UNCHANGED <<caller, pending, handed, queue, task, counters, shut, gil,
                   ended>>

\* process: the callable raises, or returns a value to look at.
CallTask(w) ==
    /\ worker[w] = "running"
    /\ GilFree
    /\ \/ Goto(w, "returned") /\ UNCHANGED <<failed, ended>>
       \/ /\ Goto(w, "leaving")
          /\ failed' = (failed + 1) % Wrap
          /\ ended' = ended \cup {task[w]}
    /\ UNCHANGED <<caller, pending, handed, queue, task, submitted, active,
                   completed, dropped, asyncs, shut, gil>>

\* is_coroutine decides whether the task is over.
Inspect(w) ==
    /\ worker[w] = "returned"
    /\ GilFree
    /\ \/ /\ Goto(w, "awaiting")
          /\ asyncs' = (asyncs + 1) % Wrap
          /\ UNCHANGED <<completed, ended>>
       \/ /\ Goto(w, "leaving")
          /\ completed' = (completed + 1) % Wrap
          /\ ended' = ended \cup {task[w]}
          /\ UNCHANGED asyncs
    /\ UNCHANGED <<caller, pending, handed, queue, task, submitted, active,
                   failed, dropped, shut, gil>>

\* Mutant: the error of asyncio.run is logged only.
RunCoroutineLogged(w) ==
    /\ worker[w] = "awaiting"
    /\ GilFree
    /\ \/ completed' = (completed + 1) % Wrap /\ UNCHANGED failed
       \/ UNCHANGED <<completed, failed>>
    /\ Goto(w, "leaving")
    /\ ended' = ended \cup {task[w]}
    /\ UNCHANGED <<caller, pending, handed, queue, task, submitted, active,
                   dropped, asyncs, shut, gil>>

\* asyncio.run succeeds or fails.
RunCoroutine(w) ==
    /\ worker[w] = "awaiting"
    /\ GilFree
    /\ \/ completed' = (completed + 1) % Wrap /\ UNCHANGED failed
       \/ failed' = (failed + 1) % Wrap /\ UNCHANGED completed
    /\ Goto(w, "leaving")
    /\ ended' = ended \cup {task[w]}
    /\ UNCHANGED <<caller, pending, handed, queue, task, submitted, active,
                   dropped, asyncs, shut, gil>>

\* Mutant: a saturating decrement.
DeactivateSaturating(w) ==
    /\ worker[w] = "leaving"
    /\ active' = IF active = 0 THEN 0 ELSE active - 1
    /\ Goto(w, "polling")
    /\ UNCHANGED <<caller, pending, handed, queue, task, submitted, completed,
                   failed, dropped, asyncs, shut, gil, ended>>

\* active.fetch_sub wraps when the caller has not counted the task yet.
Deactivate(w) ==
    /\ worker[w] = "leaving"
    /\ active' = (active + Wrap - 1) % Wrap
    /\ Goto(w, "polling")
    /\ UNCHANGED <<caller, pending, handed, queue, task, submitted, completed,
                   failed, dropped, asyncs, shut, gil, ended>>

-----------------------------------------------------------------------------
(* shutdown(wait=True), which keeps the GIL until it returns.              *)

StoreShutdown ==
    /\ shut = "running"
    /\ TakeGil(Closer)
    /\ shut' = "stored"
    /\ UNCHANGED <<caller, pending, handed, queue, worker, task, counters, ended>>

NotifyAll ==
    /\ shut = "stored"
    /\ shut' = "joining"
    /\ worker' = [w \in Workers |->
                    IF w \in Waiting THEN "polling" ELSE worker[w]]
    /\ UNCHANGED <<caller, pending, handed, queue, task, counters, gil, ended>>

\* Every handle is joined.
Joined ==
    /\ shut = "joining"
    /\ InState({"exited"}) = Workers
    /\ shut' = "returned"
    /\ gil' = Nobody
    /\ UNCHANGED <<caller, pending, handed, queue, worker, task, counters, ended>>

-----------------------------------------------------------------------------
EnqueueStep(p) ==
    Run(p) \/ CheckSize(p) \/ Push(p) \/ CountSubmitted(p) \/ CountActive(p)

WorkStep(w) ==
    \/ Pop(w) \/ LoadShutdown(w) \/ Wait(w)
    \/ CallTask(w) \/ Inspect(w) \/ RunCoroutine(w) \/ Deactivate(w)

ShutdownStep == NotifyAll \/ Joined

Next ==
    \/ \E p \in Producers : AddTask(p) \/ EnqueueStep(p)
    \/ \E w \in Workers : WorkStep(w) \/ SpuriousWakeup(w)
    \/ StoreShutdown
    \/ ShutdownStep

Spec == Init /\ [][Next]_vars

\* Threads are scheduled and callables return.
FairSpec ==
    /\ Spec
    /\ \A p \in Producers : WF_vars(EnqueueStep(p))
    /\ \A w \in Workers : WF_vars(WorkStep(w))
    /\ WF_vars(ShutdownStep)

-----------------------------------------------------------------------------
\* The check and the push of enqueue are not atomic: the queue exceeds
\* max_total by at most one task per further caller, and never by more.
QueueOvershootBounded ==
    Len(queue) < MaxTotal + Cardinality(Producers)

\* No wake-up is missing: while a worker sleeps, every queued task has a
\* worker of its own that is awake and about to poll.
WakeupsCoverQueue ==
    Waiting # {} => Len(queue) <= Cardinality(InState({"polling"}))

Calling(S) == {p \in Producers : caller[p] \in S}
InHand     == Len(queue) + Cardinality(Busy)

\* active is, up to the wrap-around, the number of queued and running tasks
\* less those their caller has not counted yet: no update is ever lost.
ActiveReconciles ==
    (active + Cardinality(Calling({"submitting", "activating"}))) % Wrap
        = (InHand + Cardinality(InState({"leaving"}))) % Wrap

\* No task is lost, run twice or counted twice: every task handed to enqueue
\* is dropped, about to be pushed, in hand or over, and one that is over is
\* either completed or failed.
TasksAccounted ==
    /\ Cardinality({t \in Tasks : t[2] <= handed[t[1]]})
        = dropped + Cardinality(Calling({"pushing"})) + InHand + Cardinality(ended)
    /\ submitted + Cardinality(Calling({"submitting"}))
        = InHand + Cardinality(ended)
    /\ completed + failed = Cardinality(ended)

\* Whatever the callers, the workers and shutdown() interleave, the queue of
\* background.rs keeps its limit, its wake-ups and its counters.
QueueIsSound ==
    TypeOK /\ QueueOvershootBounded /\ WakeupsCoverQueue /\ ActiveReconciles /\ TasksAccounted

Queued(t) == \E i \in 1..Len(queue) : queue[i] = t

\* A task that was queued before shutdown() runs to its end, also when
\* shutdown() is called afterwards: background.rs:279 "Drain workers".
AcceptedTaskRuns ==
    \A t \in Tasks : (Queued(t) /\ ~ShutdownFlag) ~> t \in ended
=============================================================================
