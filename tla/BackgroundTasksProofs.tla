----------------------- MODULE BackgroundTasksProofs ------------------------
(***************************************************************************)
(* The queue of background tasks is sound, for any number of callers,      *)
(* workers and tasks: how far it exceeds max_total, that no wake-up is     *)
(* missing, and that every task is accounted for.                          *)
(*                                                                         *)
(* None of this is inductive.  The overshoot is bounded because callers    *)
(* that have passed the size check are counted with the tasks they will    *)
(* push; a worker may go to sleep because a push waits for the lock that   *)
(* the worker holds since it saw the queue empty; and the books are right  *)
(* because every task is in one place (BackgroundLedgerProofs).            *)
(***************************************************************************)
EXTENDS BackgroundLedgerProofs

QueueType ==
    /\ caller \in [Producers -> CallerStates]
    /\ handed \in [Producers -> Nat]
    /\ worker \in [Workers -> WorkerStates]
    /\ queue \in Seq(Producers \X Nat)

Committing == InState({"committing"})
Polling    == InState({"polling"})

PushesFit    == Len(queue) + Cardinality(Pushing) < MaxTotal + Cardinality(Producers)
SleepIsSafe  == Committing # {} => queue = <<>>

QueueInv == QueueType /\ PushesFit /\ SleepIsSafe /\ WakeupsCoverQueue

-----------------------------------------------------------------------------
\* The sets of callers and of workers are finite.
LEMMA SizesAreNumbers ==
    /\ IsFiniteSet(Pushing) /\ Cardinality(Pushing) \in Nat
    /\ IsFiniteSet(Polling) /\ Cardinality(Polling) \in Nat
    /\ Cardinality(Pushing) <= Cardinality(Producers)
    /\ Cardinality(Producers) \in Nat \ {0} /\ MaxTotal \in Nat
<1>1. Pushing \in SUBSET Producers /\ Polling \in SUBSET Workers
  BY DEF Pushing, Polling, Calling, InState
<1>2. /\ IsFiniteSet(Producers) /\ IsFiniteSet(Workers) /\ Producers # {} /\ MaxTotal \in Nat
  BY BackgroundAssumption DEF BackgroundAssumption
<1>3. Cardinality(Producers) \in Nat \ {0}
  BY <1>2, FS_CardinalityType, FS_EmptySet
<1> QED BY <1>1, <1>2, <1>3, FS_Subset, FS_CardinalityType

\* The callers' part: p moves to state s, the workers and the queue stay.
LEMMA CallerMoves ==
    ASSUME QueueInv, NEW p \in Producers, NEW s \in CallerStates, caller' = [caller EXCEPT ![p] = s],
           handed' \in [Producers -> Nat], UNCHANGED <<worker, queue>>,
           s = "pushing" => Len(queue) < MaxTotal
    PROVE  QueueInv'
<1> USE DEF QueueInv
<1>1. QueueType'
  BY DEF QueueType
<1>2. SleepIsSafe' /\ WakeupsCoverQueue'
  BY DEF SleepIsSafe, WakeupsCoverQueue, Committing, Waiting, InState
<1>3. Len(queue) \in Nat
  BY DEF QueueType
<1>4. PushesFit'
  <2>1. Pushing' \in SUBSET Producers
    BY DEF Pushing, Calling
  <2>2. Cardinality(Pushing)' \in Nat /\ Cardinality(Pushing)' <= Cardinality(Producers)
    BY <2>1, BackgroundAssumption, FS_Subset, FS_CardinalityType DEF BackgroundAssumption
  <2>3. CASE s = "pushing"
    BY <1>3, <2>2, <2>3, SizesAreNumbers DEF PushesFit
  <2>4. CASE s # "pushing"
    <3>1. Pushing' \in SUBSET Pushing
      BY <2>4 DEF Pushing, Calling, QueueType
    <3>2. Cardinality(Pushing)' <= Cardinality(Pushing)
      BY <3>1, SizesAreNumbers, FS_Subset
    <3> QED BY <1>3, <2>2, <3>2, SizesAreNumbers DEF PushesFit
  <2> QED BY <2>3, <2>4
<1> QED BY <1>1, <1>2, <1>4

\* The workers' part: nobody goes to sleep or is about to, and nobody stops
\* polling.
LEMMA WorkersMove ==
    ASSUME QueueInv, worker' \in [Workers -> WorkerStates], UNCHANGED <<caller, handed, queue>>,
           Committing' \subseteq Committing, Waiting' \subseteq Waiting, Polling \subseteq Polling'
    PROVE  QueueInv'
<1> USE DEF QueueInv
<1>1. QueueType' /\ PushesFit' /\ SleepIsSafe'
  BY DEF QueueType, PushesFit, Pushing, Calling, SleepIsSafe
<1>2. Polling' \in SUBSET Workers
  BY DEF Polling, InState
<1>3. IsFiniteSet(Polling') /\ Cardinality(Polling') \in Nat
  BY <1>2, BackgroundAssumption, FS_Subset, FS_CardinalityType DEF BackgroundAssumption
<1>4. Cardinality(Polling) <= Cardinality(Polling')
  BY <1>3, FS_Subset
<1>5. Len(queue) \in Nat
  BY DEF QueueType
<1>6. WakeupsCoverQueue'
  BY <1>3, <1>4, <1>5, SizesAreNumbers DEF WakeupsCoverQueue, Polling
<1> QED BY <1>1, <1>6

-----------------------------------------------------------------------------
\* push: the caller's place goes to its task, and the worker it wakes, if one
\* sleeps, is there for the task.
LEMMA PushKeeps ==
    ASSUME QueueInv, NEW p \in Producers, Push(p)
    PROVE  QueueInv'
<1> USE DEF QueueInv
<1>1. /\ caller[p] = "pushing" /\ caller' = [caller EXCEPT ![p] = "submitting"]
      /\ queue' = Append(queue, <<p, handed[p]>>) /\ handed' = handed /\ Committing = {}
  BY DEF Push, LockFree, Committing
<1>2. /\ Len(queue) \in Nat /\ Len(queue') = Len(queue) + 1
      /\ queue' \in Seq(Producers \X Nat)
  BY <1>1 DEF QueueType
<1>3. Pushing' = Pushing \ {p} /\ p \in Pushing
  BY <1>1 DEF Pushing, Calling, QueueType
<1>4. Cardinality(Pushing') = Cardinality(Pushing) - 1
  BY <1>3, SizesAreNumbers, FS_RemoveElement
<1>5. PushesFit'
  BY <1>2, <1>4, SizesAreNumbers DEF PushesFit
<1>6. CASE \E w \in Waiting : worker' = [worker EXCEPT ![w] = "polling"]
  <2>1. PICK w \in Waiting : worker' = [worker EXCEPT ![w] = "polling"]
    BY <1>6
  <2>2. w \in Workers /\ worker[w] = "waiting"
    BY DEF Waiting, InState
  <2>3. Polling' = Polling \cup {w} /\ w \notin Polling /\ Committing' = {}
    BY <1>1, <2>1, <2>2 DEF Polling, Committing, InState, QueueType
  <2>4. Cardinality(Polling') = Cardinality(Polling) + 1
    BY <2>3, SizesAreNumbers, FS_AddElement
  <2>5. WakeupsCoverQueue'
    BY <1>2, <2>4, SizesAreNumbers DEF WakeupsCoverQueue, Polling
  <2>6. QueueType'
    BY <1>1, <1>2, <2>1, <2>2 DEF QueueType, CallerStates, WorkerStates
  <2> QED BY <1>5, <2>3, <2>5, <2>6 DEF SleepIsSafe
<1>7. CASE Waiting = {} /\ UNCHANGED worker
  <2>1. Waiting' = {} /\ Committing' = {}
    BY <1>1, <1>7 DEF Waiting, Committing, InState
  <2>2. QueueType'
    BY <1>1, <1>2, <1>7 DEF QueueType, CallerStates
  <2> QED BY <1>5, <2>1, <2>2 DEF SleepIsSafe, WakeupsCoverQueue
<1> QED BY <1>6, <1>7 DEF Push

\* A worker that takes a task leaves as many pollers as tasks; one that finds
\* none may sleep, since there is nothing to poll for.
LEMMA PollKeeps ==
    ASSUME QueueInv, NEW w \in Workers, Pop(w) \/ LoadShutdown(w) \/ Wait(w)
    PROVE  QueueInv'
<1> USE DEF QueueInv
<1>1. Len(queue) \in Nat /\ UNCHANGED <<caller, handed>> /\ Pushing' = Pushing
  BY DEF Pop, LoadShutdown, Wait, QueueType, Pushing, Calling
<1>2. CASE Pop(w)
  <2>1. /\ queue # <<>> /\ queue' = Tail(queue) /\ Committing = {}
        /\ worker[w] = "polling" /\ worker' = [worker EXCEPT ![w] = "running"]
    BY <1>2 DEF Pop, Goto, LockFree, Committing
  <2>2. Len(queue') = Len(queue) - 1 /\ queue' \in Seq(Producers \X Nat)
    BY <2>1 DEF QueueType
  <2>3. Polling' = Polling \ {w} /\ w \in Polling /\ Committing' = {} /\ Waiting' = Waiting
    BY <2>1 DEF Polling, Committing, Waiting, InState, QueueType
  <2>4. Cardinality(Polling') = Cardinality(Polling) - 1
    BY <2>3, SizesAreNumbers, FS_RemoveElement
  <2>5. WakeupsCoverQueue'
    BY <1>1, <2>2, <2>3, <2>4, SizesAreNumbers DEF WakeupsCoverQueue, Polling
  <2>6. QueueType'
    BY <1>1, <2>1, <2>2 DEF QueueType, WorkerStates
  <2>7. PushesFit'
    BY <1>1, <2>2, SizesAreNumbers DEF PushesFit
  <2> QED BY <2>3, <2>5, <2>6, <2>7 DEF SleepIsSafe
<1>3. CASE LoadShutdown(w) \/ Wait(w)
  <2>1. queue = <<>> /\ queue' = <<>>
    BY <1>3 DEF LoadShutdown, Wait, SleepIsSafe, Committing, InState
  <2>2. Polling' \in SUBSET Workers
    BY DEF Polling, InState
  <2>3. Cardinality(Polling') \in Nat
    BY <2>2, BackgroundAssumption, FS_Subset, FS_CardinalityType DEF BackgroundAssumption
  <2>4. WakeupsCoverQueue'
    BY <2>1, <2>3 DEF WakeupsCoverQueue, Polling
  <2>5. QueueType'
    BY <1>1, <1>3, <2>1 DEF LoadShutdown, Wait, Goto, QueueType, WorkerStates
  <2>6. PushesFit'
    BY <1>1, <2>1 DEF PushesFit
  <2> QED BY <2>1, <2>4, <2>5, <2>6 DEF SleepIsSafe
<1> QED BY <1>2, <1>3

-----------------------------------------------------------------------------
\* Every step keeps the invariant.
LEMMA StepKeepsQueue == QueueInv /\ [Next]_vars => QueueInv'
<1> SUFFICES ASSUME QueueInv, [Next]_vars PROVE QueueInv'
  OBVIOUS
<1> USE DEF counters
<1>1. QueueType
  BY DEF QueueInv
<1>2. ASSUME NEW p \in Producers, AddTask(p) \/ EnqueueStep(p) PROVE QueueInv'
  <2>1. CASE Push(p)
    BY <2>1, PushKeeps
  <2>2. CASE AddTask(p)
    BY <1>1, <2>2, WorkersMove DEF AddTask, QueueType, Committing, Waiting, Polling, InState
  <2>3. CASE Run(p) \/ CountSubmitted(p)
    BY <1>1, <2>3, CallerMoves DEF Run, CountSubmitted, QueueType, CallerStates
  <2>4. CASE CheckSize(p)
    <3>1. /\ handed' = [handed EXCEPT ![p] = @ + 1] /\ UNCHANGED <<worker, queue>>
          /\ \/ Len(queue) < MaxTotal /\ caller' = [caller EXCEPT ![p] = "pushing"]
             \/ caller' = [caller EXCEPT ![p] = "checking"]
             \/ caller' = [caller EXCEPT ![p] = "done"]
      BY <1>1, <2>4, BackgroundAssumption DEF CheckSize, NextTask, QueueType, BackgroundAssumption
    <3>2. handed' \in [Producers -> Nat]
      BY <1>1, <3>1 DEF QueueType
    <3> QED BY <3>1, <3>2, CallerMoves DEF CallerStates
  <2>5. CASE CountActive(p)
    BY <1>1, <2>5, CallerMoves DEF CountActive, NextTask, QueueType, CallerStates
  <2> QED BY <1>2, <2>1, <2>2, <2>3, <2>4, <2>5 DEF EnqueueStep
<1>3. ASSUME NEW w \in Workers, WorkStep(w) \/ SpuriousWakeup(w) PROVE QueueInv'
  <2>1. CASE Pop(w) \/ LoadShutdown(w) \/ Wait(w)
    BY <2>1, PollKeeps
  <2>2. CASE CallTask(w) \/ Inspect(w) \/ RunCoroutine(w) \/ Deactivate(w) \/ SpuriousWakeup(w)
    <3>1. /\ UNCHANGED <<caller, handed, queue>>
          /\ worker[w] \notin {"polling", "committing"}
          /\ \E s \in {"returned", "awaiting", "leaving", "polling"} :
                worker' = [worker EXCEPT ![w] = s]
      BY <2>2 DEF CallTask, Inspect, RunCoroutine, Deactivate, SpuriousWakeup, Goto
    <3>2. /\ worker' \in [Workers -> WorkerStates] /\ Committing' \subseteq Committing
          /\ Waiting' \subseteq Waiting /\ Polling \subseteq Polling'
      BY <1>1, <3>1 DEF QueueType, WorkerStates, Committing, Waiting, Polling, InState
    <3> QED BY <3>1, <3>2, WorkersMove
  <2> QED BY <1>3, <2>1, <2>2 DEF WorkStep
<1>4. CASE StoreShutdown \/ ShutdownStep
  <2>1. /\ UNCHANGED <<caller, handed, queue>>
        /\ \/ UNCHANGED worker
           \/ worker' = [w \in Workers |-> IF w \in Waiting THEN "polling" ELSE worker[w]]
    BY <1>4 DEF StoreShutdown, ShutdownStep, NotifyAll, Joined
  <2>2. /\ worker' \in [Workers -> WorkerStates] /\ Committing' \subseteq Committing
        /\ Waiting' \subseteq Waiting /\ Polling \subseteq Polling'
    BY <1>1, <2>1 DEF QueueType, WorkerStates, Committing, Waiting, Polling, InState
  <2> QED BY <2>1, <2>2, WorkersMove
<1>5. CASE UNCHANGED vars
  BY <1>1, <1>5, WorkersMove DEF vars, QueueType, Committing, Waiting, Polling, InState
<1> QED BY <1>2, <1>3, <1>4, <1>5 DEF Next

\* The size check and the push of enqueue are not atomic, and a worker reads
\* the shutdown flag before it sleeps.  Still, however many callers and workers
\* there are, the queue exceeds max_total by less than one task per caller, and
\* while a worker sleeps every queued task has an awake worker of its own.
THEOREM QueueStaysCovered == Spec => [](QueueOvershootBounded /\ WakeupsCoverQueue)
<1>1. Init => QueueInv
  <2> SUFFICES ASSUME Init PROVE QueueInv
    OBVIOUS
  <2>1. Pushing = {} /\ Committing = {} /\ Waiting = {} /\ Len(queue) = 0
    BY DEF Init, Pushing, Committing, Waiting, Calling, InState
  <2>2. QueueType
    BY DEF Init, QueueType, CallerStates, WorkerStates
  <2>3. PushesFit
    BY <2>1, SizesAreNumbers, FS_EmptySet DEF PushesFit
  <2> QED BY <2>1, <2>2, <2>3 DEF QueueInv, SleepIsSafe, WakeupsCoverQueue
<1>2. QueueInv => QueueOvershootBounded /\ WakeupsCoverQueue
  <2> SUFFICES ASSUME QueueInv PROVE QueueOvershootBounded
    BY DEF QueueInv
  <2>1. Len(queue) \in Nat
    BY DEF QueueInv, QueueType
  <2> QED BY <2>1, SizesAreNumbers DEF QueueInv, PushesFit, QueueOvershootBounded
<1> QED BY <1>1, <1>2, StepKeepsQueue, PTL DEF Spec

-----------------------------------------------------------------------------
\* The inductive invariant of the books.
LedgerInv == PlacesInv /\ CountsInv

\* There are no tasks yet.
LEMMA LedgerInit ==
    Init => LedgerInv
<1> SUFFICES ASSUME Init PROVE LedgerInv
  OBVIOUS
<1> USE BackgroundAssumption DEF Init, BackgroundAssumption
<1>1. ThreadsType
  BY DEF ThreadsType, CallerStates, WorkerStates
<1>2. CallerProgress
  BY DEF CallerProgress
<1>3. Busy = {}
  BY DEF Busy, InState
<1>4. HeldOnce
  BY <1>3 DEF HeldOnce
<1>5. /\ Calling({"pushing"}) = {} /\ Calling({"submitting"}) = {} /\ Calling({"submitting", "activating"}) = {}
      /\ InState({"leaving"}) = {}
  BY DEF Calling, InState
<1>6. Taken = {}
  BY DEF Taken, Tasks
<1>7. /\ Cardinality(Pushing) = 0 /\ Cardinality(Submitting) = 0 /\ Cardinality(Uncounted) = 0
      /\ Cardinality(Leaving) = 0 /\ Cardinality(Taken) = 0 /\ Cardinality(ended) = 0 /\ Cardinality(Busy) = 0
  BY <1>3, <1>5, <1>6, FS_EmptySet DEF Pushing, Submitting, Uncounted, Leaving
<1>8. InHand = 0
  BY <1>7 DEF InHand
<1>9. MaxBatch * Cardinality(Producers) >= 0
  BY FS_CardinalityType
<1>10. CountersType
  BY <1>9, FS_CardinalityType DEF CountersType
<1>11. Booked
  BY <1>7, <1>8 DEF Booked
<1>12. Balance = 0 /\ Multiple(0)
  BY <1>7, <1>8 DEF Balance, Multiple
<1>13. TasksAccounted /\ ActiveBalances
  BY <1>11, <1>12 DEF TasksAccounted, ActiveBalances, Booked, Balance, Taken, Pushing, Submitting, Uncounted, Leaving
<1> QED BY <1>1, <1>2, <1>4, <1>10, <1>13 DEF LedgerInv, PlacesInv, CountsInv

\* The callers' steps.
LEMMA CallersKeepLedger ==
    ASSUME LedgerInv, NEW p \in Producers, AddTask(p) \/ EnqueueStep(p)
    PROVE  LedgerInv'
<1> USE DEF LedgerInv
<1>0. gil \in Producers \cup {Nobody, Closer} /\ ThreadsType
  BY DEF PlacesInv, ThreadsType
<1>1. CASE AddTask(p)
  <2>1. /\ caller[p] = "idle" /\ UNCHANGED <<caller, handed, queue, worker, task, counters, shut, gil, ended>>
        /\ pending' = [pending EXCEPT ![p] = @ + 1] /\ pending[p] < MaxBatch
    BY <1>1, <1>0, BackgroundAssumption DEF AddTask, BackgroundAssumption, ThreadsType
  <2>2. handed[p] = 0 /\ pending \in [Producers -> 0..MaxBatch] /\ handed \in [Producers -> 0..MaxBatch]
    BY <2>1, <1>0 DEF PlacesInv, CallerProgress, ThreadsType
  <2>3. pending' \in [Producers -> 0..MaxBatch] /\ \A q \in Producers : pending[q] <= pending'[q]
    BY <2>1, <2>2, BackgroundAssumption DEF BackgroundAssumption
  <2>4. ThreadsType'
    BY <1>0, <2>1, <2>3 DEF ThreadsType
  <2>5. CallerProgress'
    BY <2>1, <2>2, <2>3 DEF PlacesInv, CallerProgress
  <2>6. HeldOnce'
    BY <2>1 DEF PlacesInv, HeldOnce, Busy, InState
  <2>7. Pushing' = Pushing /\ Submitting' = Submitting /\ Uncounted' = Uncounted /\ Busy' = Busy /\ Leaving' = Leaving
    BY <2>1 DEF Pushing, Submitting, Uncounted, Calling, Busy, Leaving, InState
  <2>8. asyncs' \in 0..(Wrap - 1)
    BY <2>1, LedgerSizes DEF Ledger, CountersType, counters
  <2>9. UNCHANGED <<handed, queue, ended, submitted, active, completed, failed, dropped>>
    BY <2>1 DEF counters
  <2>10. CountsInv'
    BY <2>7, <2>8, <2>9, SizesStay
  <2> QED BY <2>4, <2>5, <2>6, <2>10 DEF PlacesInv
<1>2. CASE Run(p)
  <2>1. /\ caller[p] = "idle" /\ caller' = [caller EXCEPT ![p] = "checking"] /\ pending[p] > 0
        /\ UNCHANGED <<pending, handed, queue, worker, task, counters, shut, ended>>
    BY <1>2 DEF Run
  <2>2. gil' \in Producers \cup {Nobody, Closer}
    BY <1>2, <1>0 DEF Run, TakeGil
  <2>3. handed[p] < pending[p]
    BY <2>1 DEF PlacesInv, CallerProgress
  <2>4. PlacesInv'
    BY <2>1, <2>2, <2>3, CallerStaysOut DEF CallerStates
  <2>5. Pushing' = Pushing /\ Submitting' = Submitting /\ Uncounted' = Uncounted
    BY <1>0, <2>1 DEF Pushing, Submitting, Uncounted, Calling, ThreadsType
  <2>6. Busy' = Busy /\ Leaving' = Leaving
    BY <2>1 DEF Busy, Leaving, InState
  <2>7. asyncs' \in 0..(Wrap - 1)
    BY <2>1, LedgerSizes DEF Ledger, CountersType, counters
  <2>8. UNCHANGED <<handed, queue, ended, submitted, active, completed, failed, dropped>>
    BY <2>1 DEF counters
  <2>9. CountsInv'
    BY <2>5, <2>6, <2>7, <2>8, SizesStay
  <2> QED BY <2>4, <2>9
<1>3. CASE CheckSize(p)
  <2>1. /\ caller[p] = "checking" /\ handed' = [handed EXCEPT ![p] = @ + 1]
        /\ UNCHANGED <<pending, queue, worker, task, shut, ended>>
    BY <1>3 DEF CheckSize
  <2>2. handed'[p] = handed[p] + 1
    BY <1>0, <2>1 DEF ThreadsType
  <2>3. PICK s \in {"checking", "done", "pushing"} :
            caller' = [caller EXCEPT ![p] = s] /\ (s = "checking" => handed[p] + 1 < pending[p])
    BY <1>3, <2>2 DEF CheckSize, NextTask
  <2>4. gil' \in Producers \cup {Nobody, Closer}
    BY <1>3, <1>0 DEF CheckSize, NextTask
  <2>5. s \in CallerStates /\ s # "idle"
    BY DEF CallerStates
  <2>6. PlacesInv'
    BY <2>1, <2>3, <2>4, <2>5, CallerStaysOut
  <2> QED BY <1>3, <2>6, CheckSizeCounts
<1>4. CASE Push(p)
  BY <1>4, PushKeepsPlaces, PushCounts
<1>5. CASE CountSubmitted(p)
  <2>1. /\ caller' = [caller EXCEPT ![p] = "activating"]
        /\ UNCHANGED <<pending, handed, queue, worker, task, shut, gil, ended>>
    BY <1>5 DEF CountSubmitted
  <2>2. PlacesInv'
    BY <1>0, <2>1, CallerStaysOut DEF CallerStates
  <2> QED BY <1>5, <2>2, CountSubmittedCounts
<1>6. CASE CountActive(p)
  <2>1. UNCHANGED <<pending, handed, queue, worker, task, shut, ended>>
    BY <1>6 DEF CountActive
  <2>2. PICK s \in {"checking", "done"} :
            caller' = [caller EXCEPT ![p] = s] /\ (s = "checking" => handed[p] < pending[p])
    BY <1>6, <2>1 DEF CountActive, NextTask
  <2>3. gil' \in Producers \cup {Nobody, Closer}
    BY <1>6, <1>0 DEF CountActive, NextTask
  <2>4. s \in CallerStates /\ s # "idle" /\ s # "pushing"
    BY DEF CallerStates
  <2>5. PlacesInv'
    BY <2>1, <2>2, <2>3, <2>4, CallerStaysOut
  <2> QED BY <1>6, <2>5, CountActiveCounts
<1> QED BY <1>1, <1>2, <1>3, <1>4, <1>5, <1>6 DEF EnqueueStep

\* Workers that neither take up nor end a task.
LEMMA IdleKeepsLedger ==
    ASSUME LedgerInv, worker' \in [Workers -> WorkerStates], Busy' = Busy, Leaving' = Leaving,
           shut' \in {"running", "stored", "joining", "returned"}, gil' \in Producers \cup {Nobody, Closer},
           asyncs' \in 0..(Wrap - 1),
           UNCHANGED <<caller, pending, handed, queue, task, ended, submitted, active, completed, failed, dropped>>
    PROVE  LedgerInv'
<1>1. PlacesInv'
  BY WorkersStayOut DEF LedgerInv
<1>2. Pushing' = Pushing /\ Submitting' = Submitting /\ Uncounted' = Uncounted
  BY DEF Pushing, Submitting, Uncounted, Calling
<1>3. CountsInv'
  BY <1>2, SizesStay DEF LedgerInv
<1> QED BY <1>1, <1>3 DEF LedgerInv

\* The workers' steps.
LEMMA WorkersKeepLedger ==
    ASSUME LedgerInv, NEW w \in Workers, WorkStep(w) \/ SpuriousWakeup(w)
    PROVE  LedgerInv'
<1> USE DEF LedgerInv
<1>0. /\ worker \in [Workers -> WorkerStates] /\ gil \in Producers \cup {Nobody, Closer}
      /\ shut \in {"running", "stored", "joining", "returned"} /\ asyncs \in 0..(Wrap - 1) /\ Wrap \in Nat
  BY LedgerSizes DEF PlacesInv, ThreadsType, Ledger, CountersType
<1>1. CASE Pop(w)
  BY <1>1, PopKeepsPlaces, PopCounts
<1>2. CASE LoadShutdown(w) \/ Wait(w) \/ SpuriousWakeup(w)
  <2>1. PICK s \in {"exited", "committing", "waiting", "polling"} : worker' = [worker EXCEPT ![w] = s]
    BY <1>2 DEF LoadShutdown, Wait, SpuriousWakeup, Goto
  <2>2. worker[w] \in {"polling", "committing", "waiting"}
    BY <1>2 DEF LoadShutdown, Wait, SpuriousWakeup
  <2>3. worker' \in [Workers -> WorkerStates] /\ Busy' = Busy /\ Leaving' = Leaving
    BY <1>0, <2>1, <2>2 DEF Busy, Leaving, InState, WorkerStates
  <2>4. UNCHANGED <<caller, pending, handed, queue, task, ended, submitted, active, completed, failed, dropped,
                    asyncs, shut, gil>>
    BY <1>2 DEF LoadShutdown, Wait, SpuriousWakeup, counters
  <2> QED BY <1>0, <2>3, <2>4, IdleKeepsLedger
<1>3. ASSUME NEW s \in {"returned", "awaiting"}, w \in Busy, Goto(w, s), asyncs' \in 0..(Wrap - 1),
             UNCHANGED <<caller, pending, handed, queue, task, ended, submitted, active, completed, failed, dropped,
                         shut, gil>>
      PROVE  LedgerInv'
  <2>1. worker' \in [Workers -> WorkerStates] /\ Busy' = Busy /\ Leaving' = Leaving
    BY <1>0, <1>3 DEF Goto, Busy, Leaving, InState, WorkerStates
  <2> QED BY <1>0, <1>3, <2>1, IdleKeepsLedger
<1>4. ASSUME Ends(w)
      PROVE  LedgerInv'
  <2>1. PlacesInv'
    BY <1>4, EndingKeepsPlaces DEF Ends, Goto
  <2> QED BY <1>4, <2>1, EndingCounts
<1>5. CASE CallTask(w)
  <2>1. w \in Busy
    BY <1>5 DEF CallTask, Busy, InState
  <2>2. CASE Goto(w, "returned") /\ UNCHANGED <<failed, ended>>
    BY <1>0, <1>3, <1>5, <2>1, <2>2 DEF CallTask
  <2>3. CASE Goto(w, "leaving") /\ failed' = (failed + 1) % Wrap /\ ended' = ended \cup {task[w]}
    <3>1. Ends(w)
      BY <1>5, <2>1, <2>3 DEF CallTask, Ends
    <3> QED BY <1>4, <3>1
  <2> QED BY <1>5, <2>2, <2>3 DEF CallTask
<1>6. CASE Inspect(w)
  <2>1. w \in Busy
    BY <1>6 DEF Inspect, Busy, InState
  <2>2. CASE Goto(w, "awaiting") /\ asyncs' = (asyncs + 1) % Wrap /\ UNCHANGED <<completed, ended>>
    <3>1. asyncs' \in 0..(Wrap - 1)
      BY <1>0, <2>2, AnyCountUp
    <3> QED BY <1>3, <1>6, <2>1, <2>2, <3>1 DEF Inspect
  <2>3. CASE /\ Goto(w, "leaving") /\ completed' = (completed + 1) % Wrap
             /\ ended' = ended \cup {task[w]} /\ UNCHANGED asyncs
    <3>1. Ends(w)
      BY <1>6, <2>1, <2>3 DEF Inspect, Ends
    <3> QED BY <1>4, <3>1
  <2> QED BY <1>6, <2>2, <2>3 DEF Inspect
<1>7. CASE RunCoroutine(w)
  <2>1. w \in Busy
    BY <1>7 DEF RunCoroutine, Busy, InState
  <2>2. Ends(w)
    BY <1>7, <2>1 DEF RunCoroutine, Ends
  <2> QED BY <1>4, <2>2
<1>8. CASE Deactivate(w)
  <2>1. /\ worker[w] = "leaving" /\ worker' = [worker EXCEPT ![w] = "polling"]
        /\ UNCHANGED <<caller, pending, handed, queue, task, shut, gil, ended>>
    BY <1>8 DEF Deactivate, Goto
  <2>2. worker' \in [Workers -> WorkerStates] /\ Busy' = Busy
    BY <1>0, <2>1 DEF Busy, InState, WorkerStates
  <2>3. PlacesInv'
    BY <1>0, <2>1, <2>2, WorkersStayOut
  <2> QED BY <1>8, <2>3, DeactivateCounts
<1> QED BY <1>1, <1>2, <1>5, <1>6, <1>7, <1>8 DEF WorkStep

\* The steps of shutdown().
LEMMA ShutdownKeepsLedger ==
    ASSUME LedgerInv, StoreShutdown \/ ShutdownStep
    PROVE  LedgerInv'
<1>0. /\ worker \in [Workers -> WorkerStates] /\ gil \in Producers \cup {Nobody, Closer}
      /\ asyncs \in 0..(Wrap - 1)
  BY LedgerSizes DEF LedgerInv, PlacesInv, ThreadsType, Ledger, CountersType
<1>1. CASE StoreShutdown \/ Joined
  <2>1. /\ UNCHANGED <<caller, pending, handed, queue, worker, task, ended, submitted, active, completed, failed,
                       dropped, asyncs>>
        /\ shut' \in {"running", "stored", "joining", "returned"} /\ gil' \in Producers \cup {Nobody, Closer}
    BY <1>0, <1>1 DEF StoreShutdown, Joined, TakeGil, counters
  <2>2. Busy' = Busy /\ Leaving' = Leaving
    BY <2>1 DEF Busy, Leaving, InState
  <2> QED BY <1>0, <2>1, <2>2, IdleKeepsLedger
<1>2. CASE NotifyAll
  <2>1. /\ UNCHANGED <<caller, pending, handed, queue, task, ended, submitted, active, completed, failed, dropped,
                       asyncs, gil>>
        /\ shut' = "joining"
        /\ worker' = [w \in Workers |-> IF w \in Waiting THEN "polling" ELSE worker[w]]
    BY <1>2 DEF NotifyAll, counters
  <2>2. worker' \in [Workers -> WorkerStates] /\ Busy' = Busy /\ Leaving' = Leaving
    BY <1>0, <2>1 DEF Busy, Leaving, Waiting, InState, WorkerStates
  <2> QED BY <1>0, <2>1, <2>2, IdleKeepsLedger
<1> QED BY <1>1, <1>2 DEF ShutdownStep

\* Every step keeps the ledger.
LEMMA LedgerStep ==
    LedgerInv /\ [Next]_vars => LedgerInv'
<1> SUFFICES ASSUME LedgerInv, [Next]_vars PROVE LedgerInv'
  OBVIOUS
<1>1. CASE \E p \in Producers : AddTask(p) \/ EnqueueStep(p)
  BY <1>1, CallersKeepLedger
<1>2. CASE \E w \in Workers : WorkStep(w) \/ SpuriousWakeup(w)
  BY <1>2, WorkersKeepLedger
<1>3. CASE StoreShutdown \/ ShutdownStep
  BY <1>3, ShutdownKeepsLedger
<1>4. CASE UNCHANGED vars
  BY <1>4 DEF vars, LedgerInv, PlacesInv, ThreadsType, CallerProgress, HeldOnce, Out, Busy, InState, CountsInv,
              CountersType, TasksAccounted, ActiveBalances, InHand, Calling
<1> QED BY <1>1, <1>2, <1>3, <1>4 DEF Next

\* a and b differ by a multiple of n: they leave the same remainder.
LEMMA SameRemainder ==
    ASSUME NEW a \in Int, NEW b \in Int, NEW n \in Nat \ {0}, NEW k \in Int, a - b = k * n
    PROVE  a % n = b % n
<1> DEFINE qa == a \div n
           qb == b \div n
           ra == a % n
           rb == b % n
           d  == qb + k - qa
<1>1. a = n * qa + ra /\ ra \in 0..(n - 1) /\ qa \in Int
  BY SMT
<1>2. b = n * qb + rb /\ rb \in 0..(n - 1) /\ qb \in Int
  BY SMT
<1> HIDE DEF qa, qb, ra, rb
<1>3. d \in Int /\ ra - rb = n * d /\ ra - rb < n /\ rb - ra < n
  BY <1>1, <1>2, SMT
<1> HIDE DEF d
<1>4. d = 0
  <2>1. CASE d >= 1
    <3>1. n * d >= n
      BY <1>3, <2>1, SMT
    <3> QED BY <1>1, <1>2, <1>3, <3>1
  <2>2. CASE d <= -1
    <3>1. n * d <= -n
      BY <1>3, <2>2, SMT
    <3> QED BY <1>1, <1>2, <1>3, <3>1
  <2> QED BY <1>3, <2>1, <2>2
<1>5. ra = rb
  BY <1>1, <1>2, <1>3, <1>4
<1> QED BY <1>5 DEF ra, rb

\* What the ledger shows of the counters.
LEMMA LedgerShows ==
    ASSUME LedgerInv
    PROVE  TypeOK /\ TasksAccounted /\ ActiveReconciles
<1>1. Ledger /\ Multiple(Balance)
  BY LedgerSizes DEF LedgerInv
<1>2. TypeOK /\ TasksAccounted
  BY DEF LedgerInv, PlacesInv, ThreadsType, CountsInv, CountersType, TypeOK
<1>3. PICK k \in Int : Balance = k * Wrap
  BY <1>1 DEF Multiple
<1> DEFINE a == active + Cardinality(Uncounted)
           b == InHand + Cardinality(Leaving)
<1>4. a \in Int /\ b \in Int /\ Wrap \in Nat \ {0} /\ a - b = Balance
  BY <1>1 DEF Ledger, CountersType, Balance
<1>5. a - b = k * Wrap
  BY <1>3, <1>4
<1>6. a % Wrap = b % Wrap
  <2> HIDE DEF a, b
  <2> QED BY <1>4, <1>5, SameRemainder
<1> QED BY <1>2, <1>6 DEF ActiveReconciles, Uncounted, Leaving

\* The queue of background.rs keeps its promises however many callers and
\* workers race for it: it exceeds max_total by less than one task per caller,
\* while a worker sleeps every queued task has an awake worker of its own, every
\* task handed over is dropped, queued, running or ended exactly once and counted
\* as such, and active is right once callers and workers have done their counting.
THEOREM QueueStaysSound == Spec => []QueueIsSound
<1>1. Init => LedgerInv
  BY LedgerInit
<1>2. LedgerInv /\ [Next]_vars => LedgerInv'
  BY LedgerStep
<1>3. LedgerInv => TypeOK /\ TasksAccounted /\ ActiveReconciles
  BY LedgerShows
<1>4. Spec => [](QueueOvershootBounded /\ WakeupsCoverQueue)
  BY QueueStaysCovered
<1>5. TypeOK /\ TasksAccounted /\ ActiveReconciles /\ (QueueOvershootBounded /\ WakeupsCoverQueue) => QueueIsSound
  BY DEF QueueIsSound
<1> QED BY <1>1, <1>2, <1>3, <1>4, <1>5, PTL DEF Spec
=============================================================================
