----------------------- MODULE BackgroundLedgerProofs -----------------------
(***************************************************************************)
(* The ledger of the background queue, for any number of callers, workers  *)
(* and tasks: where every task is, and what the counters say of it.        *)
(*                                                                         *)
(* TasksAccounted and ActiveReconciles are not inductive.  A task that is  *)
(* popped or ends moves between the sets that they count, and the sums     *)
(* stay right only because it is in one place at a time: PlacesInv.  The   *)
(* counter of active tasks wraps below zero when a worker is done before   *)
(* the caller has counted the task; ActiveBalances says that it is off by  *)
(* whole multiples of usize::MAX + 1 and by nothing else.                  *)
(***************************************************************************)
EXTENDS BackgroundTasks, Integers, FiniteSetTheorems, TLAPS

Pushing == Calling({"pushing"})

\* The types of what callers, workers and shutdown() share.
ThreadsType ==
    /\ caller \in [Producers -> CallerStates]
    /\ pending \in [Producers -> 0..MaxBatch]
    /\ handed \in [Producers -> 0..MaxBatch]
    /\ queue \in Seq(Tasks)
    /\ worker \in [Workers -> WorkerStates]
    /\ task \in [Workers -> Tasks \cup {NoTask}]
    /\ shut \in {"running", "stored", "joining", "returned"}
    /\ gil \in Producers \cup {Nobody, Closer}
    /\ ended \subseteq Tasks

\* A caller hands over its batch in order, and one that pushes has a task.
CallerProgress ==
    \A p \in Producers :
        /\ handed[p] <= pending[p]
        /\ caller[p] = "idle" => handed[p] = 0
        /\ caller[p] = "checking" => handed[p] < pending[p]
        /\ caller[p] = "pushing" => handed[p] > 0

\* The task has been pushed, or was dropped.
Out(h, c, t) == t[2] <= h[t[1]] /\ (c[t[1]] = "pushing" => t[2] < h[t[1]])

\* A task that is out is in one place: queued, at a worker, or ended.
HeldOnce ==
    /\ \A i \in 1..Len(queue) : Out(handed, caller, queue[i]) /\ queue[i] \notin ended
    /\ \A i, j \in 1..Len(queue) : queue[i] = queue[j] => i = j
    /\ \A w \in Busy :
          /\ task[w] \in Tasks /\ Out(handed, caller, task[w]) /\ task[w] \notin ended
          /\ \A i \in 1..Len(queue) : queue[i] # task[w]
          /\ \A v \in Busy : task[v] = task[w] => v = w
    /\ \A t \in ended : Out(handed, caller, t)

PlacesInv == ThreadsType /\ CallerProgress /\ HeldOnce

\* A caller moves on without a push: every task stays where it is, and those
\* that were out still are.
LEMMA CallerStaysOut ==
    ASSUME PlacesInv, NEW p \in Producers, NEW s \in CallerStates, NEW g \in Producers \cup {Nobody, Closer},
           caller' = [caller EXCEPT ![p] = s], gil' = g,
           \/ UNCHANGED handed /\ s # "pushing" /\ (s = "checking" => handed[p] < pending[p])
           \/ /\ caller[p] = "checking" /\ handed' = [handed EXCEPT ![p] = @ + 1]
              /\ s = "checking" => handed[p] + 1 < pending[p],
           s # "idle", UNCHANGED <<pending, queue, worker, task, shut, ended>>
    PROVE  PlacesInv'
<1> USE BackgroundAssumption DEF PlacesInv, BackgroundAssumption
<1>1. /\ handed \in [Producers -> 0..MaxBatch] /\ pending \in [Producers -> 0..MaxBatch]
      /\ caller \in [Producers -> CallerStates] /\ caller' \in [Producers -> CallerStates]
  BY DEF ThreadsType
<1>2. /\ handed' \in [Producers -> 0..MaxBatch] /\ handed[p] <= handed'[p]
      /\ caller'[p] = s /\ (s = "pushing" => handed[p] < handed'[p])
      /\ handed'[p] <= pending[p] /\ (s = "checking" => handed'[p] < pending[p])
  BY <1>1 DEF CallerProgress
<1>3. \A q \in Producers \ {p} : handed'[q] = handed[q] /\ caller'[q] = caller[q]
  BY <1>1
<1>4. ThreadsType' /\ CallerProgress'
  <2>1. ThreadsType'
    BY <1>1, <1>2 DEF ThreadsType
  <2>2. ASSUME NEW q \in Producers
        PROVE  /\ handed'[q] <= pending[q]
               /\ caller'[q] = "idle" => handed'[q] = 0
               /\ caller'[q] = "checking" => handed'[q] < pending[q]
               /\ caller'[q] = "pushing" => handed'[q] > 0
    <3>1. CASE q = p
      BY <1>1, <1>2, <3>1
    <3>2. CASE q # p
      BY <1>3, <3>2 DEF CallerProgress
    <3> QED BY <3>1, <3>2
  <2> QED BY <2>1, <2>2 DEF CallerProgress
<1>5. ASSUME NEW t \in Tasks, Out(handed, caller, t)
      PROVE  Out(handed', caller', t)
  <2>1. t[1] \in Producers /\ t[2] \in Nat
    BY DEF Tasks
  <2>2. CASE t[1] = p
    BY <1>1, <1>2, <1>5, <2>1, <2>2 DEF Out
  <2>3. CASE t[1] # p
    BY <1>3, <1>5, <2>1, <2>3 DEF Out
  <2> QED BY <2>2, <2>3
<1>6. HeldOnce'
  <2>1. \A i \in 1..Len(queue) : queue[i] \in Tasks
    BY DEF ThreadsType
  <2> QED BY <1>5, <2>1 DEF HeldOnce, Busy, InState, ThreadsType
<1> QED BY <1>4, <1>6

\* Workers move, and none takes up or ends a task.
LEMMA WorkersStayOut ==
    ASSUME PlacesInv, worker' \in [Workers -> WorkerStates], Busy' = Busy,
           shut' \in {"running", "stored", "joining", "returned"}, gil' \in Producers \cup {Nobody, Closer},
           UNCHANGED <<caller, pending, handed, queue, task, ended>>
    PROVE  PlacesInv'
<1>1. ThreadsType' /\ CallerProgress'
  BY DEF PlacesInv, ThreadsType, CallerProgress
<1>2. \A t : Out(handed', caller', t) <=> Out(handed, caller, t)
  BY DEF Out
<1> QED BY <1>1, <1>2 DEF PlacesInv, HeldOnce

\* The callable of a task ends.
LEMMA EndingKeepsPlaces ==
    ASSUME PlacesInv, NEW w \in Busy, worker' = [worker EXCEPT ![w] = "leaving"], ended' = ended \cup {task[w]},
           UNCHANGED <<caller, pending, handed, queue, task, shut, gil>>
    PROVE  PlacesInv' /\ Busy' = Busy \ {w} /\ task[w] \notin ended
<1> USE DEF PlacesInv
<1>1. w \in Workers /\ task[w] \in Tasks /\ Out(handed, caller, task[w]) /\ task[w] \notin ended
  BY DEF Busy, InState, HeldOnce
<1>2. ThreadsType' /\ CallerProgress'
  BY <1>1 DEF ThreadsType, CallerProgress, WorkerStates
<1>3. Busy' = Busy \ {w}
  BY <1>1 DEF Busy, InState, ThreadsType
<1>4. \A t : Out(handed', caller', t) <=> Out(handed, caller, t)
  BY DEF Out
<1>5. HeldOnce'
  BY <1>1, <1>3, <1>4 DEF HeldOnce
<1> QED BY <1>1, <1>2, <1>3, <1>5

\* push: the task was nowhere before.
LEMMA PushKeepsPlaces ==
    ASSUME PlacesInv, NEW p \in Producers, Push(p)
    PROVE  PlacesInv' /\ Busy' = Busy
<1> USE DEF PlacesInv
<1> DEFINE t == <<p, handed[p]>>
<1>1. /\ caller[p] = "pushing" /\ caller' = [caller EXCEPT ![p] = "submitting"]
      /\ queue' = Append(queue, t) /\ UNCHANGED <<pending, handed, task, shut, gil, ended>>
  BY DEF Push
<1>2. worker' \in [Workers -> WorkerStates] /\ Busy' = Busy
  BY DEF Push, Waiting, Busy, InState, ThreadsType, WorkerStates
<1>3. t \in Tasks /\ ~Out(handed, caller, t) /\ Out(handed', caller', t)
  BY <1>1 DEF Tasks, Out, CallerProgress, ThreadsType
<1>4. \A x \in Tasks : Out(handed, caller, x) => Out(handed', caller', x)
  BY <1>1 DEF Out, Tasks, ThreadsType
<1>5. /\ queue \in Seq(Tasks) /\ queue' \in Seq(Tasks) /\ Len(queue) \in Nat /\ Len(queue') = Len(queue) + 1
      /\ \A i \in 1..Len(queue) : queue'[i] = queue[i] /\ queue[i] \in Tasks
      /\ queue'[Len(queue) + 1] = t
  BY <1>1, <1>3 DEF ThreadsType
<1>6. \A i \in 1..Len(queue') : i \in 1..Len(queue) \/ i = Len(queue) + 1
  BY <1>5
<1>7. ThreadsType' /\ CallerProgress'
  BY <1>1, <1>2, <1>5 DEF ThreadsType, CallerProgress, CallerStates
<1>8. t \notin ended /\ (\A i \in 1..Len(queue) : queue[i] # t) /\ (\A w \in Busy : task[w] # t)
  BY <1>3 DEF HeldOnce
<1>9. HeldOnce'
  <2>1. \A i \in 1..Len(queue') : Out(handed', caller', queue'[i]) /\ queue'[i] \notin ended'
    BY <1>1, <1>3, <1>4, <1>5, <1>6, <1>8 DEF HeldOnce
  <2>2. \A i, j \in 1..Len(queue') : queue'[i] = queue'[j] => i = j
    BY <1>5, <1>6, <1>8 DEF HeldOnce
  <2>3. \A w \in Busy : /\ Out(handed', caller', task[w]) /\ \A i \in 1..Len(queue') : queue'[i] # task[w]
    BY <1>1, <1>4, <1>5, <1>6, <1>8 DEF HeldOnce
  <2>4. \A x \in ended : Out(handed', caller', x)
    BY <1>4 DEF HeldOnce, ThreadsType
  <2> QED BY <1>1, <1>2, <2>1, <2>2, <2>3, <2>4 DEF HeldOnce
<1> QED BY <1>2, <1>7, <1>9

\* pop: the first task changes hands.
LEMMA PopKeepsPlaces ==
    ASSUME PlacesInv, NEW w \in Workers, Pop(w)
    PROVE  PlacesInv' /\ Busy' = Busy \cup {w} /\ w \notin Busy /\ Len(queue') = Len(queue) - 1
<1> USE DEF PlacesInv
<1>1. /\ worker[w] = "polling" /\ worker' = [worker EXCEPT ![w] = "running"]
      /\ queue # <<>> /\ queue' = Tail(queue) /\ task' = [task EXCEPT ![w] = Head(queue)]
      /\ UNCHANGED <<caller, pending, handed, shut, gil, ended>>
  BY DEF Pop, Goto
<1>2. /\ queue \in Seq(Tasks) /\ queue' \in Seq(Tasks) /\ Len(queue) \in Nat \ {0}
      /\ Len(queue') = Len(queue) - 1 /\ Head(queue) = queue[1] /\ queue[1] \in Tasks
      /\ \A i \in 1..Len(queue') : i + 1 \in 1..Len(queue) /\ queue'[i] = queue[i + 1]
  BY <1>1 DEF ThreadsType
<1>3. Busy' = Busy \cup {w} /\ w \notin Busy
  BY <1>1 DEF Busy, InState, ThreadsType
<1>4. ThreadsType' /\ CallerProgress'
  BY <1>1, <1>2 DEF ThreadsType, CallerProgress, WorkerStates
<1>5. \A t : Out(handed', caller', t) <=> Out(handed, caller, t)
  BY <1>1 DEF Out
<1>6. task'[w] = queue[1] /\ \A v \in Busy : task'[v] = task[v]
  BY <1>1, <1>2, <1>3 DEF ThreadsType, Busy, InState
<1>7. HeldOnce'
  <2>1. \A i \in 1..Len(queue') : Out(handed', caller', queue'[i]) /\ queue'[i] \notin ended'
    BY <1>1, <1>2, <1>5 DEF HeldOnce
  <2>2. \A i, j \in 1..Len(queue') : queue'[i] = queue'[j] => i = j
    BY <1>2 DEF HeldOnce
  <2>3. /\ task'[w] \in Tasks /\ Out(handed', caller', task'[w]) /\ task'[w] \notin ended
        /\ \A i \in 1..Len(queue') : queue'[i] # task'[w]
        /\ \A v \in Busy : task'[v] # task'[w]
    BY <1>2, <1>5, <1>6 DEF HeldOnce
  <2>4. \A v \in Busy : /\ task'[v] \in Tasks /\ Out(handed', caller', task'[v]) /\ task'[v] \notin ended
                        /\ \A i \in 1..Len(queue') : queue'[i] # task'[v]
                        /\ \A u \in Busy : task'[u] = task'[v] => u = v
    BY <1>2, <1>5, <1>6 DEF HeldOnce
  <2>5. \A t \in ended : Out(handed', caller', t)
    BY <1>5 DEF HeldOnce
  <2> QED BY <1>1, <1>3, <2>1, <2>2, <2>3, <2>4, <2>5 DEF HeldOnce
<1> QED BY <1>2, <1>3, <1>4, <1>7


\* Tasks enqueue has taken up.
Taken == {t \in Tasks : t[2] <= handed[t[1]]}

\* Multiples of usize::MAX + 1.
Multiple(m) == m \in Int /\ \E k \in Int : m = k * Wrap

\* active, with the tasks not counted yet, is those in hand and those whose
\* worker has yet to lower it.
ActiveBalances ==
    Multiple(active + Cardinality(Calling({"submitting", "activating"})) - InHand - Cardinality(InState({"leaving"})))

CountersType ==
    /\ submitted \in 0..(Wrap - 1) /\ active \in 0..(Wrap - 1) /\ completed \in 0..(Wrap - 1)
    /\ failed \in 0..(Wrap - 1) /\ dropped \in 0..(Wrap - 1) /\ asyncs \in 0..(Wrap - 1)

CountsInv == CountersType /\ TasksAccounted /\ ActiveBalances

\* There are fewer tasks than a counter has values.
LEMMA FewTasks ==
    /\ IsFiniteSet(Tasks) /\ Cardinality(Tasks) \in Nat /\ Cardinality(Tasks) < Wrap
    /\ \A S \in SUBSET Tasks : IsFiniteSet(S) /\ Cardinality(S) \in Nat /\ Cardinality(S) <= Cardinality(Tasks)
<1> USE BackgroundAssumption DEF BackgroundAssumption
<1>1. IsFiniteSet(1..MaxBatch) /\ Cardinality(1..MaxBatch) = MaxBatch
  BY FS_Interval
<1>2. Cardinality(Producers) \in Nat
  BY FS_CardinalityType
<1>3. IsFiniteSet(Tasks) /\ Cardinality(Tasks) = Cardinality(Producers) * MaxBatch
  BY <1>1, FS_Product DEF Tasks
<1>4. Cardinality(Producers) * MaxBatch = MaxBatch * Cardinality(Producers)
  BY <1>2
<1>5. Cardinality(Tasks) \in Nat /\ Cardinality(Tasks) < Wrap
  BY <1>3, <1>4, FS_CardinalityType
<1> QED BY <1>3, <1>5, FS_Subset, FS_CardinalityType

\* Once around, in either direction.
LEMMA Multiples ==
    ASSUME NEW m, Multiple(m)
    PROVE  Multiple(m + Wrap) /\ Multiple(m - Wrap)
<1>1. Wrap \in Int
  BY BackgroundAssumption DEF BackgroundAssumption
<1>2. PICK k \in Int : m = k * Wrap
  BY DEF Multiple
<1>3. (k + 1) * Wrap = k * Wrap + Wrap /\ (k - 1) * Wrap = k * Wrap - Wrap
  BY <1>1, SMT
<1>4. m + Wrap = (k + 1) * Wrap /\ m - Wrap = (k - 1) * Wrap
  BY <1>2, <1>3
<1>5. m \in Int /\ m + Wrap \in Int /\ m - Wrap \in Int /\ k + 1 \in Int /\ k - 1 \in Int
  BY <1>1 DEF Multiple
<1> QED BY <1>4, <1>5 DEF Multiple

\* Callers and workers in some states can be counted.
LEMMA ThreadCounts ==
    ASSUME NEW S
    PROVE  /\ IsFiniteSet(Calling(S)) /\ Cardinality(Calling(S)) \in Nat
           /\ IsFiniteSet(InState(S)) /\ Cardinality(InState(S)) \in Nat
<1>1. Calling(S) \in SUBSET Producers /\ InState(S) \in SUBSET Workers
  BY DEF Calling, InState
<1> QED BY <1>1, BackgroundAssumption, FS_Subset, FS_CardinalityType DEF BackgroundAssumption

One(x, S) == IF x \in S THEN 1 ELSE 0

Those(D, f, S) == {y \in D : f[y] \in S}

\* f and g differ at x only; the elements they map into S are counted.
SameBut(D, f, g, x)    == \A y \in D \ {x} : g[y] = f[y]
Counted(D, f, g, x, S) ==
    Cardinality(Those(D, g, S)) = Cardinality(Those(D, f, S)) + One(g[x], S) - One(f[x], S)

\* One thread moves from state f[x] to g[x].
LEMMA OneMoves ==
    ASSUME NEW D, IsFiniteSet(D), NEW f, NEW g, NEW x \in D, NEW S, SameBut(D, f, g, x)
    PROVE  Counted(D, f, g, x, S)
<1> DEFINE F == Those(D, f, S)
           G == Those(D, g, S)
<1>1. IsFiniteSet(F) /\ IsFiniteSet(G) /\ Cardinality(F) \in Nat /\ Cardinality(G) \in Nat
  BY FS_Subset, FS_CardinalityType DEF Those
<1>2. CASE (f[x] \in S) <=> (g[x] \in S)
  <2>1. F = G
    BY <1>2 DEF Those, SameBut
  <2>2. One(f[x], S) = One(g[x], S) /\ One(f[x], S) \in Int
    BY <1>2 DEF One
  <2> QED BY <1>1, <2>1, <2>2 DEF Counted
<1>3. CASE f[x] \in S /\ g[x] \notin S
  <2>1. G = F \ {x} /\ x \in F
    BY <1>3 DEF Those, SameBut
  <2>2. Cardinality(G) = Cardinality(F) - 1
    BY <1>1, <2>1, FS_RemoveElement
  <2> QED BY <1>1, <1>3, <2>2 DEF One, Counted
<1>4. CASE f[x] \notin S /\ g[x] \in S
  <2>1. G = F \cup {x} /\ x \notin F
    BY <1>4 DEF Those, SameBut
  <2>2. Cardinality(G) = Cardinality(F) + 1
    BY <1>1, <2>1, FS_AddElement
  <2> QED BY <1>1, <1>4, <2>2 DEF One, Counted
<1> QED BY <1>2, <1>3, <1>4

\* The callers in states S, when one moves to s.
LEMMA CallerCounted ==
    ASSUME ThreadsType, NEW p \in Producers, NEW s, caller' = [caller EXCEPT ![p] = s], NEW S
    PROVE  Cardinality(Calling(S))' = Cardinality(Calling(S)) + One(s, S) - One(caller[p], S)
<1>1. IsFiniteSet(Producers)
  BY BackgroundAssumption DEF BackgroundAssumption
<1>2. caller'[p] = s /\ SameBut(Producers, caller, caller', p)
  BY DEF ThreadsType, SameBut
<1>3. Counted(Producers, caller, caller', p, S)
  BY <1>1, <1>2, OneMoves
<1> QED BY <1>2, <1>3 DEF Calling, Those, Counted

\* The workers in states S, when one moves to s.
LEMMA WorkerCounted ==
    ASSUME ThreadsType, NEW w \in Workers, NEW s, worker' = [worker EXCEPT ![w] = s], NEW S
    PROVE  Cardinality(InState(S))' = Cardinality(InState(S)) + One(s, S) - One(worker[w], S)
<1>1. IsFiniteSet(Workers)
  BY BackgroundAssumption DEF BackgroundAssumption
<1>2. worker'[w] = s /\ SameBut(Workers, worker, worker', w)
  BY DEF ThreadsType, SameBut
<1>3. Counted(Workers, worker, worker', w, S)
  BY <1>1, <1>2, OneMoves
<1> QED BY <1>2, <1>3 DEF InState, Those, Counted

\* fetch_add of a counter that is not at its limit.
LEMMA CountUp ==
    ASSUME NEW c \in 0..(Wrap - 1), c + 1 < Wrap
    PROVE  (c + 1) % Wrap = c + 1
BY BackgroundAssumption, SMT DEF BackgroundAssumption

\* fetch_add of one that may be.
LEMMA AnyCountUp ==
    ASSUME NEW c \in 0..(Wrap - 1)
    PROVE  /\ (c + 1) % Wrap \in 0..(Wrap - 1)
           /\ (c + 1) % Wrap = c + 1 \/ (c + 1) % Wrap = c + 1 - Wrap
<1>1. CASE c + 1 < Wrap
  BY <1>1, CountUp, BackgroundAssumption DEF BackgroundAssumption
<1>2. CASE c + 1 = Wrap
  <2>1. (c + 1) % Wrap = 0
    BY <1>2, BackgroundAssumption, SMT DEF BackgroundAssumption
  <2> QED BY <1>2, <2>1, BackgroundAssumption DEF BackgroundAssumption
<1> QED BY <1>1, <1>2, BackgroundAssumption DEF BackgroundAssumption

\* fetch_sub of one that may be zero.
LEMMA AnyCountDown ==
    ASSUME NEW c \in 0..(Wrap - 1)
    PROVE  /\ (c + Wrap - 1) % Wrap \in 0..(Wrap - 1)
           /\ (c + Wrap - 1) % Wrap = c - 1 \/ (c + Wrap - 1) % Wrap = c - 1 + Wrap
<1> USE BackgroundAssumption DEF BackgroundAssumption
<1>1. CASE c = 0
  BY <1>1, SMT
<1>2. CASE c > 0
  <2>1. (c + Wrap - 1) % Wrap = c - 1
    BY <1>2, SMT
  <2> QED BY <1>2, <2>1
<1> QED BY <1>1, <1>2


Submitting == Calling({"submitting"})
Uncounted  == Calling({"submitting", "activating"})
Leaving    == InState({"leaving"})

CallerGoes(p, s) == caller' = [caller EXCEPT ![p] = s]

Booked ==
    /\ Cardinality(Taken) = dropped + Cardinality(Pushing) + InHand + Cardinality(ended)
    /\ submitted + Cardinality(Submitting) = InHand + Cardinality(ended)
    /\ completed + failed = Cardinality(ended)

\* The ledger in numbers.
Ledger ==
    /\ Cardinality(ended) \in Nat
    /\ Cardinality(Taken) \in Nat /\ Cardinality(Taken) < Wrap /\ Wrap \in Nat
    /\ Cardinality(Pushing) \in Nat /\ Cardinality(Submitting) \in Nat
    /\ Cardinality(Uncounted) \in Nat /\ Cardinality(Leaving) \in Nat
    /\ InHand \in Nat
    /\ CountersType
    /\ Booked

Balance == active + Cardinality(Uncounted) - InHand - Cardinality(Leaving)

\* The invariant in terms of these numbers.
LEMMA LedgerSizes ==
    ASSUME PlacesInv, CountsInv
    PROVE  Ledger /\ Multiple(Balance)
<1>1. Len(queue) \in Nat /\ ended \in SUBSET Tasks /\ Taken \in SUBSET Tasks
  BY DEF PlacesInv, ThreadsType, Taken
<1>2. /\ Cardinality(ended) \in Nat /\ Cardinality(Taken) \in Nat /\ Cardinality(Taken) < Wrap /\ Wrap \in Nat
  BY <1>1, FewTasks, BackgroundAssumption DEF BackgroundAssumption
<1>3. /\ Cardinality(Pushing) \in Nat /\ Cardinality(Submitting) \in Nat
      /\ Cardinality(Uncounted) \in Nat /\ Cardinality(Leaving) \in Nat /\ Cardinality(Busy) \in Nat
  BY ThreadCounts DEF Pushing, Submitting, Uncounted, Leaving, Busy
<1>4. /\ submitted \in 0..(Wrap - 1) /\ active \in 0..(Wrap - 1) /\ completed \in 0..(Wrap - 1)
      /\ failed \in 0..(Wrap - 1) /\ dropped \in 0..(Wrap - 1) /\ asyncs \in 0..(Wrap - 1)
  BY DEF CountsInv, CountersType
<1>5. /\ Cardinality(Taken) = dropped + Cardinality(Pushing) + InHand + Cardinality(ended)
      /\ submitted + Cardinality(Submitting) = InHand + Cardinality(ended)
      /\ completed + failed = Cardinality(ended)
  BY DEF CountsInv, TasksAccounted, Taken, Pushing, Submitting
<1>6. InHand \in Nat
  BY <1>1, <1>3 DEF InHand
<1>7. Multiple(Balance)
  BY DEF CountsInv, ActiveBalances, Balance, Uncounted, Leaving
<1> QED BY <1>2, <1>3, <1>4, <1>5, <1>6, <1>7 DEF Ledger, CountersType, Booked

\* What a thread's move from a state to another changes in the ledger.
LEMMA CallerSizes ==
    ASSUME PlacesInv, NEW p \in Producers, NEW s, CallerGoes(p, s)
    PROVE  /\ Cardinality(Pushing)' = Cardinality(Pushing)
                + (IF s = "pushing" THEN 1 ELSE 0) - (IF caller[p] = "pushing" THEN 1 ELSE 0)
           /\ Cardinality(Submitting)' = Cardinality(Submitting)
                + (IF s = "submitting" THEN 1 ELSE 0) - (IF caller[p] = "submitting" THEN 1 ELSE 0)
           /\ Cardinality(Uncounted)' = Cardinality(Uncounted)
                + (IF s \in {"submitting", "activating"} THEN 1 ELSE 0)
                - (IF caller[p] \in {"submitting", "activating"} THEN 1 ELSE 0)
<1>1. ThreadsType
  BY DEF PlacesInv
<1>2. \A S : Cardinality(Calling(S))' = Cardinality(Calling(S)) + One(s, S) - One(caller[p], S)
  BY <1>1, CallerCounted DEF CallerGoes
<1>3. Cardinality(Calling({"pushing"}))'
        = Cardinality(Calling({"pushing"})) + One(s, {"pushing"}) - One(caller[p], {"pushing"})
  BY <1>2
<1>4. Cardinality(Calling({"submitting"}))'
        = Cardinality(Calling({"submitting"})) + One(s, {"submitting"}) - One(caller[p], {"submitting"})
  BY <1>2
<1>5. Cardinality(Calling({"submitting", "activating"}))'
        = Cardinality(Calling({"submitting", "activating"})) + One(s, {"submitting", "activating"})
            - One(caller[p], {"submitting", "activating"})
  BY <1>2
<1> QED BY <1>3, <1>4, <1>5 DEF One, Pushing, Submitting, Uncounted

\* The same for a worker.
LEMMA WorkerSizes ==
    ASSUME PlacesInv, NEW w \in Workers, NEW s, Goto(w, s)
    PROVE  /\ Cardinality(Busy)' = Cardinality(Busy)
                + (IF s \in {"running", "returned", "awaiting"} THEN 1 ELSE 0)
                - (IF worker[w] \in {"running", "returned", "awaiting"} THEN 1 ELSE 0)
           /\ Cardinality(Leaving)' = Cardinality(Leaving)
                + (IF s = "leaving" THEN 1 ELSE 0) - (IF worker[w] = "leaving" THEN 1 ELSE 0)
<1>1. ThreadsType
  BY DEF PlacesInv
<1>2. \A S : Cardinality(InState(S))' = Cardinality(InState(S)) + One(s, S) - One(worker[w], S)
  BY <1>1, WorkerCounted DEF Goto
<1>3. Cardinality(InState({"running", "returned", "awaiting"}))'
        = Cardinality(InState({"running", "returned", "awaiting"})) + One(s, {"running", "returned", "awaiting"})
            - One(worker[w], {"running", "returned", "awaiting"})
  BY <1>2
<1>4. Cardinality(InState({"leaving"}))'
        = Cardinality(InState({"leaving"})) + One(s, {"leaving"}) - One(worker[w], {"leaving"})
  BY <1>2
<1> QED BY <1>3, <1>4 DEF One, Busy, Leaving

\* How the sizes settle the next state of the ledger.
LEMMA LedgerFollows ==
    ASSUME CountersType', Booked', Multiple(Balance')
    PROVE  CountsInv'
BY DEF CountsInv, CountersType, TasksAccounted, ActiveBalances, Taken, Pushing, Submitting, Uncounted,
       Leaving, Booked, Balance

\* Run and the steps of workers and shutdown that count nothing.
LEMMA SizesStay ==
    ASSUME PlacesInv, CountsInv, asyncs' \in 0..(Wrap - 1),
           Cardinality(Pushing)' = Cardinality(Pushing), Cardinality(Submitting)' = Cardinality(Submitting),
           Cardinality(Uncounted)' = Cardinality(Uncounted), Cardinality(Busy)' = Cardinality(Busy),
           Cardinality(Leaving)' = Cardinality(Leaving),
           UNCHANGED <<handed, queue, ended, submitted, active, completed, failed, dropped>>
    PROVE  CountsInv'
<1>0. Ledger /\ Multiple(Balance)
  BY LedgerSizes
<1>1. InHand' = InHand /\ Taken' = Taken
  BY DEF InHand, Taken
<1>2. CountersType' /\ Booked'
  BY <1>0, <1>1 DEF Ledger, CountersType, Booked
<1>3. Balance' = Balance
  BY <1>1 DEF Balance
<1> QED BY <1>0, <1>2, <1>3, LedgerFollows

\* enqueue takes a task up, and drops it or goes on to push it.
LEMMA CheckSizeCounts ==
    ASSUME PlacesInv, CountsInv, NEW p \in Producers, CheckSize(p)
    PROVE  CountsInv'
<1>0. Ledger /\ Multiple(Balance)
  BY LedgerSizes
<1> DEFINE t == <<p, handed[p] + 1>>
<1>1. /\ caller[p] = "checking" /\ handed' = [handed EXCEPT ![p] = @ + 1]
      /\ UNCHANGED <<queue, worker, submitted, active, completed, failed, asyncs, ended>>
  BY DEF CheckSize
<1>2. /\ handed[p] \in 0..MaxBatch /\ pending[p] \in 0..MaxBatch /\ handed[p] < pending[p]
      /\ handed \in [Producers -> 0..MaxBatch] /\ MaxBatch \in Nat
  BY <1>1, BackgroundAssumption DEF PlacesInv, ThreadsType, CallerProgress, BackgroundAssumption
<1>3. t \in Tasks /\ t \notin Taken
  BY <1>2 DEF Tasks, Taken
<1>4. Taken' = Taken \cup {t}
  <2>1. ASSUME NEW x \in Tasks
        PROVE  x \in Taken' <=> x \in Taken \/ x = t
    <3>1. PICK q \in Producers, n \in 1..MaxBatch : x = <<q, n>>
      BY DEF Tasks
    <3>2. CASE q = p
      BY <1>1, <1>2, <3>1, <3>2 DEF Taken
    <3>3. CASE q # p
      BY <1>1, <1>2, <3>1, <3>3 DEF Taken
    <3> QED BY <3>2, <3>3
  <2> QED BY <1>3, <2>1 DEF Taken
<1>5. Taken \in SUBSET Tasks /\ Taken' \in SUBSET Tasks
  BY DEF Taken
<1>6. Cardinality(Taken)' = Cardinality(Taken) + 1 /\ Cardinality(Taken)' < Wrap
  BY <1>3, <1>4, <1>5, FewTasks, FS_AddElement, BackgroundAssumption DEF BackgroundAssumption
<1>7. /\ InHand' = InHand /\ Cardinality(Leaving)' = Cardinality(Leaving)
  BY <1>1 DEF InHand, Busy, Leaving, InState
<1>9. CASE Len(queue) >= MaxTotal
  <2>1. PICK s \in {"checking", "done"} : CallerGoes(p, s)
    BY <1>9 DEF CheckSize, NextTask, CallerGoes
  <2>2. /\ Cardinality(Pushing)' = Cardinality(Pushing) /\ Cardinality(Uncounted)' = Cardinality(Uncounted)
        /\ Cardinality(Submitting)' = Cardinality(Submitting)
    BY <1>0, <1>1, <2>1, CallerSizes DEF Ledger, CountersType, Booked
  <2>3. dropped' = (dropped + 1) % Wrap
    BY <1>9 DEF CheckSize
  <2>4. dropped' = dropped + 1 /\ dropped' < Wrap
    BY <1>0, <1>6, <2>3, CountUp DEF Ledger, CountersType, Booked
  <2>5. CountersType' /\ Booked'
    BY <1>0, <1>1, <1>6, <1>7, <2>2, <2>4 DEF Ledger, CountersType, Booked
  <2>6. Balance' = Balance
    BY <1>1, <1>7, <2>2 DEF Balance
  <2> QED BY <1>0, <2>5, <2>6, LedgerFollows
<1>10. CASE Len(queue) < MaxTotal
  <2>1. CallerGoes(p, "pushing") /\ dropped' = dropped
    BY <1>2, <1>10, BackgroundAssumption DEF CheckSize, CallerGoes, BackgroundAssumption, PlacesInv, ThreadsType
  <2>2. /\ Cardinality(Pushing)' = Cardinality(Pushing) + 1 /\ Cardinality(Uncounted)' = Cardinality(Uncounted)
        /\ Cardinality(Submitting)' = Cardinality(Submitting)
    BY <1>0, <1>1, <2>1, CallerSizes DEF Ledger, CountersType, Booked
  <2>3. CountersType' /\ Booked'
    BY <1>0, <1>1, <1>6, <1>7, <2>1, <2>2 DEF Ledger, CountersType, Booked
  <2>4. Balance' = Balance
    BY <1>1, <1>7, <2>2 DEF Balance
  <2> QED BY <1>0, <2>3, <2>4, LedgerFollows
<1>11. Len(queue) \in Nat /\ MaxTotal \in Nat
  BY BackgroundAssumption DEF BackgroundAssumption, PlacesInv, ThreadsType
<1> QED BY <1>9, <1>10, <1>11

\* push: the caller's task is one of those in hand.
LEMMA PushCounts ==
    ASSUME PlacesInv, CountsInv, NEW p \in Producers, Push(p)
    PROVE  CountsInv'
<1>0. Ledger /\ Multiple(Balance)
  BY LedgerSizes
<1>1. /\ caller[p] = "pushing" /\ CallerGoes(p, "submitting")
      /\ UNCHANGED <<handed, submitted, active, completed, failed, dropped, asyncs, ended>>
  BY DEF Push, counters, CallerGoes
<1>2. /\ Cardinality(Pushing)' = Cardinality(Pushing) - 1 /\ Cardinality(Uncounted)' = Cardinality(Uncounted) + 1
      /\ Cardinality(Submitting)' = Cardinality(Submitting) + 1
  BY <1>0, <1>1, CallerSizes DEF Ledger, CountersType, Booked
<1>3. Len(queue) \in Nat /\ Len(queue') = Len(queue) + 1 /\ Cardinality(Busy) \in Nat
  BY ThreadCounts DEF Push, PlacesInv, ThreadsType, Busy
<1>4. Busy' = Busy /\ Leaving' = Leaving
  BY DEF Push, Waiting, Busy, Leaving, InState, PlacesInv, ThreadsType
<1>5. InHand' = InHand + 1 /\ Taken' = Taken
  BY <1>1, <1>3, <1>4 DEF InHand, Taken
<1>6. CountersType' /\ Booked'
  BY <1>0, <1>1, <1>2, <1>5 DEF Ledger, CountersType, Booked
<1>7. Balance' = Balance
  BY <1>0, <1>1, <1>2, <1>4, <1>5 DEF Ledger, CountersType, Balance
<1> QED BY <1>0, <1>6, <1>7, LedgerFollows

\* submitted goes up after the push.
LEMMA CountSubmittedCounts ==
    ASSUME PlacesInv, CountsInv, NEW p \in Producers, CountSubmitted(p)
    PROVE  CountsInv'
<1>0. Ledger /\ Multiple(Balance)
  BY LedgerSizes
<1>1. /\ caller[p] = "submitting" /\ CallerGoes(p, "activating")
      /\ UNCHANGED <<handed, queue, worker, active, completed, failed, dropped, asyncs, ended>>
  BY DEF CountSubmitted, CallerGoes
<1>2. /\ Cardinality(Pushing)' = Cardinality(Pushing) /\ Cardinality(Uncounted)' = Cardinality(Uncounted)
      /\ Cardinality(Submitting)' = Cardinality(Submitting) - 1
  BY <1>0, <1>1, CallerSizes DEF Ledger, CountersType, Booked
<1>3. p \in Submitting
  BY <1>1 DEF Submitting, Calling
<1>4. Cardinality(Submitting) >= 1
  BY <1>3, ThreadCounts, FS_EmptySet DEF Submitting
<1>5. submitted' = submitted + 1 /\ submitted' < Wrap
  BY <1>0, <1>4, CountUp DEF Ledger, CountersType, Booked, CountSubmitted
<1>6. /\ InHand' = InHand /\ Taken' = Taken
      /\ Leaving' = Leaving
  BY <1>1 DEF InHand, Taken, Busy, Leaving, InState
<1>7. CountersType' /\ Booked'
  BY <1>0, <1>1, <1>2, <1>5, <1>6 DEF Ledger, CountersType, Booked
<1>8. Balance' = Balance
  BY <1>1, <1>2, <1>6 DEF Balance
<1> QED BY <1>0, <1>7, <1>8, LedgerFollows

\* active goes up last, perhaps when the task has ended already.
LEMMA CountActiveCounts ==
    ASSUME PlacesInv, CountsInv, NEW p \in Producers, CountActive(p)
    PROVE  CountsInv'
<1>0. Ledger /\ Multiple(Balance)
  BY LedgerSizes
<1>1. /\ caller[p] = "activating"
      /\ UNCHANGED <<handed, queue, worker, submitted, completed, failed, dropped, asyncs, ended>>
  BY DEF CountActive
<1>2. PICK s \in {"checking", "done"} : CallerGoes(p, s)
  BY DEF CountActive, NextTask, CallerGoes
<1>3. s # "pushing" /\ s # "submitting" /\ s \notin {"submitting", "activating"}
  OBVIOUS
<1>4. /\ Cardinality(Pushing)' = Cardinality(Pushing) /\ Cardinality(Submitting)' = Cardinality(Submitting)
      /\ Cardinality(Uncounted)' = Cardinality(Uncounted) - 1
  BY <1>0, <1>1, <1>2, <1>3, CallerSizes DEF Ledger, CountersType, Booked
<1>5. InHand' = InHand /\ Taken' = Taken /\ Leaving' = Leaving
  BY <1>1 DEF InHand, Taken, Busy, Leaving, InState
<1>6. active' \in 0..(Wrap - 1) /\ (active' = active + 1 \/ active' = active + 1 - Wrap)
  BY <1>0, AnyCountUp DEF Ledger, CountersType, CountActive
<1>7. CountersType' /\ Booked'
  BY <1>0, <1>1, <1>4, <1>5, <1>6 DEF Ledger, CountersType, Booked
<1>8. Balance' = Balance \/ Balance' = Balance - Wrap
  BY <1>0, <1>4, <1>5, <1>6 DEF Ledger, CountersType, Balance
<1> QED BY <1>0, <1>7, <1>8, Multiples, LedgerFollows

\* pop: the task in hand moves from the queue to a worker.
LEMMA PopCounts ==
    ASSUME PlacesInv, CountsInv, NEW w \in Workers, Pop(w)
    PROVE  CountsInv'
<1>1. /\ worker[w] = "polling" /\ Goto(w, "running")
      /\ UNCHANGED <<caller, handed, submitted, active, completed, failed, dropped, asyncs, ended>>
  BY DEF Pop, counters
<1>2. Cardinality(Busy) \in Nat /\ Cardinality(Leaving) \in Nat
  BY ThreadCounts DEF Busy, Leaving
<1>3. Cardinality(Busy)' = Cardinality(Busy) + 1 /\ Cardinality(Leaving)' = Cardinality(Leaving)
  BY <1>1, <1>2, WorkerSizes
<1>4. Len(queue) \in Nat /\ Len(queue') = Len(queue) - 1
  BY DEF Pop, PlacesInv, ThreadsType
<1>5. InHand' = InHand
  BY <1>2, <1>3, <1>4 DEF InHand
<1>6. Pushing' = Pushing /\ Submitting' = Submitting /\ Uncounted' = Uncounted /\ Taken' = Taken
  BY <1>1 DEF Pushing, Submitting, Uncounted, Calling, Taken
<1>0. Ledger /\ Multiple(Balance)
  BY LedgerSizes
<1>7. CountersType' /\ Booked'
  BY <1>0, <1>1, <1>5, <1>6 DEF Ledger, CountersType, Booked
<1>8. Balance' = Balance
  BY <1>1, <1>3, <1>5, <1>6 DEF Balance
<1> QED BY <1>0, <1>7, <1>8, LedgerFollows

\* A task ends: one of the two counters of ended tasks goes up.
Ends(w) ==
    /\ w \in Busy
    /\ Goto(w, "leaving")
    /\ \/ completed' = (completed + 1) % Wrap /\ UNCHANGED failed
       \/ failed' = (failed + 1) % Wrap /\ UNCHANGED completed
    /\ ended' = ended \cup {task[w]}
    /\ UNCHANGED <<caller, pending, handed, queue, task, submitted, active, dropped, asyncs, shut, gil>>

\* The task is ended, and the worker has yet to lower active.
LEMMA EndingCounts ==
    ASSUME PlacesInv, CountsInv, NEW w, Ends(w)
    PROVE  CountsInv'
<1>1. /\ w \in Busy /\ w \in Workers /\ worker[w] \in {"running", "returned", "awaiting"} /\ Goto(w, "leaving")
      /\ UNCHANGED <<caller, handed, queue, submitted, active, dropped, asyncs>>
  BY DEF Ends, Busy, InState
<1>2. Cardinality(Busy) \in Nat /\ Cardinality(Leaving) \in Nat
  BY ThreadCounts DEF Busy, Leaving
<1>3. Cardinality(Busy)' = Cardinality(Busy) - 1 /\ Cardinality(Leaving)' = Cardinality(Leaving) + 1
  BY <1>1, <1>2, WorkerSizes
<1>4. Len(queue) \in Nat
  BY DEF PlacesInv, ThreadsType
<1>5. InHand' = InHand - 1
  BY <1>1, <1>2, <1>3, <1>4 DEF InHand
<1>6. Pushing' = Pushing /\ Submitting' = Submitting /\ Uncounted' = Uncounted /\ Taken' = Taken
  BY <1>1 DEF Pushing, Submitting, Uncounted, Calling, Taken
<1>7. task[w] \in Tasks /\ task[w] \notin ended /\ ended \in SUBSET Tasks
  BY <1>1 DEF PlacesInv, HeldOnce, ThreadsType
<1>8. ended' = ended \cup {task[w]} /\ ended' \in SUBSET Tasks
  BY <1>7 DEF Ends
<1>9. Cardinality(ended)' = Cardinality(ended) + 1 /\ Cardinality(ended)' < Wrap
  BY <1>7, <1>8, FewTasks, FS_AddElement, BackgroundAssumption DEF BackgroundAssumption
<1>0. Ledger /\ Multiple(Balance)
  BY LedgerSizes
<1>10. /\ completed' \in 0..(Wrap - 1) /\ failed' \in 0..(Wrap - 1)
       /\ completed' + failed' = completed + failed + 1
  <2>1. completed + 1 < Wrap /\ failed + 1 < Wrap
    BY <1>0, <1>9 DEF Ledger, CountersType, Booked
  <2>2. (completed + 1) % Wrap = completed + 1 /\ (failed + 1) % Wrap = failed + 1
    BY <1>0, <2>1, CountUp DEF Ledger, CountersType, Booked
  <2>3. \/ completed' = completed + 1 /\ failed' = failed
        \/ failed' = failed + 1 /\ completed' = completed
    BY <2>2 DEF Ends
  <2>4. completed \in 0..(Wrap - 1) /\ failed \in 0..(Wrap - 1) /\ Wrap \in Nat
    BY <1>0 DEF Ledger, CountersType, Booked
  <2> QED BY <2>1, <2>3, <2>4
<1>11. CountersType'
  BY <1>0, <1>1, <1>10 DEF Ledger, CountersType
<1>12. Booked'
  <2>1. completed' + failed' = Cardinality(ended)'
    BY <1>0, <1>9, <1>10 DEF Ledger, CountersType, Booked
  <2>2. Cardinality(Taken)' = dropped' + Cardinality(Pushing)' + InHand' + Cardinality(ended)'
    BY <1>0, <1>1, <1>5, <1>6, <1>9 DEF Ledger, CountersType, Booked
  <2>3. submitted' + Cardinality(Submitting)' = InHand' + Cardinality(ended)'
    BY <1>0, <1>1, <1>5, <1>6, <1>9 DEF Ledger, CountersType, Booked
  <2> QED BY <2>1, <2>2, <2>3 DEF Booked
<1>13. Balance' = Balance
  BY <1>0, <1>1, <1>3, <1>5, <1>6 DEF Ledger, CountersType, Balance
<1> QED BY <1>0, <1>11, <1>12, <1>13, LedgerFollows

\* active goes down, perhaps below zero.
LEMMA DeactivateCounts ==
    ASSUME PlacesInv, CountsInv, NEW w \in Workers, Deactivate(w)
    PROVE  CountsInv'
<1>0. Ledger /\ Multiple(Balance)
  BY LedgerSizes
<1>1. /\ worker[w] = "leaving" /\ Goto(w, "polling")
      /\ UNCHANGED <<caller, handed, queue, submitted, completed, failed, dropped, asyncs, ended>>
  BY DEF Deactivate
<1>2. Cardinality(Busy) \in Nat /\ Cardinality(Leaving) \in Nat
  BY ThreadCounts DEF Busy, Leaving
<1>3. Cardinality(Busy)' = Cardinality(Busy) /\ Cardinality(Leaving)' = Cardinality(Leaving) - 1
  BY <1>1, <1>2, WorkerSizes
<1>4. InHand' = InHand
  BY <1>1, <1>3 DEF InHand
<1>5. Pushing' = Pushing /\ Submitting' = Submitting /\ Uncounted' = Uncounted /\ Taken' = Taken
  BY <1>1 DEF Pushing, Submitting, Uncounted, Calling, Taken
<1>6. active' \in 0..(Wrap - 1) /\ (active' = active - 1 \/ active' = active - 1 + Wrap)
  BY <1>0, AnyCountDown DEF Ledger, CountersType, Deactivate
<1>7. CountersType' /\ Booked'
  BY <1>0, <1>1, <1>4, <1>5, <1>6 DEF Ledger, CountersType, Booked
<1>8. Balance' = Balance \/ Balance' = Balance + Wrap
  BY <1>0, <1>3, <1>4, <1>5, <1>6 DEF Ledger, CountersType, Balance
<1> QED BY <1>0, <1>7, <1>8, Multiples, LedgerFollows
=============================================================================
