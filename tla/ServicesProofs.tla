--------------------------- MODULE ServicesProofs ---------------------------
(***************************************************************************)
(* Proofs about services around a request, for every value of their        *)
(* constants: migrations are ordered and truly booked, what static files   *)
(* answer is exact, and the health report is there in time.  The three     *)
(* share no state; each has its own inductive invariant.                   *)
(***************************************************************************)
EXTENDS StaticFiles, Migrations, FiniteSetTheorems, TLAPS

CONSTANTS Timeout, MaxProbes, MaxNow
VARIABLES probes, pc, now, outcome, deadline, reply

Hea == INSTANCE Health

-----------------------------------------------------------------------------
(* Migrations.                                                             *)

\* A process.
MigratorType ==
    [pc : {"idle", "ensure", "read", "execute", "book"}, op : {"none", "run", "rollback_one"},
     snap : SUBSET Versions, ran : SUBSET Nat, file : Nat]

\* The types.
MigrationsTypeOK ==
    /\ dir \in Directories
    /\ applied \in [Versions -> Nat]
    /\ tracked \subseteq Versions
    /\ torn \subseteq Versions
    /\ proc \in [Processes -> MigratorType]

\* A call is one of the two, and one that books is at a file.
CallsAreSane ==
    \A p \in Processes :
        /\ proc[p].pc # "idle" => proc[p].op \in {"run", "rollback_one"}
        /\ proc[p].pc = "book" => proc[p].file \in DOMAIN dir

\* Both statements of a version and the time between them.
VersionIsBooked(v) ==
    /\ \A p, r \in Processes : Books(p, v) /\ Books(r, v) => p = r
    /\ (\A p \in Processes : ~Books(p, v)) => applied[v] = IF v \in tracked THEN 1 ELSE 0
    /\ \A p \in Processes : Books(p, v) =>
          IF proc[p].op = "run" THEN applied[v] = 1 /\ v \notin tracked
          ELSE applied[v] = 0 /\ v \in tracked

\* The inductive invariant: TableTellsTheTruth says nothing of a version while a
\* call is between its two statements, so VersionIsBooked does.
MigrationsInv ==
    /\ MigrationsTypeOK
    /\ CallsAreSane
    /\ AppliedInOrder
    /\ \A v \in Versions \ torn : VersionIsBooked(v)

-----------------------------------------------------------------------------

\* The files of the directory.
LEMMA FilesHaveVersions ==
    ASSUME dir \in Directories, NEW i \in DOMAIN dir
    PROVE  dir[i].version \in Versions /\ dir[i].version \in Nat /\ i \in Nat
<1>1. dir \in Seq([version : Nat, named : BOOLEAN, down : BOOLEAN])
  BY DirectoriesAssumption DEF DirectoriesAssumption
<1>2. dir[i] \in [version : Nat, named : BOOLEAN, down : BOOLEAN] /\ i \in Nat
  <2> DEFINE F == [version : Nat, named : BOOLEAN, down : BOOLEAN]
  <2> HIDE DEF F
  <2>1. dir \in Seq(F)
    BY <1>1 DEF F
  <2>2. i \in 1..Len(dir) /\ Len(dir) \in Nat
    BY <2>1
  <2>3. dir[i] \in F
    BY <2>1, <2>2
  <2> QED
    BY <2>2, <2>3 DEF F
<1>3. dir[i].version \in Nat
  BY <1>2
<1>4. dir[i].version \in {dir[j].version : j \in DOMAIN dir}
  OBVIOUS
<1>5. dir[i].version \in Versions
  BY <1>4 DEF Versions
<1> QED
  BY <1>2, <1>3, <1>5

\* What a call executes next is one of them.
LEMMA CurrentIsAFile ==
    ASSUME NEW q, NEW i \in Current(q)
    PROVE  i \in DOMAIN dir
BY DEF Current, FirstOf, Pending, Newest

\* What is at hand is below every other file that could be.
LEMMA CurrentComesFirst ==
    ASSUME dir \in Directories, NEW q, NEW i \in Current(q), NEW j \in DOMAIN dir
    PROVE  IF q.op = "run"
           THEN dir[j].version < dir[i].version => dir[j].version \in q.snap \/ j \in q.ran
           ELSE dir[j].version > dir[i].version => dir[j].version \notin q.snap
<1>1. i \in DOMAIN dir
  BY CurrentIsAFile
<1>2. dir[i].version \in Nat /\ dir[j].version \in Nat
  BY <1>1, FilesHaveVersions
<1>3. CASE q.op = "run"
  BY <1>2, <1>3 DEF Current, FirstOf, Pending, Before
<1>4. CASE q.op # "run"
  BY <1>2, <1>4 DEF Current, FirstOf, Newest
<1> QED
  BY <1>3, <1>4

\* Nothing is applied and nothing tracked.
LEMMA MigrationsInit ==
    ASSUME MigratorInit
    PROVE  MigrationsInv
<1>1. MigrationsTypeOK
  BY DEF MigratorInit, MigrationsTypeOK, MigratorType, Idle
<1>2. CallsAreSane /\ AppliedInOrder
  BY DEF MigratorInit, CallsAreSane, AppliedInOrder, Idle
<1>3. ASSUME NEW v \in Versions PROVE VersionIsBooked(v)
  BY DEF MigratorInit, VersionIsBooked, Books, Idle
<1> QED
  BY <1>1, <1>2, <1>3 DEF MigrationsInv

\* A step of one process that leaves the database alone and comes from, and
\* gets to, no point between two statements.
LEMMA QuietStep ==
    ASSUME MigrationsInv, NEW p \in Processes, NEW q \in MigratorType,
           proc[p].pc # "book", q.pc # "book",
           q.pc # "idle" => q.op \in {"run", "rollback_one"},
           proc' = [proc EXCEPT ![p] = q],
           UNCHANGED <<dir, applied, tracked, torn>>
    PROVE  MigrationsInv'
<1> USE DEF MigrationsInv
<1>1. MigrationsTypeOK'
  BY DEF MigrationsTypeOK
<1>2. \A r \in Processes : proc'[r] = IF r = p THEN q ELSE proc[r]
  BY DEF MigrationsTypeOK
<1>3. CallsAreSane' /\ AppliedInOrder'
  BY <1>2 DEF CallsAreSane, AppliedInOrder
<1>4. \A r \in Processes, v \in Versions : Books(r, v)' <=> Books(r, v)
  BY <1>2 DEF Books
<1>5. ASSUME NEW v \in Versions \ torn PROVE VersionIsBooked(v)'
  <2>1. VersionIsBooked(v)
    BY <1>5
  <2>2. \A r \in Processes : Books(r, v) => proc'[r] = proc[r]
    BY <1>2 DEF Books
  <2> QED
    BY <1>4, <2>1, <2>2 DEF VersionIsBooked
<1> QED
  BY <1>1, <1>3, <1>5

\* The call between its two statements, and after the record of run().
Between(q, i) == [q EXCEPT !.pc = "book", !.file = i]
Recorded(q) == [q EXCEPT !.pc = "execute", !.ran = q.ran \cup {q.file}]

\* A call that gets between its statements keeps what it knows.
LEMMA BetweenFields ==
    ASSUME NEW q \in MigratorType, NEW i \in Nat
    PROVE  /\ Between(q, i) \in MigratorType
           /\ Between(q, i).pc = "book" /\ Between(q, i).file = i /\ Between(q, i).op = q.op
           /\ Between(q, i).snap = q.snap /\ Between(q, i).ran = q.ran
BY DEF MigratorType, Between

\* And so does one that has recorded its migration.
LEMMA RecordedFields ==
    ASSUME NEW q \in MigratorType
    PROVE  Recorded(q) \in MigratorType /\ Recorded(q).pc = "execute" /\ Recorded(q).op = q.op
<1>1. q.ran \cup {q.file} \in SUBSET Nat
  BY DEF MigratorType
<1> QED
  BY <1>1 DEF MigratorType, Recorded

\* The first statement succeeds: the call is between its two statements.
LEMMA StatementSucceeds ==
    ASSUME MigrationsInv, NEW p \in Processes, NEW i \in Current(proc[p]),
           proc[p].pc = "execute",
           CanExecute(proc[p], dir[i].version),
           applied' = Effect(proc[p], dir[i].version),
           proc' = [proc EXCEPT ![p] = Between(proc[p], i)],
           torn' = IF Overlaps(p, dir[i].version) THEN torn \cup {dir[i].version} ELSE torn,
           UNCHANGED <<dir, tracked>>
    PROVE  MigrationsInv'
<1> DEFINE u == dir[i].version
<1>a. MigrationsTypeOK /\ CallsAreSane /\ AppliedInOrder
  BY DEF MigrationsInv
<1>b. \A v \in Versions \ torn : VersionIsBooked(v)
  BY DEF MigrationsInv
<1>0. proc[p] \in MigratorType /\ proc[p].op \in {"run", "rollback_one"}
  BY <1>a DEF MigrationsTypeOK, CallsAreSane
<1>1. i \in DOMAIN dir /\ u \in Versions /\ i \in Nat
  BY <1>a, CurrentIsAFile, FilesHaveVersions DEF MigrationsTypeOK
<1>2. \A r \in Processes : proc'[r] = IF r = p THEN Between(proc[p], i) ELSE proc[r]
  BY <1>a DEF MigrationsTypeOK
<1>3. /\ proc'[p].pc = "book" /\ proc'[p].file = i /\ proc'[p].op = proc[p].op
      /\ proc'[p].snap = proc[p].snap /\ proc'[p].ran = proc[p].ran /\ proc'[p] \in MigratorType
  BY <1>0, <1>1, <1>2, BetweenFields
<1>4. MigrationsTypeOK'
  <2>1. applied' \in [Versions -> Nat]
    BY <1>a, <1>1 DEF MigrationsTypeOK, Effect
  <2>2. proc' \in [Processes -> MigratorType]
    BY <1>a, <1>2, <1>3 DEF MigrationsTypeOK
  <2> QED
    BY <1>a, <1>1, <2>1, <2>2 DEF MigrationsTypeOK
<1>5. CallsAreSane'
  BY <1>a, <1>0, <1>1, <1>2, <1>3 DEF CallsAreSane
<1>6. AppliedInOrder'
  <2>1. \A j \in DOMAIN dir :
            IF proc[p].op = "run"
            THEN dir[j].version < u => dir[j].version \in proc[p].snap \/ j \in proc[p].ran
            ELSE dir[j].version > u => dir[j].version \notin proc[p].snap
    BY <1>a, CurrentComesFirst DEF MigrationsTypeOK
  <2> QED
    BY <1>a, <1>2, <1>3, <2>1 DEF AppliedInOrder
<1>7. ASSUME NEW v \in Versions \ torn' PROVE VersionIsBooked(v)'
  <2>1. VersionIsBooked(v) /\ v \in Versions
    BY <1>b, <1>7
  <2>2. \A r \in Processes \ {p} : (Books(r, v)' <=> Books(r, v)) /\ proc'[r] = proc[r]
    BY <1>2 DEF Books
  <2>3. ~Books(p, v)
    BY DEF Books
  <2>4. Books(p, v)' <=> v = u
    BY <1>3 DEF Books
  <2>5. CASE v # u
    <3>1. applied'[v] = applied[v]
      BY <1>a, <2>1, <2>5 DEF Effect, MigrationsTypeOK
    <3> QED
      BY <2>1, <2>2, <2>3, <2>4, <2>5, <3>1 DEF VersionIsBooked
  <2>6. CASE v = u
    <3>1. ~Overlaps(p, v)
      BY <1>7, <2>6
    <3>2. \A r \in Processes : ~Books(r, v)
      BY <2>3, <3>1 DEF Overlaps
    <3>3. applied[v] = IF v \in tracked THEN 1 ELSE 0
      BY <2>1, <3>2 DEF VersionIsBooked
    <3>4. CASE proc[p].op = "run"
      <4>1. v \notin tracked /\ applied[v] = 0
        BY <3>1, <3>3, <3>4 DEF Overlaps
      <4>2. applied'[v] = 1
        BY <1>a, <2>1, <2>6, <3>4, <4>1 DEF Effect, MigrationsTypeOK
      <4> QED
        BY <1>3, <2>2, <2>4, <2>6, <3>2, <3>4, <4>1, <4>2 DEF VersionIsBooked
    <3>5. CASE proc[p].op = "rollback_one"
      <4>1. v \in tracked
        BY <2>6, <3>3, <3>5 DEF CanExecute
      <4>2. applied'[v] = 0
        BY <1>a, <2>1, <2>6, <3>5 DEF Effect, MigrationsTypeOK
      <4> QED
        BY <1>3, <2>2, <2>4, <2>6, <3>2, <3>5, <4>1, <4>2 DEF VersionIsBooked
    <3> QED
      BY <1>0, <3>4, <3>5
  <2> QED
    BY <2>5, <2>6
<1> QED
  BY <1>4, <1>5, <1>6, <1>7 DEF MigrationsInv

\* A script fails half-way: its version is marked, and of no other version
\* anything changes.
LEMMA ScriptFailsHalfway ==
    ASSUME MigrationsInv, NEW p \in Processes, NEW u \in Versions,
           proc[p].pc = "execute",
           applied' = Effect(proc[p], u),
           proc' = [proc EXCEPT ![p] = Idle],
           torn' = torn \cup {u},
           UNCHANGED <<dir, tracked>>
    PROVE  MigrationsInv'
<1>a. MigrationsTypeOK /\ CallsAreSane /\ AppliedInOrder
  BY DEF MigrationsInv
<1>b. \A v \in Versions \ torn : VersionIsBooked(v)
  BY DEF MigrationsInv
<1>1. \A r \in Processes : proc'[r] = IF r = p THEN Idle ELSE proc[r]
  BY <1>a DEF MigrationsTypeOK
<1>2. MigrationsTypeOK'
  <2>1. Idle \in MigratorType
    BY DEF Idle, MigratorType
  <2>2. applied' \in [Versions -> Nat]
    BY <1>a DEF MigrationsTypeOK, Effect
  <2>3. proc' \in [Processes -> MigratorType]
    BY <1>a, <2>1 DEF MigrationsTypeOK
  <2> QED
    BY <1>a, <2>2, <2>3 DEF MigrationsTypeOK
<1>3. CallsAreSane'
  BY <1>a, <1>1 DEF CallsAreSane, Idle
<1>4. AppliedInOrder'
  BY <1>a, <1>1 DEF AppliedInOrder, Idle
<1>5. ASSUME NEW v \in Versions \ torn' PROVE VersionIsBooked(v)'
  <2>1. VersionIsBooked(v) /\ ~Books(p, v) /\ v # u
    BY <1>b, <1>5 DEF Books
  <2>2. applied'[v] = applied[v]
    BY <1>a, <1>5, <2>1 DEF Effect, MigrationsTypeOK
  <2>3. \A r \in Processes : Books(r, v)' <=> Books(r, v)
    BY <1>1, <2>1 DEF Books, Idle
  <2>4. \A r \in Processes : Books(r, v) => proc'[r] = proc[r]
    BY <1>1, <2>1
  <2> QED
    BY <2>1, <2>2, <2>3, <2>4 DEF VersionIsBooked
<1> QED
  BY <1>2, <1>3, <1>4, <1>5 DEF MigrationsInv

\* record_migration and remove_migration: the call leaves the point between
\* its two statements, and no other call was there for the same version.
LEMMA StatementIsBooked ==
    ASSUME MigrationsInv, NEW p \in Processes, NEW q \in MigratorType,
           proc[p].pc = "book",
           q.pc # "book", q.pc # "idle" => q.op \in {"run", "rollback_one"},
           proc' = [proc EXCEPT ![p] = q],
           tracked' = IF proc[p].op = "run" THEN tracked \cup {dir[proc[p].file].version}
                      ELSE tracked \ {dir[proc[p].file].version},
           UNCHANGED <<dir, applied, torn>>
    PROVE  MigrationsInv'
<1> DEFINE u == dir[proc[p].file].version
<1>a. MigrationsTypeOK /\ CallsAreSane /\ AppliedInOrder
  BY DEF MigrationsInv
<1>b. \A v \in Versions \ torn : VersionIsBooked(v)
  BY DEF MigrationsInv
<1>1. u \in Versions
  BY <1>a, FilesHaveVersions DEF MigrationsTypeOK, CallsAreSane
<1>2. \A r \in Processes : proc'[r] = IF r = p THEN q ELSE proc[r]
  BY <1>a DEF MigrationsTypeOK
<1>3. MigrationsTypeOK'
  <2>1. tracked' \subseteq Versions
    BY <1>a, <1>1 DEF MigrationsTypeOK
  <2> QED
    BY <1>a, <2>1 DEF MigrationsTypeOK
<1>4. CallsAreSane' /\ AppliedInOrder'
  <2>1. CallsAreSane'
    BY <1>a, <1>2 DEF CallsAreSane
  <2>2. AppliedInOrder'
    BY <1>a, <1>2 DEF AppliedInOrder
  <2> QED
    BY <2>1, <2>2
<1>5. ASSUME NEW v \in Versions \ torn PROVE VersionIsBooked(v)'
  <2>1. VersionIsBooked(v)
    BY <1>b, <1>5
  <2>2. \A r \in Processes \ {p} : (Books(r, v)' <=> Books(r, v)) /\ proc'[r] = proc[r]
    BY <1>2 DEF Books
  <2>3. ~Books(p, v)' /\ (Books(p, v) <=> v = u)
    BY <1>2 DEF Books
  <2>4. CASE v # u
    <3>1. v \in tracked' <=> v \in tracked
      BY <2>4
    <3> QED
      BY <2>1, <2>2, <2>3, <2>4, <3>1 DEF VersionIsBooked
  <2>5. CASE v = u
    <3>1. \A r \in Processes : ~Books(r, v)'
      BY <2>1, <2>2, <2>3, <2>5 DEF VersionIsBooked
    <3>2. applied[v] = IF v \in tracked' THEN 1 ELSE 0
      BY <2>1, <2>3, <2>5 DEF VersionIsBooked
    <3> QED
      BY <3>1, <3>2 DEF VersionIsBooked
  <2> QED
    BY <2>4, <2>5
<1> QED
  BY <1>3, <1>4, <1>5 DEF MigrationsInv

\* A call that ends between its two statements marks its version.
LEMMA CrashKeepsInv ==
    ASSUME MigrationsInv, NEW p \in Processes, Crash(p)
    PROVE  MigrationsInv'
<1>a. MigrationsTypeOK /\ CallsAreSane /\ AppliedInOrder
  BY DEF MigrationsInv
<1>b. \A v \in Versions \ torn : VersionIsBooked(v)
  BY DEF MigrationsInv
<1>c. /\ torn' = torn \cup {v \in Versions : Books(p, v)}
      /\ proc' = [proc EXCEPT ![p] = Idle]
      /\ UNCHANGED <<dir, applied, tracked>>
  BY DEF Crash
<1>1. \A r \in Processes : proc'[r] = IF r = p THEN Idle ELSE proc[r]
  BY <1>a, <1>c DEF MigrationsTypeOK
<1>2. MigrationsTypeOK'
  <2>1. Idle \in MigratorType
    BY DEF Idle, MigratorType
  <2> QED
    BY <1>a, <1>c, <2>1 DEF MigrationsTypeOK
<1>3. CallsAreSane' /\ AppliedInOrder'
  <2>1. CallsAreSane'
    BY <1>a, <1>c, <1>1 DEF CallsAreSane, Idle
  <2>2. AppliedInOrder'
    BY <1>a, <1>c, <1>1 DEF AppliedInOrder, Idle
  <2> QED
    BY <2>1, <2>2
<1>4. ASSUME NEW v \in Versions \ torn' PROVE VersionIsBooked(v)'
  <2>1. VersionIsBooked(v) /\ ~Books(p, v)
    BY <1>b, <1>c, <1>4
  <2>2. \A r \in Processes : Books(r, v)' <=> Books(r, v)
    BY <1>c, <1>1, <2>1 DEF Books, Idle
  <2>3. \A r \in Processes : Books(r, v) => proc'[r] = proc[r]
    BY <1>1, <2>1
  <2> QED
    BY <1>c, <2>1, <2>2, <2>3 DEF VersionIsBooked
<1> QED
  BY <1>2, <1>3, <1>4 DEF MigrationsInv

\* Every step keeps the invariant.
LEMMA MigrationsStep ==
    ASSUME MigrationsInv, [MigratorNext]_migVars
    PROVE  MigrationsInv'
<1>0. \A p \in Processes : proc[p] \in MigratorType /\ (proc[p].pc # "idle" => proc[p].op \in {"run", "rollback_one"})
  BY DEF MigrationsInv, MigrationsTypeOK, CallsAreSane
<1>1. Idle \in MigratorType /\ Idle.pc = "idle"
  BY DEF Idle, MigratorType
<1>2. ASSUME NEW p \in Processes, NEW op \in {"run", "rollback_one"}, Discover(p, op) PROVE MigrationsInv'
  <2> DEFINE q == [Idle EXCEPT !.pc = IF op = "run" THEN "ensure" ELSE "read", !.op = op]
  <2>1. q \in MigratorType /\ q.pc \in {"ensure", "read"} /\ q.op = op
    BY DEF Idle, MigratorType
  <2>2. CASE proc' = proc
    <3>1. proc' = [proc EXCEPT ![p] = proc[p]]
      BY <2>2 DEF MigrationsInv, MigrationsTypeOK
    <3> QED
      BY <1>0, <1>2, <3>1, QuietStep DEF Discover
  <2>3. CASE proc' = [proc EXCEPT ![p] = q]
    BY <1>2, <2>1, <2>3, QuietStep DEF Discover
  <2> QED
    BY <1>2, <2>2, <2>3 DEF Discover
<1>3. ASSUME NEW p \in Processes, EnsureTrackingTable(p) PROVE MigrationsInv'
  <2> DEFINE q == [proc[p] EXCEPT !.pc = "read"]
  <2>1. q \in MigratorType /\ q.pc = "read" /\ q.op \in {"run", "rollback_one"}
    BY <1>0, <1>3 DEF MigratorType, EnsureTrackingTable
  <2>2. proc' = [proc EXCEPT ![p] = q]
    BY <1>3 DEF EnsureTrackingTable
  <2> QED
    BY <1>3, <2>1, <2>2, QuietStep DEF EnsureTrackingTable
<1>4. ASSUME NEW p \in Processes, GetAppliedVersions(p) PROVE MigrationsInv'
  <2> DEFINE q == [proc[p] EXCEPT !.pc = "execute", !.snap = tracked]
  <2>1. CASE tracking
    <3>1. q \in MigratorType /\ q.pc = "execute" /\ q.op = proc[p].op
      BY <1>0 DEF MigratorType, MigrationsInv, MigrationsTypeOK
    <3>2. proc' = [proc EXCEPT ![p] = q]
      BY <1>4, <2>1 DEF GetAppliedVersions
    <3>3. proc[p].op \in {"run", "rollback_one"}
      BY <1>0, <1>4 DEF GetAppliedVersions
    <3> QED
      BY <1>4, <3>1, <3>2, <3>3, QuietStep DEF GetAppliedVersions
  <2>2. CASE ~tracking
    BY <1>1, <1>4, <2>2, QuietStep DEF GetAppliedVersions
  <2> QED
    BY <2>1, <2>2
<1>5. ASSUME NEW p \in Processes, ExecuteSql(p) PROVE MigrationsInv'
  <2>1. ASSUME NEW i \in Current(proc[p]), Executes(p, i) PROVE MigrationsInv'
    <3> DEFINE v == dir[i].version
    <3>0. proc[p].pc = "execute" /\ UNCHANGED <<dir, tracked>>
      BY <1>5 DEF ExecuteSql
    <3>1. CASE proc' = [proc EXCEPT ![p] = Idle] /\ UNCHANGED <<applied, torn>>
      BY <1>1, <3>0, <3>1, QuietStep
    <3>2. CASE /\ CanExecute(proc[p], v) /\ applied' = Effect(proc[p], v)
               /\ proc' = [proc EXCEPT ![p] = [@ EXCEPT !.pc = "book", !.file = i]]
               /\ torn' = IF Overlaps(p, v) THEN torn \cup {v} ELSE torn
      <4>1. proc' = [proc EXCEPT ![p] = Between(proc[p], i)]
        BY <3>2 DEF Between
      <4> QED
        BY <3>0, <3>2, <4>1, StatementSucceeds
    <3>3. CASE /\ applied' = Effect(proc[p], v)
               /\ proc' = [proc EXCEPT ![p] = Idle]
               /\ torn' = torn \cup {v}
      <4>1. dir \in Directories
        BY DEF MigrationsInv, MigrationsTypeOK
      <4>2. v \in Versions
        BY <4>1, CurrentIsAFile, FilesHaveVersions
      <4> QED
        BY <3>0, <3>3, <4>2, ScriptFailsHalfway
    <3> QED
      BY <2>1, <3>1, <3>2, <3>3 DEF Executes
  <2>2. CASE Current(proc[p]) = {} /\ proc' = [proc EXCEPT ![p] = Idle] /\ UNCHANGED <<applied, torn>>
    BY <1>1, <1>5, <2>2, QuietStep DEF ExecuteSql
  <2> QED
    BY <1>5, <2>1, <2>2 DEF ExecuteSql
<1>6. ASSUME NEW p \in Processes, RecordMigration(p) PROVE MigrationsInv'
  <2>1. proc' = [proc EXCEPT ![p] = Recorded(proc[p])]
    BY <1>6 DEF RecordMigration, Recorded
  <2>2. Recorded(proc[p]) \in MigratorType /\ Recorded(proc[p]).pc = "execute" /\ Recorded(proc[p]).op = "run"
    BY <1>0, <1>6, RecordedFields DEF RecordMigration
  <2> QED
    BY <1>6, <2>1, <2>2, StatementIsBooked DEF RecordMigration
<1>7. ASSUME NEW p \in Processes, RemoveMigration(p) PROVE MigrationsInv'
  BY <1>1, <1>7, StatementIsBooked DEF RemoveMigration
<1>8. CASE UNCHANGED migVars
  <2>1. UNCHANGED <<dir, applied, tracked, proc, torn>>
    BY <1>8 DEF migVars
  <2>2. (MigrationsTypeOK /\ CallsAreSane)' <=> MigrationsTypeOK /\ CallsAreSane
    BY <2>1 DEF MigrationsTypeOK, CallsAreSane
  <2>3. AppliedInOrder' <=> AppliedInOrder
    BY <2>1 DEF AppliedInOrder
  <2>4. \A v : VersionIsBooked(v)' <=> VersionIsBooked(v)
    BY <2>1 DEF VersionIsBooked, Books
  <2> QED
    BY <2>1, <2>2, <2>3, <2>4 DEF MigrationsInv
<1> QED
  BY <1>2, <1>3, <1>4, <1>5, <1>6, <1>7, <1>8, CrashKeepsInv DEF MigratorNext

\* The tracking table and the schema agree on every version whose script did
\* not fail half-way and whose script and row no crash and no other call came
\* between, and migrations are applied in order: for any number of processes
\* and calls, and whatever files the directory holds.
THEOREM MigrationsStaySound == MigratorSpec => []MigrationsAreSound
<1>1. MigratorInit => MigrationsInv
  BY MigrationsInit
<1>2. MigrationsInv /\ [MigratorNext]_migVars => MigrationsInv'
  BY MigrationsStep
<1>3. MigrationsInv => MigrationsAreSound
  BY DEF MigrationsInv, MigrationsAreSound, TableTellsTheTruth, VersionIsBooked
<1> QED
  BY <1>1, <1>2, <1>3, PTL DEF MigratorSpec

-----------------------------------------------------------------------------
(* Static files.                                                           *)

\* Range headers are parsed into unsigned numbers.
StaticAssumption ==
    /\ MaxLen \in Nat
    /\ Ranges \subseteq [form : {"both", "from", "suffix", "bad"}, first : Nat, last : Nat]

\* The range served is one of bytes of the file, unless the file is empty.
LEMMA RangeIsClamped ==
    ASSUME NEW h \in [form : {"both", "from", "suffix", "bad"}, first : Nat, last : Nat], NEW total \in Nat,
           ParseRange(h, total)
    PROVE  LET abs == IntoAbsRange(h, total)
           IN /\ abs[1] \in Nat /\ abs[2] \in Nat /\ abs[1] <= abs[2]
              /\ total # 0 => abs[2] < total
BY DEF ParseRange, IntoAbsRange, SaturatingSub, AtMost, AtLeast

\* Of a file that is not empty it holds the bytes asked for, or the last byte.
LEMMA RangeIsAsked ==
    ASSUME NEW h \in [form : {"both", "from", "suffix", "bad"}, first : Nat, last : Nat], NEW total \in Nat \ {0},
           ParseRange(h, total)
    PROVE  LET abs == IntoAbsRange(h, total)
           IN abs[1]..abs[2] = IF Asked(h, total) = {} THEN {total - 1} ELSE Asked(h, total)
<1> DEFINE asked == Asked(h, total)
<1>1. CASE h.form = "suffix"
  <2>1. IntoAbsRange(h, total) = <<total - h.last, total - 1>>
    BY <1>1 DEF ParseRange, IntoAbsRange, SaturatingSub
  <2>2. asked = (total - h.last)..(total - 1)
    BY <1>1 DEF Asked, ParseRange
  <2>3. total - 1 \in asked
    BY <1>1, <2>2 DEF ParseRange
  <2> QED
    BY <2>1, <2>2, <2>3
<1>2. CASE h.form = "from"
  <2>1. IntoAbsRange(h, total) = <<IF h.first < total - 1 THEN h.first ELSE total - 1, total - 1>>
    BY <1>2 DEF ParseRange, IntoAbsRange, SaturatingSub, AtMost
  <2>2. asked = {i \in 0..(total - 1) : h.first <= i}
    BY <1>2 DEF Asked
  <2>3. CASE h.first <= total - 1
    <3>1. asked = (h.first)..(total - 1)
      BY <2>2
    <3>2. total - 1 \in asked
      BY <2>3, <3>1
    <3> QED
      BY <2>1, <2>3, <3>1, <3>2
  <2>4. CASE h.first > total - 1
    <3>1. asked = {}
      BY <2>2, <2>4
    <3>2. (total - 1)..(total - 1) = {total - 1}
      OBVIOUS
    <3> QED
      BY <2>1, <2>4, <3>1, <3>2
  <2> QED
    BY <2>3, <2>4
<1>3. CASE h.form = "both"
  <2>0. h.first <= h.last
    BY <1>3 DEF ParseRange
  <2>1. asked = {i \in 0..(total - 1) : h.first <= i /\ i <= h.last}
    BY <1>3 DEF Asked
  <2>2. CASE h.first <= total - 1
    <3>1. IntoAbsRange(h, total) = <<h.first, IF h.last < total - 1 THEN h.last ELSE total - 1>>
      BY <1>3, <2>0, <2>2 DEF IntoAbsRange, SaturatingSub, AtMost, AtLeast
    <3>2. asked = (h.first)..(IF h.last < total - 1 THEN h.last ELSE total - 1)
      BY <2>1
    <3>3. h.first \in asked
      BY <2>0, <2>1, <2>2
    <3> QED
      BY <3>1, <3>2, <3>3
  <2>3. CASE h.first > total - 1
    <3>1. IntoAbsRange(h, total) = <<total - 1, total - 1>>
      BY <1>3, <2>0, <2>3 DEF IntoAbsRange, SaturatingSub, AtMost, AtLeast
    <3>2. asked = {}
      BY <2>1, <2>3
    <3>3. (total - 1)..(total - 1) = {total - 1}
      OBVIOUS
    <3> QED
      BY <3>1, <3>2, <3>3
  <2> QED
    BY <2>2, <2>3
<1> QED
  BY <1>1, <1>2, <1>3 DEF ParseRange

\* A request between its two looks at the file: what it knows is of this
\* version f of the file, or of an earlier one.
SeenBefore(q, f) ==
    /\ q = [pc |-> q.pc, len |-> q.len, version |-> q.version, etag |-> q.etag,
            range |-> q.range, plain |-> q.plain, opened |-> q.opened, reply |-> q.reply]
    /\ q.len \in Nat /\ q.version \in Nat /\ q.range \in Ranges
    /\ q.version <= f.version
    /\ q.version = f.version => q.len = f.len

\* An error has its reason: a file that was empty or missing, or is at a later
\* version by now.
ErrorIsJustified(q, latest) ==
    q.reply.status = 500 => q.len \in {0, Gone} \/ (q.version \in Nat /\ q.version < latest)

ReplyIsExact(q, latest) == PartialIsExact(q) /\ WholeIsExact(q) /\ ErrorIsJustified(q, latest)

\* The inductive invariant: what a request has seen, until it is answered, and
\* its reply from then on.
StaticInv ==
    /\ file \in [len : {Gone} \cup Nat, version : Nat]
    /\ serving = [r \in Requests |-> serving[r]]
    /\ \A r \in Requests :
          /\ serving[r].pc \in {"new", "read", "stream", "done"}
          /\ serving[r].pc \in {"read", "stream"} => SeenBefore(serving[r], file)
          /\ serving[r].pc = "done" => ReplyIsExact(serving[r], file.version)

\* No request has come.
LEMMA StaticInit ==
    ASSUME StaticAssumption, Init
    PROVE  StaticInv
BY DEF StaticAssumption, Init, StaticInv

\* A step of one request that leaves the file alone.
LEMMA OneRequestMoves ==
    ASSUME StaticInv, NEW r \in Requests, NEW q,
           serving' = [serving EXCEPT ![r] = q], file' = file,
           q.pc \in {"read", "stream", "done"},
           q.pc \in {"read", "stream"} => SeenBefore(q, file),
           q.pc = "done" => ReplyIsExact(q, file.version)
    PROVE  StaticInv'
<1>1. serving' = [s \in Requests |-> IF s = r THEN q ELSE serving[s]]
  BY DEF StaticInv
<1> QED
  BY <1>1 DEF StaticInv

\* The request with its reply.
Replied(q, answer) == [q EXCEPT !.pc = "done", !.reply = answer]

\* A reply changes nothing else of a request.
LEMMA RepliedFields ==
    ASSUME NEW q, NEW f, SeenBefore(q, f), NEW answer
    PROVE  LET d == Replied(q, answer)
           IN d.pc = "done" /\ d.reply = answer /\ d.len = q.len /\ d.version = q.version /\ d.range = q.range
BY DEF SeenBefore, Replied

\* The request with its file open.
Opened(q, v) == [q EXCEPT !.pc = "stream", !.opened = v]

\* What it knows is still of the file.
LEMMA OpenedIsSeen ==
    ASSUME NEW q, NEW f, SeenBefore(q, f), NEW v
    PROVE  Opened(q, v).pc = "stream" /\ SeenBefore(Opened(q, v), f)
<1> DEFINE R(p, o) == [pc : {p}, len : {q.len}, version : {q.version}, etag : {q.etag},
                       range : {q.range}, plain : {q.plain}, opened : {o}, reply : {q.reply}]
<1>1. q \in R(q.pc, q.opened)
  BY DEF SeenBefore
<1>2. Opened(q, v) \in R("stream", v)
  BY <1>1 DEF Opened
<1>3. Opened(q, v).pc = "stream" /\ Opened(q, v).len = q.len
      /\ Opened(q, v).version = q.version /\ Opened(q, v).range = q.range
  BY <1>2
<1>4. Opened(q, v) = [pc |-> Opened(q, v).pc, len |-> Opened(q, v).len, version |-> Opened(q, v).version,
                      etag |-> Opened(q, v).etag, range |-> Opened(q, v).range, plain |-> Opened(q, v).plain,
                      opened |-> Opened(q, v).opened, reply |-> Opened(q, v).reply]
  BY <1>2
<1> QED
  BY <1>3, <1>4 DEF SeenBefore

\* The first look at the file.
LEMMA StatKeepsInv ==
    ASSUME StaticAssumption, StaticInv, NEW r \in Requests, NEW range \in Ranges, NEW tag, NEW plain \in BOOLEAN,
           Stat(r, range, tag, plain)
    PROVE  StaticInv'
<1> DEFINE seen == [pc |-> "read", len |-> file.len, version |-> file.version, etag |-> MakeEtag,
                    range |-> range, plain |-> plain, opened |-> 0, reply |-> Unanswered]
           Ends(code) == [seen EXCEPT !.pc = "done", !.reply = [status |-> code]]
<1>1. ASSUME NEW code \in {404, 304, 500}, code = 500 => file.len = Gone,
             serving' = [serving EXCEPT ![r] = Ends(code)]
      PROVE  StaticInv'
  <2>1. Ends(code).pc = "done" /\ Ends(code).reply = [status |-> code] /\ Ends(code).len = file.len
    OBVIOUS
  <2>2. ReplyIsExact(Ends(code), file.version)
    BY <1>1, <2>1 DEF ReplyIsExact, PartialIsExact, WholeIsExact, ErrorIsJustified
  <2>3. file' = file
    BY DEF Stat
  <2> HIDE DEF Ends
  <2> QED
    BY <1>1, <2>1, <2>2, <2>3, OneRequestMoves
<1>2. ASSUME serving' = [serving EXCEPT ![r] = seen], file.len # Gone PROVE StaticInv'
  <2>1. file.len \in Nat /\ file.version \in Nat
    BY <1>2 DEF StaticInv
  <2>2. seen.pc = "read" /\ SeenBefore(seen, file)
    BY <2>1 DEF SeenBefore
  <2>3. file' = file
    BY DEF Stat
  <2> HIDE DEF seen
  <2> QED
    BY <1>2, <2>2, <2>3, OneRequestMoves
<1>3. serving' = [serving EXCEPT ![r] = IF file.len = Gone THEN Ends(IF plain THEN 500 ELSE 404)
                                        ELSE IF ~plain /\ tag = MakeEtag THEN Ends(304) ELSE seen]
  BY DEF Stat
<1> HIDE DEF seen, Ends
<1>4. CASE file.len = Gone
  <2>1. CASE plain
    <3>1. serving' = [serving EXCEPT ![r] = Ends(500)]
      BY <1>3, <1>4, <2>1
    <3> QED
      BY <1>1, <1>4, <3>1
  <2>2. CASE ~plain
    <3>1. serving' = [serving EXCEPT ![r] = Ends(404)]
      BY <1>3, <1>4, <2>2
    <3> QED
      BY <1>1, <3>1
  <2> QED
    BY <2>1, <2>2
<1>5. CASE file.len # Gone /\ ~plain /\ tag = MakeEtag
  BY <1>1, <1>3, <1>5
<1>6. CASE file.len # Gone /\ ~(~plain /\ tag = MakeEtag)
  BY <1>2, <1>3, <1>6
<1> QED
  BY <1>4, <1>5, <1>6

\* The length that serve_range declares.
LEMMA IntervalSize ==
    ASSUME NEW a \in Nat, NEW b \in Nat, a <= b
    PROVE  Cardinality(a..b) = b - a + 1
<1>1. a \in Int /\ b \in Int /\ ~(a > b)
  OBVIOUS
<1> QED
  BY <1>1, FS_Interval

\* What is to be shown of a 206.
LEMMA PartialShown ==
    ASSUME NEW q,
           q.reply.length = Cardinality(q.reply.body),
           q.len = 0 \/ q.reply.body \subseteq 0..(q.len - 1),
           q.reply.version = q.version =>
              q.reply.body = IF Asked(q.range, q.len) = {} THEN {q.len - 1} ELSE Asked(q.range, q.len)
    PROVE  PartialIsExact(q)
BY DEF PartialIsExact

\* A 500 is exact when it is justified.
LEMMA ErrorShown ==
    ASSUME NEW q, NEW v, q.reply.status = 500, ErrorIsJustified(q, v)
    PROVE  ReplyIsExact(q, v)
BY DEF ReplyIsExact, PartialIsExact, WholeIsExact

\* serve_range, on a file that may have been replaced since.
LEMMA ServeRangeKeepsInv ==
    ASSUME StaticAssumption, StaticInv, NEW r \in Requests, ServeRange(r)
    PROVE  StaticInv'
<1> DEFINE q == serving[r]
           abs == IntoAbsRange(q.range, q.len)
           partial == [status |-> 206, body |-> abs[1]..abs[2], length |-> abs[2] - abs[1] + 1, version |-> file.version]
           failed == [status |-> 500]
<1>1. SeenBefore(q, file) /\ file' = file
  BY DEF StaticInv, ServeRange
<1>2. q.range \in [form : {"both", "from", "suffix", "bad"}, first : Nat, last : Nat] /\ q.len \in Nat
  BY <1>1 DEF SeenBefore, StaticAssumption
<1>3. ParseRange(q.range, q.len)
  BY DEF ServeRange, Ranged
<1>4. /\ abs[1] \in Nat /\ abs[2] \in Nat /\ abs[1] <= abs[2]
      /\ q.len # 0 => abs[2] < q.len
  BY <1>2, <1>3, RangeIsClamped
<1>5. q.len # 0 => abs[1]..abs[2] = IF Asked(q.range, q.len) = {} THEN {q.len - 1}
                                    ELSE Asked(q.range, q.len)
  BY <1>2, <1>3, RangeIsAsked
<1>6. serving' = [serving EXCEPT ![r] = Replied(q, IF abs[2] < file.len THEN partial ELSE failed)]
  BY DEF ServeRange, Answers, Replied
<1>7. file.len \in Nat \cup {-1} /\ file.version \in Nat
  BY DEF StaticInv, Gone
<1> HIDE DEF abs
<1>a. /\ partial.status = 206 /\ partial.body = abs[1]..abs[2] /\ partial.length = abs[2] - abs[1] + 1
      /\ partial.version = file.version
  OBVIOUS
<1>b. failed.status = 500
  OBVIOUS
<1> HIDE DEF partial, failed
<1>8. CASE abs[2] < file.len
  <2> DEFINE d == Replied(q, partial)
  <2>1. d.pc = "done" /\ d.reply = partial /\ d.len = q.len /\ d.version = q.version /\ d.range = q.range
    BY <1>1, RepliedFields
  <2>2. Cardinality(abs[1]..abs[2]) = abs[2] - abs[1] + 1
    BY <1>4, IntervalSize
  <2>3. q.len = 0 \/ abs[1]..abs[2] \subseteq 0..(q.len - 1)
    BY <1>2, <1>4
  <2>4. file.version = q.version => q.len # 0
    BY <1>1, <1>4, <1>8 DEF SeenBefore
  <2> HIDE DEF d, q
  <2>5. ReplyIsExact(d, file.version)
    <3>1. d.reply.status = 206 /\ d.reply.body = abs[1]..abs[2] /\ d.reply.length = abs[2] - abs[1] + 1
          /\ d.reply.version = file.version
      BY <1>a, <2>1
    <3>2. PartialIsExact(d)
      <4>1. d.reply.length = Cardinality(d.reply.body)
        BY <2>2, <3>1
      <4>2. d.len = 0 \/ d.reply.body \subseteq 0..(d.len - 1)
        BY <2>1, <2>3, <3>1
      <4>3. d.reply.version = d.version =>
              d.reply.body = IF Asked(d.range, d.len) = {} THEN {d.len - 1} ELSE Asked(d.range, d.len)
        BY <1>5, <2>1, <2>4, <3>1
      <4> QED
        BY <4>1, <4>2, <4>3, PartialShown
    <3>3. WholeIsExact(d) /\ ErrorIsJustified(d, file.version)
      BY <3>1 DEF WholeIsExact, ErrorIsJustified
    <3> QED
      BY <3>2, <3>3 DEF ReplyIsExact
  <2>6. serving' = [serving EXCEPT ![r] = d]
    BY <1>6, <1>8 DEF d
  <2> QED
    BY <1>1, <2>1, <2>5, <2>6, OneRequestMoves
<1>9. CASE ~(abs[2] < file.len)
  <2> DEFINE d == Replied(q, failed)
  <2>1. d.pc = "done" /\ d.reply = failed /\ d.len = q.len /\ d.version = q.version /\ d.range = q.range
    BY <1>1, RepliedFields
  <2>2. q.len \in {0, Gone} \/ (q.version \in Nat /\ q.version < file.version)
    BY <1>1, <1>2, <1>4, <1>7, <1>9 DEF SeenBefore
  <2> HIDE DEF d, q
  <2>3. ReplyIsExact(d, file.version)
    <3>1. ErrorIsJustified(d, file.version)
      BY <2>1, <2>2 DEF ErrorIsJustified
    <3> QED BY <1>b, <2>1, <3>1, ErrorShown
  <2>4. serving' = [serving EXCEPT ![r] = d]
    BY <1>6, <1>9 DEF d
  <2> QED
    BY <1>1, <2>1, <2>3, <2>4, OneRequestMoves
<1> QED
  BY <1>8, <1>9

\* The request answered with n bytes.
Whole(q, n, v) == Replied(q, [status |-> 200, body |-> 0..(n - 1), length |-> q.len, version |-> v])

\* A 200 whose bytes are of the file as it was seen at first is whole.
LEMMA WholeReplyKeepsInv ==
    ASSUME StaticInv, NEW r \in Requests, serving[r].pc \in {"read", "stream"}, file' = file,
           NEW n, NEW v, v = serving[r].version => n = serving[r].len,
           serving' = [serving EXCEPT ![r] = Whole(serving[r], n, v)]
    PROVE  StaticInv'
<1> DEFINE q == serving[r]
           whole == [status |-> 200, body |-> 0..(n - 1), length |-> q.len, version |-> v]
           d == Whole(q, n, v)
<1>1. SeenBefore(q, file)
  BY DEF StaticInv
<1>2. d.pc = "done" /\ d.reply = whole /\ d.len = q.len /\ d.version = q.version
  <2>1. d = Replied(q, whole)
    BY DEF Whole
  <2> HIDE DEF d, whole, q
  <2> QED BY <1>1, <2>1, RepliedFields
<1>a. whole.status = 200 /\ whole.body = 0..(n - 1) /\ whole.length = q.len /\ whole.version = v
  OBVIOUS
<1>3. v = q.version => n = q.len
  OBVIOUS
<1>4. serving' = [serving EXCEPT ![r] = d]
  OBVIOUS
<1> HIDE DEF d, q, whole
<1>5. ReplyIsExact(d, file.version)
  BY <1>2, <1>3, <1>a DEF ReplyIsExact, PartialIsExact, WholeIsExact, ErrorIsJustified
<1> QED
  BY <1>2, <1>4, <1>5, OneRequestMoves

\* The whole file, which may have been replaced or removed since; a long one
\* is only opened.
LEMMA ServeFileKeepsInv ==
    ASSUME StaticAssumption, StaticInv, NEW r \in Requests, ServeFile(r)
    PROVE  StaticInv'
<1> DEFINE q == serving[r]
           failed == [status |-> 500]
           opens == Opened(q, file.version)
<1>1. q.pc = "read" /\ SeenBefore(q, file) /\ file' = file
  BY DEF StaticInv, ServeFile
<1>2. serving' = [serving EXCEPT ![r] = IF file.len # Gone /\ q.len > Small THEN opens
                                        ELSE IF file.len = Gone THEN Replied(q, failed)
                                        ELSE Whole(q, file.len, file.version)]
  BY DEF ServeFile, Answers, Replied, Opened, Whole
<1>3. file.version \in Nat /\ Gone \notin Nat
  BY DEF StaticInv, Gone
<1>a. failed.status = 500
  OBVIOUS
<1> HIDE DEF failed
<1>4. CASE file.len = Gone
  <2> DEFINE d == Replied(q, failed)
  <2>1. d.pc = "done" /\ d.reply = failed /\ d.len = q.len /\ d.version = q.version /\ d.range = q.range
    BY <1>1, RepliedFields
  <2>2. q.version \in Nat /\ q.version < file.version
    BY <1>1, <1>3, <1>4 DEF SeenBefore
  <2> HIDE DEF d, q
  <2>3. ReplyIsExact(d, file.version)
    <3>1. ErrorIsJustified(d, file.version)
      BY <2>1, <2>2 DEF ErrorIsJustified
    <3> QED BY <1>a, <2>1, <3>1, ErrorShown
  <2>4. serving' = [serving EXCEPT ![r] = d]
    BY <1>2, <1>4 DEF d
  <2> QED
    BY <1>1, <2>1, <2>3, <2>4, OneRequestMoves
<1>5. CASE file.len # Gone /\ q.len > Small
  <2>1. opens.pc = "stream" /\ SeenBefore(opens, file)
    BY <1>1, OpenedIsSeen
  <2>2. serving' = [serving EXCEPT ![r] = opens]
    BY <1>2, <1>5
  <2> HIDE DEF opens, q
  <2> QED
    BY <1>1, <2>1, <2>2, OneRequestMoves
<1>6. CASE file.len # Gone /\ ~(q.len > Small)
  <2>1. file.version = q.version => file.len = q.len
    BY <1>1 DEF SeenBefore
  <2>2. serving' = [serving EXCEPT ![r] = Whole(q, file.len, file.version)]
    BY <1>2, <1>6
  <2> QED
    BY <1>1, <2>1, <2>2, WholeReplyKeepsInv
<1> QED
  BY <1>4, <1>5, <1>6

\* The body of a long file, which may be edited before its last byte is read.
LEMMA StreamBodyKeepsInv ==
    ASSUME StaticInv, NEW r \in Requests, StreamBody(r)
    PROVE  StaticInv'
<1> DEFINE q == serving[r]
           same == file.version = q.opened
           v == IF same THEN file.version ELSE Mixed
<1>1. q.pc = "stream" /\ SeenBefore(q, file) /\ file' = file
  BY DEF StaticInv, StreamBody
<1>2. PICK n : /\ same => n = file.len
               /\ serving' = [serving EXCEPT ![r] = Whole(q, n, v)]
  BY DEF StreamBody, Answers, Replied, Whole
<1>3. v = q.version => n = q.len
  BY <1>1, <1>2 DEF SeenBefore, Mixed
<1> HIDE DEF v, same
<1> QED
  BY <1>1, <1>2, <1>3, WholeReplyKeepsInv

\* Every step keeps the invariant.
LEMMA StaticStep ==
    ASSUME StaticAssumption, StaticInv, [Next]_vars
    PROVE  StaticInv'
<1>1. CASE Tick
  BY <1>1 DEF Tick, StaticInv
<1>2. ASSUME NEW n \in {Gone} \cup 0..MaxLen, Edit(n) PROVE StaticInv'
  <2>1. file.version \in Nat /\ file' = [len |-> n, version |-> file.version + 1] /\ serving' = serving
    BY <1>2 DEF Edit, StaticInv
  <2>2. file' \in [len : {Gone} \cup Nat, version : Nat] /\ file'.version = file.version + 1
    BY <2>1 DEF StaticAssumption
  <2>3. ASSUME NEW r \in Requests, serving[r].pc \in {"read", "stream"} PROVE SeenBefore(serving[r], file')
    BY <2>1, <2>2, <2>3 DEF SeenBefore, StaticInv
  <2>4. ASSUME NEW r \in Requests, serving[r].pc = "done" PROVE ReplyIsExact(serving[r], file'.version)
    BY <2>1, <2>2, <2>4 DEF ReplyIsExact, ErrorIsJustified, StaticInv
  <2> QED
    BY <2>1, <2>2, <2>3, <2>4 DEF StaticInv
<1>3. CASE UNCHANGED vars
  BY <1>3 DEF vars, StaticInv
<1> QED
  BY <1>1, <1>2, <1>3, StatKeepsInv, ServeRangeKeepsInv, ServeFileKeepsInv, StreamBodyKeepsInv DEF Next

\* The invariant implies the property.
LEMMA StaticInvReplies ==
    ASSUME StaticInv
    PROVE  RepliesAreExact
<1>1. ASSUME NEW r \in Requests, serving[r].pc = "done" PROVE ReplyIsExact(serving[r], file.version) /\ file.version \in Nat
  BY <1>1 DEF StaticInv
<1>2. ASSUME NEW r \in Requests, serving[r].pc = "done"
      PROVE  /\ PartialIsExact(serving[r]) /\ WholeIsExact(serving[r])
             /\ serving[r].reply.status = 500 => serving[r].len \in {0, Gone} \/ file.version # serving[r].version
  BY <1>1, <1>2 DEF ReplyIsExact, ErrorIsJustified
<1> QED
  BY <1>2 DEF RepliesAreExact

\* Whatever requests come and however often the file is replaced between a
\* request's two looks at it, or while it is streamed: a 206 holds the bytes it
\* declares, and the ones asked for if the file is still the same; a 200 of the
\* same file is whole; and only an empty or missing file, or one that was
\* replaced or removed, is answered 500.
THEOREM RepliesStayExact ==
    ASSUME StaticAssumption
    PROVE  Spec => []RepliesAreExact
<1>1. Init => StaticInv
  BY StaticInit
<1>2. StaticInv /\ [Next]_vars => StaticInv'
  BY StaticStep
<1>3. StaticInv => RepliesAreExact
  BY StaticInvReplies
<1> QED
  BY <1>1, <1>2, <1>3, PTL DEF Spec

-----------------------------------------------------------------------------
(* The health report.                                                      *)

\* What a probe may do.
Probes == Hea!Statuses \cup {"hangs"}

\* The types; the timers are all set for one timeout after the start.
HealthTypeOK ==
    /\ probes \in Seq(Probes)
    /\ pc \in {"setup", "checks", "done"}
    /\ now \in Nat
    /\ pc = "setup" => outcome = <<>> /\ now = 0
    /\ pc # "setup" => /\ outcome \in [1..Len(probes) -> Probes \cup {"pending"}]
                       /\ deadline = [i \in 1..Len(probes) |-> Timeout]

\* All timers fire at the same time, until then an outcome is what the probe
\* answered, and the report is made of the outcomes once all are there.
HealthInv ==
    /\ HealthTypeOK
    /\ now <= Timeout
    /\ pc # "setup" => \A i \in 1..Len(probes) :
          outcome[i] \in {"pending", probes[i]} \/ (outcome[i] = "unhealthy" /\ now = Timeout)
    /\ pc = "done" =>
          /\ \A i \in 1..Len(probes) : outcome[i] # "pending"
          /\ reply.components = outcome
          /\ (reply.status = 503) <=> \E i \in 1..Len(probes) : outcome[i] = "unhealthy"

\* No probe is registered.
LEMMA HealthInit ==
    ASSUME Timeout \in Nat, Hea!Init
    PROVE  HealthInv
BY DEF Hea!Init, HealthInv, HealthTypeOK

\* Every step keeps the invariant.
LEMMA HealthStep ==
    ASSUME Timeout \in Nat, HealthInv, [Hea!Next]_(Hea!vars)
    PROVE  HealthInv'
<1> USE DEF HealthInv
<1>1. DOMAIN probes = 1..Len(probes) /\ Len(probes) \in Nat
  BY DEF HealthTypeOK
<1>2. ASSUME NEW kind \in Probes, Hea!Register(kind) PROVE HealthInv'
  BY <1>2 DEF Hea!Register, HealthTypeOK
<1>3. CASE Hea!CheckAll
  <2>1. outcome' = [i \in 1..Len(probes) |-> "pending"] /\ deadline' = [i \in 1..Len(probes) |-> Timeout]
    BY <1>1, <1>3 DEF Hea!CheckAll, Hea!Deadlines, HealthTypeOK
  <2>2. probes' = probes /\ now' = now /\ pc' = "checks"
    BY <1>3 DEF Hea!CheckAll
  <2>3. HealthTypeOK'
    BY <2>1, <2>2 DEF HealthTypeOK
  <2> QED
    BY <2>1, <2>2, <2>3
<1>4. ASSUME NEW i \in DOMAIN outcome, Hea!Answers(i) PROVE HealthInv'
  <2>1. i \in 1..Len(probes) /\ probes[i] \in Probes
    BY <1>1, <1>4 DEF Hea!Answers, HealthTypeOK
  <2>2. HealthTypeOK'
    BY <1>4, <2>1 DEF Hea!Answers, HealthTypeOK
  <2>3. outcome' = [outcome EXCEPT ![i] = probes[i]] /\ UNCHANGED <<probes, pc, now>> /\ pc = "checks"
    BY <1>4 DEF Hea!Answers
  <2> QED
    BY <2>1, <2>2, <2>3 DEF HealthTypeOK
<1>5. ASSUME NEW i \in DOMAIN outcome, Hea!TimesOut(i) PROVE HealthInv'
  <2>1. i \in 1..Len(probes) /\ now = Timeout
    BY <1>1, <1>5 DEF Hea!TimesOut, HealthTypeOK
  <2>2. "unhealthy" \in Probes
    BY DEF Probes, Hea!Statuses
  <2>3. HealthTypeOK'
    BY <1>5, <2>1, <2>2 DEF Hea!TimesOut, HealthTypeOK
  <2>4. outcome' = [outcome EXCEPT ![i] = "unhealthy"] /\ UNCHANGED <<probes, pc, now>> /\ pc = "checks"
    BY <1>5 DEF Hea!TimesOut
  <2> QED
    BY <2>1, <2>3, <2>4 DEF HealthTypeOK
<1>6. CASE Hea!Tick
  <2>1. now < Timeout
    BY <1>1, <1>6 DEF Hea!Tick, HealthTypeOK
  <2>2. now' = now + 1 /\ UNCHANGED <<probes, pc, outcome, deadline, reply>> /\ pc = "checks"
    BY <1>6 DEF Hea!Tick
  <2>3. HealthTypeOK'
    BY <2>2 DEF HealthTypeOK
  <2> QED
    BY <2>1, <2>2, <2>3 DEF HealthTypeOK
<1>7. CASE Hea!HealthResponse
  <2>1. DOMAIN outcome = 1..Len(probes)
    BY <1>7 DEF Hea!HealthResponse, HealthTypeOK
  <2>2. /\ UNCHANGED <<probes, now, outcome, deadline>> /\ pc = "checks" /\ pc' = "done"
        /\ \A i \in 1..Len(probes) : outcome[i] # "pending"
        /\ reply'.components = outcome
        /\ reply'.status = IF Hea!Overall(outcome) = "unhealthy" THEN 503 ELSE 200
    BY <1>7, <2>1 DEF Hea!HealthResponse
  <2>3. Hea!Overall(outcome) = "unhealthy" <=> \E i \in 1..Len(probes) : outcome[i] = "unhealthy"
    BY <2>1 DEF Hea!Overall
  <2>4. HealthTypeOK'
    BY <2>2 DEF HealthTypeOK
  <2> QED
    BY <2>2, <2>3, <2>4
<1>8. CASE UNCHANGED Hea!vars
  BY <1>8 DEF Hea!vars, HealthTypeOK
<1> HIDE DEF HealthInv
<1> QED
  BY <1>2, <1>3, <1>4, <1>5, <1>6, <1>7, <1>8 DEF Hea!Next, Probes

\* The invariant implies the property.
LEMMA HealthInvReports ==
    ASSUME Timeout \in Nat, HealthInv
    PROVE  Hea!ReportsInTime
<1> USE DEF HealthInv
<1>1. CASE pc # "done"
  BY <1>1 DEF Hea!ReportsInTime
<1>2. CASE pc = "done"
  <2>1. DOMAIN probes = 1..Len(probes) /\ Len(probes) \in Nat
    BY DEF HealthTypeOK
  <2>2. outcome \in [1..Len(probes) -> Probes \cup {"pending"}] /\ reply.components = outcome
    BY <1>2 DEF HealthTypeOK
  <2>3. Len(outcome) = Len(probes)
    BY <2>1, <2>2
  <2>4. now < Timeout => outcome = probes
    <3>1. now < Timeout => \A i \in 1..Len(probes) : outcome[i] = probes[i]
      BY <1>2 DEF HealthTypeOK
    <3>2. probes \in [1..Len(probes) -> Probes]
      BY DEF HealthTypeOK
    <3> QED
      BY <2>2, <3>1, <3>2
  <2>5. \A i \in 1..Len(probes) : outcome[i] = probes[i] \/ (outcome[i] = "unhealthy" /\ now = Timeout)
    BY <1>2
  <2> QED
    BY <1>2, <2>1, <2>2, <2>3, <2>4, <2>5 DEF Hea!ReportsInTime
<1> QED
  BY <1>1, <1>2

\* However many probes are registered, and however many of them hang, the
\* report is there within one timeout, tells what each probe answered or that
\* it was late, and its status is 503 exactly if one is unhealthy or late.
THEOREM HealthReportsInTime ==
    ASSUME Timeout \in Nat
    PROVE  Hea!Spec => []Hea!ReportsInTime
<1>1. Hea!Init => HealthInv
  BY HealthInit
<1>2. HealthInv /\ [Hea!Next]_(Hea!vars) => HealthInv'
  BY HealthStep
<1>3. HealthInv => Hea!ReportsInTime
  BY HealthInvReports
<1> QED
  BY <1>1, <1>2, <1>3, PTL DEF Hea!Spec

=============================================================================
