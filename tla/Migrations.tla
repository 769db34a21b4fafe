----------------------------- MODULE Migrations -----------------------------
(***************************************************************************)
(* The migrator (justapi-core/src/db/migrations.rs): several processes     *)
(* that run or roll back migrations of one directory on one database, each *)
(* statement committing by itself, with crashes between any two of them.   *)
(*                                                                         *)
(* What a migration's SQL does to the schema is how often it is applied: a *)
(* strict one (CREATE TABLE) fails when it is applied already, a loose one *)
(* (INSERT) is applied again, and undoing what is not there fails.  A      *)
(* script of several statements may fail after the first of them.          *)
(***************************************************************************)
EXTENDS Naturals, Sequences

CONSTANTS
    Processes,
    Directories,    \* what read_dir may yield: sequences of [version, named, down]
    Strict,         \* versions whose UP fails when it is applied already
    Scripted,       \* versions whose UP and DOWN have several statements
    MaxCalls,       \* bound: calls to run() and rollback_one()
    MaxCrashes      \* bound

\* Versions are u64 numbers.
ASSUME DirectoriesAssumption == Directories \subseteq Seq([version : Nat, named : BOOLEAN, down : BOOLEAN])

VARIABLES
    dir,        \* the directory, in the order read_dir yields it
    applied,    \* how often each version's UP is in the schema
    tracking,   \* _justapi_migrations exists
    tracked,    \* the versions it holds
    proc,       \* each process: where it is, its snapshot, the files it ran and the one it is at
    calls, crashes,
    torn        \* versions whose statements were separated (history)

migVars == <<dir, applied, tracking, tracked, proc, calls, crashes, torn>>

Versions == UNION {{d[i].version : i \in DOMAIN d} : d \in Directories}
Idle == [pc |-> "idle", op |-> "none", snap |-> {}, ran |-> {}, file |-> 0]

MigratorInit ==
    /\ dir \in Directories
    /\ applied = [v \in Versions |-> 0]
    /\ tracking = FALSE
    /\ tracked = {}
    /\ proc = [p \in Processes |-> Idle]
    /\ calls = 0 /\ crashes = 0
    /\ torn = {}

-----------------------------------------------------------------------------

\* discover: a .sql file with another name fails the call.
Discover(p, op) ==
    /\ proc[p].pc = "idle" /\ calls < MaxCalls
    /\ calls' = calls + 1
    /\ proc' = IF \A i \in DOMAIN dir : dir[i].named
               THEN [proc EXCEPT ![p] = [Idle EXCEPT !.pc = IF op = "run" THEN "ensure" ELSE "read", !.op = op]]
               ELSE proc
    /\ UNCHANGED <<dir, applied, tracking, tracked, crashes, torn>>

Before_AsRead(i, j) == i < j

\* The order of discover's stable sort: files of one version stay as they were read.
Before(i, j) == dir[i].version < dir[j].version \/ (dir[i].version = dir[j].version /\ i < j)

FirstOf(S) == {i \in S : \A j \in S \ {i} : Before(i, j)}

EnsureTrackingTable(p) ==
    /\ proc[p].pc = "ensure"
    /\ tracking' = TRUE
    /\ proc' = [proc EXCEPT ![p].pc = "read"]
    /\ UNCHANGED <<dir, applied, tracked, calls, crashes, torn>>

\* get_applied_versions; rollback_one may find no table.
GetAppliedVersions(p) ==
    /\ proc[p].pc = "read"
    /\ proc' = [proc EXCEPT ![p] = IF tracking THEN [@ EXCEPT !.pc = "execute", !.snap = tracked] ELSE Idle]
    /\ UNCHANGED <<dir, applied, tracking, tracked, calls, crashes, torn>>

\* What the call executes next: the first file not run yet whose version the
\* snapshot lacks, or the first file of the highest version that the snapshot
\* holds, if it has a DOWN section; none ends the call.
Pending(q) == {i \in DOMAIN dir : dir[i].version \notin q.snap /\ i \notin q.ran}
Newest(q) == {i \in DOMAIN dir : dir[i].version \in q.snap /\ \A w \in q.snap : w <= dir[i].version}
Current(q) == IF q.op = "run" THEN FirstOf(Pending(q)) ELSE {i \in FirstOf(Newest(q)) : dir[i].down}

\* The statement on its own: the schema after it, or none.
CanExecute(q, v) == IF q.op = "run" THEN v \in Strict => applied[v] = 0 ELSE applied[v] > 0
Effect(q, v) == [applied EXCEPT ![v] = IF q.op = "run" THEN @ + 1 ELSE 0]

\* The process is between the two statements of the version.
Books(p, v) == proc[p].pc = "book" /\ dir[proc[p].file].version = v

\* Another process is between the two statements of the same version, or the
\* version that is run is in the table by now.
Overlaps(p, v) ==
    \/ \E r \in Processes \ {p} : Books(r, v)
    \/ proc[p].op = "run" /\ v \in tracked

\* The engine may refuse any statement: that ends the call with an error, and
\* a script is not undone.
Executes(p, i) ==
    LET v == dir[i].version
    IN \/ /\ CanExecute(proc[p], v)
          /\ applied' = Effect(proc[p], v)
          /\ proc' = [proc EXCEPT ![p] = [@ EXCEPT !.pc = "book", !.file = i]]
          /\ torn' = IF Overlaps(p, v) THEN torn \cup {v} ELSE torn
       \/ /\ v \in Scripted /\ CanExecute(proc[p], v)
          /\ applied' = Effect(proc[p], v)
          /\ proc' = [proc EXCEPT ![p] = Idle]
          /\ torn' = torn \cup {v}
       \/ proc' = [proc EXCEPT ![p] = Idle] /\ UNCHANGED <<applied, torn>>

\* run() with its record before its statement.
ExecuteSql_BookedFirst(p) ==
    /\ proc[p].pc = "execute"
    /\ \E i \in Current(proc[p]) :
          /\ tracked' = IF proc[p].op = "run" THEN tracked \cup {dir[i].version} ELSE tracked
          /\ Executes(p, i)
    /\ UNCHANGED <<dir, tracking, calls, crashes>>

ExecuteSql(p) ==
    /\ proc[p].pc = "execute"
    /\ \/ \E i \in Current(proc[p]) : Executes(p, i)
       \/ /\ Current(proc[p]) = {}
          /\ proc' = [proc EXCEPT ![p] = Idle]
          /\ UNCHANGED <<applied, torn>>
    /\ UNCHANGED <<dir, tracking, tracked, calls, crashes>>

\* record_migration (which ignores a conflict) and remove_migration.
RecordMigration(p) ==
    /\ proc[p].pc = "book" /\ proc[p].op = "run"
    /\ tracked' = tracked \cup {dir[proc[p].file].version}
    /\ proc' = [proc EXCEPT ![p] = [@ EXCEPT !.pc = "execute", !.ran = proc[p].ran \cup {proc[p].file}]]
    /\ UNCHANGED <<dir, applied, tracking, calls, crashes, torn>>

RemoveMigration(p) ==
    /\ proc[p].pc = "book" /\ proc[p].op = "rollback_one"
    /\ tracked' = tracked \ {dir[proc[p].file].version}
    /\ proc' = [proc EXCEPT ![p] = Idle]
    /\ UNCHANGED <<dir, applied, tracking, calls, crashes, torn>>

\* The process dies, or loses the database and returns the error.
Crash(p) ==
    /\ proc[p].pc # "idle" /\ crashes < MaxCrashes
    /\ crashes' = crashes + 1
    /\ torn' = torn \cup {v \in Versions : Books(p, v)}
    /\ proc' = [proc EXCEPT ![p] = Idle]
    /\ UNCHANGED <<dir, applied, tracking, tracked, calls>>

MigratorNext ==
    \E p \in Processes :
        \/ \E op \in {"run", "rollback_one"} : Discover(p, op)
        \/ EnsureTrackingTable(p) \/ GetAppliedVersions(p) \/ ExecuteSql(p)
        \/ RecordMigration(p) \/ RemoveMigration(p) \/ Crash(p)

MigratorSpec == MigratorInit /\ [][MigratorNext]_migVars

-----------------------------------------------------------------------------

\* The table tells the truth about the schema: a version is tracked exactly
\* when its UP is applied once, whatever calls overlapped, failed or crashed,
\* except while a call is between the script of that version and its row, and
\* except for versions where a crash or an overlapping call came between them,
\* whose script failed half-way, or whose UP was run when they were tracked
\* already (two files of one version).
TableTellsTheTruth ==
    \A v \in Versions \ torn :
        (\A p \in Processes : ~Books(p, v)) => applied[v] = IF v \in tracked THEN 1 ELSE 0

\* run() applies a version only when every lower version of its directory was
\* tracked as it began or has been applied by it, and rollback_one() undoes no
\* version below one that it found tracked.
AppliedInOrder ==
    \A p \in Processes : proc[p].pc = "book" =>
        \A i \in DOMAIN dir :
            IF proc[p].op = "run"
            THEN dir[i].version < dir[proc[p].file].version => dir[i].version \in proc[p].snap \/ i \in proc[p].ran
            ELSE dir[i].version > dir[proc[p].file].version => dir[i].version \notin proc[p].snap

\* Migrations are applied in order and truly booked, whatever processes
\* overlap and crash.
MigrationsAreSound == TableTellsTheTruth /\ AppliedInOrder

=============================================================================
