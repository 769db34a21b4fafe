------------------------------ MODULE Metrics ------------------------------
(***************************************************************************)
(* The metrics collector (justapi-core/src/metrics.rs): counters bumped    *)
(* one relaxed atomic at a time by requests that finish, and read one at a *)
(* time by a scrape.  The order in which the updates of one request become *)
(* visible is not fixed.  A latency is a number compared with the bounds.  *)
(***************************************************************************)
EXTENDS Integers, Sequences, FiniteSets, FiniteSetsExt, Folds

CONSTANTS
    Requests,
    Bounds,         \* LATENCY_BUCKETS_MS
    Latencies,      \* latencies requests may have
    Codes           \* status classes they may have, 1..5

VARIABLES
    cell,           \* the atomics
    recording,      \* per request: what it has still to add, and to which cells
    seen,           \* what the scrape has loaded, in the order of the loads
    overlap         \* history: requests under way during the scrape

vars == <<cell, recording, seen, overlap>>

Buckets == 1..Len(Bounds)
Classes == 2..5

\* The order in which LatencyHist::snapshot and snapshot load the cells.
Loads ==
    <<<<"count", 0>>, <<"sum", 0>>>> \o [i \in Buckets |-> <<"bucket", i>>]
        \o <<<<"requests", 0>>>> \o [i \in 1..4 |-> <<"status", i + 1>>]

Cells == {Loads[i] : i \in DOMAIN Loads}

Init ==
    /\ cell = [c \in Cells |-> 0]
    /\ recording = [r \in Requests |-> [pc |-> "new"]]
    /\ seen = <<>>
    /\ overlap = {}

-----------------------------------------------------------------------------

RecordRequest(r) ==
    /\ recording[r].pc = "new"
    /\ recording' = [recording EXCEPT ![r] = [pc |-> "runs"]]
    /\ cell' = [cell EXCEPT ![<<"requests", 0>>] = @ + 1]
    /\ overlap' = IF seen = <<>> THEN overlap ELSE overlap \cup {r}
    /\ UNCHANGED seen

RecordStatus(class) == IF class \in Classes THEN {<<"status", class>>} ELSE {}

BucketOf_Below(ms) == {i \in Buckets : ms < Bounds[i] /\ \A j \in 1..(i - 1) : ms >= Bounds[j]}

\* The first bucket whose bound is not below the latency, if there is one.
BucketOf(ms) == {i \in Buckets : ms <= Bounds[i] /\ \A j \in 1..(i - 1) : ms > Bounds[j]}

RecordLatency(ms) == {<<"count", 0>>, <<"sum", 0>>} \cup {<<"bucket", i>> : i \in BucketOf(ms)}

\* The end of a request: record_status and record_latency are called.
Finish(r, class, ms) ==
    /\ recording[r].pc = "runs"
    /\ recording' = [recording EXCEPT ![r] = [pc |-> "records", class |-> class, ms |-> ms,
                                        todo |-> RecordStatus(class) \cup RecordLatency(ms)]]
    /\ UNCHANGED <<cell, seen, overlap>>

\* One fetch_add becomes visible.
FetchAdd(r, c) ==
    /\ recording[r].pc = "records" /\ c \in recording[r].todo
    /\ cell' = [cell EXCEPT ![c] = @ + IF c[1] = "sum" THEN recording[r].ms ELSE 1]
    /\ recording' = [recording EXCEPT ![r].todo = @ \ {c},
                                      ![r].pc = IF recording[r].todo = {c} THEN "done" ELSE @]
    /\ UNCHANGED <<seen, overlap>>

-----------------------------------------------------------------------------

UnderWay == {r \in Requests : recording[r].pc \in {"runs", "records"}}

\* The next load of the scrape.
Load ==
    /\ Len(seen) < Len(Loads)
    /\ seen' = Append(seen, cell[Loads[Len(seen) + 1]])
    /\ overlap' = overlap \cup UnderWay
    /\ UNCHANGED <<cell, recording>>

\* prometheus: the scrape is rendered, every bucket as it is stored, and
\* forgotten.
Scraped ==
    /\ Len(seen) = Len(Loads)
    /\ seen' = <<>> /\ overlap' = {}
    /\ UNCHANGED <<cell, recording>>

Next ==
    \/ Load \/ Scraped
    \/ \E r \in Requests :
          \/ RecordRequest(r)
          \/ \E class \in Codes, ms \in Latencies : Finish(r, class, ms)
          \/ \E c \in Cells : FetchAdd(r, c)

Spec == Init /\ [][Next]_vars

-----------------------------------------------------------------------------

Value(c) == seen[CHOOSE i \in DOMAIN Loads : Loads[i] = c]

SumOf(f(_), S) == MapThenFoldSet(+, 0, f, LAMBDA T : CHOOSE x \in T : TRUE, S)

BucketSeen(i) == Value(<<"bucket", i>>)
StatusSeen(class) == Value(<<"status", class>>)

\* percentiles: the bound of the first bucket at which the running total
\* reaches the share num/den of the count, or else the last bound.
Percentile(num, den) ==
    LET reached == {i \in Buckets : den * SumOf(BucketSeen, 1..i) >= num * Value(<<"count", 0>>)}
    IN IF reached = {} THEN Bounds[Len(Bounds)] ELSE Bounds[Min(reached)]



Timed == {r \in Requests : recording[r].pc = "done"}
Within(bound) == {r \in Timed : recording[r].ms <= bound}
Shares == {<<50, 100>>, <<95, 100>>, <<99, 100>>, <<999, 1000>>}

\* The percentile of the latencies themselves, rounded up to a bound.
TruePercentile(num, den) ==
    LET covering == {i \in Buckets : den * Cardinality(Within(Bounds[i])) >= num * Cardinality(Timed)}
    IN IF covering = {} THEN Bounds[Len(Bounds)] ELSE Bounds[Min(covering)]

\* A snapshot during which no request was under way is exact: its count is the
\* requests, its percentiles are those of their latencies, and its statuses
\* add up to them, the informational ones aside.  In any other snapshot the
\* running total of percentiles, which ends at the number of latencies below
\* the last bound, is off from the count by no more than the requests that the
\* snapshot overlapped.  How the buckets are printed is left open.
ScrapeIsAccurate ==
    Len(seen) = Len(Loads) =>
        LET slow == Cardinality({r \in Timed : recording[r].ms > Bounds[Len(Bounds)]})
            count == Value(<<"count", 0>>)
            total == SumOf(BucketSeen, Buckets)
            slack == Cardinality(overlap)
        IN /\ overlap = {} =>
                /\ count = Cardinality(Timed)
                /\ Timed # {} => \A s \in Shares : Percentile(s[1], s[2]) = TruePercentile(s[1], s[2])
                /\ SumOf(StatusSeen, Classes) = Cardinality({r \in Timed : recording[r].class # 1})
           /\ total - count <= slack
           /\ count - total <= slow + slack

=============================================================================
