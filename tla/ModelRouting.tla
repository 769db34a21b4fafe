---------------------------- MODULE ModelRouting ----------------------------
(***************************************************************************)
(* The model registry (control_plane.rs) and the replica table with its    *)
(* selection (router.rs) of justapi-inference, as operations on values;    *)
(* each is atomic, under the lock of the structure it works on.            *)
(***************************************************************************)
EXTENDS Naturals, Sequences, SequencesExt

CONSTANT MaxConcurrency     \* Replica.max_concurrency

None == "none"

-----------------------------------------------------------------------------
(* Model records: [versions, default, routing].  A version is [version,    *)
(* created, aliases]; weights and runtime profiles are carried along.      *)

NewRecord == [versions |-> <<>>, default |-> None, routing |-> <<>>]

Matches(v, name) == v.version = name \/ name \in v.aliases

\* ModelRecord::add_version
AddVersion(record, v) ==
    LET same == {i \in DOMAIN record.versions : record.versions[i].version = v.version}
        versions == IF same = {} THEN Append(record.versions, v)
                    ELSE [record.versions EXCEPT ![CHOOSE i \in same : TRUE] = v]
    IN [record EXCEPT !.versions = versions,
                      !.default = IF @ = None THEN Last(versions).version ELSE @]

\* resolve_version: the first match, as a sequence of at most one version.
ResolveVersion(record, name) ==
    LET found == SelectSeq(record.versions, LAMBDA v : Matches(v, name))
    IN IF found = <<>> THEN <<>> ELSE <<Head(found)>>

\* latest_version: max_by_key keeps the last of several maxima.
LatestVersion(record) ==
    LET newest == SelectSeq(record.versions, LAMBDA v :
                    \A i \in DOMAIN record.versions : record.versions[i].created <= v.created)
    IN IF newest = <<>> THEN <<>> ELSE <<Last(newest)>>

\* Mutant: no version falls back to the latest one.
DefaultVersion_Only(record) == ResolveVersion(record, record.default)

DefaultVersion(record) ==
    LET default == ResolveVersion(record, record.default)
    IN IF default = <<>> THEN LatestVersion(record) ELSE default

\* ControlPlane::resolve, on the record of the model; routing is a sequence
\* of <<routing key, adapter>>, of which the last entry of a key counts.
Resolve(record, version, key) ==
    LET found   == IF version = None THEN DefaultVersion(record)
                   ELSE ResolveVersion(record, version)
        entries == SelectSeq(record.routing, LAMBDA e : e[1] = key)
    IN IF found = <<>> THEN <<>>
       ELSE <<[version |-> Head(found).version,
               adapter |-> IF entries = <<>> THEN None ELSE Last(entries)[2]]>>

-----------------------------------------------------------------------------
(* Replicas: [id, version, active, kv, healthy, adapters].                 *)

IsOverloaded(r) == r.active >= MaxConcurrency \/ r.kv >= 95

RegisterReplica(table, r) ==
    IF \E i \in DOMAIN table : table[i].id = r.id
    THEN [i \in DOMAIN table |-> IF table[i].id = r.id THEN r ELSE table[i]]
    ELSE Append(table, r)

RemoveReplica(table, id) == SelectSeq(table, LAMBDA r : r.id # id)

UpdateLoad(table, id, active, kv, healthy) ==
    [i \in DOMAIN table |->
        IF table[i].id = id
        THEN [table[i] EXCEPT !.active = active, !.kv = kv, !.healthy = healthy]
        ELSE table[i]]

SetLoadedAdapters(table, id, adapters) ==
    [i \in DOMAIN table |->
        IF table[i].id = id THEN [table[i] EXCEPT !.adapters = adapters] ELSE table[i]]

\* Mutant: the adapter of a request is not looked at.
Candidates_AnyAdapter(table, resolved) ==
    SelectSeq(table, LAMBDA r :
        r.version = resolved.version /\ r.healthy /\ ~IsOverloaded(r))

Candidates(table, resolved) ==
    SelectSeq(table, LAMBDA r :
        /\ r.version = resolved.version
        /\ r.healthy
        /\ ~IsOverloaded(r)
        /\ resolved.adapter # None => resolved.adapter \in r.adapters)

\* The first candidate of the least active or kv.
Least(s, key) ==
    LET best == {i \in DOMAIN s : \A j \in DOMAIN s : s[i][key] <= s[j][key]}
    IN s[CHOOSE i \in best : \A j \in best : i <= j]

\* Router::route, on candidates that are not empty.
Chosen(strategy, candidates, rr) ==
    CASE strategy = "LeastLoaded"      -> Least(candidates, "active")
      [] strategy = "LowestKvPressure" -> Least(candidates, "kv")
      [] strategy = "RoundRobin"       -> candidates[(rr % Len(candidates)) + 1]
=============================================================================
