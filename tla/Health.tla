------------------------------- MODULE Health -------------------------------
(***************************************************************************)
(* The health report (justapi-core/src/health.rs): every registered probe  *)
(* runs at once, each under its own timeout, and the report lists them in  *)
(* the order of registration.                                              *)
(***************************************************************************)
EXTENDS Integers, Sequences

CONSTANTS
    Timeout,        \* check_timeout, in ticks
    MaxProbes, MaxNow

VARIABLES
    probes,         \* what each registered probe will answer; "hangs" never does
    pc,             \* "setup", "checks", "done"
    now,
    outcome,        \* per probe: "pending", or its status
    deadline,       \* per probe: when its timeout fires
    reply           \* [status, components], or none

vars == <<probes, pc, now, outcome, deadline, reply>>

Statuses == {"healthy", "degraded", "unhealthy"}
NoReply == [status |-> 0, components |-> <<>>]

Init ==
    /\ probes = <<>> /\ pc = "setup" /\ now = 0
    /\ outcome = <<>> /\ deadline = <<>> /\ reply = NoReply

\* Only before the registry is shared: it takes &mut self.
Register(kind) ==
    /\ pc = "setup" /\ Len(probes) < MaxProbes
    /\ probes' = Append(probes, kind)
    /\ UNCHANGED <<pc, now, outcome, deadline, reply>>

Deadlines_InTurn == [i \in DOMAIN probes |-> now + i * Timeout]

\* join_all polls every future at once: all the timeouts start together.
Deadlines == [i \in DOMAIN probes |-> now + Timeout]

CheckAll ==
    /\ pc = "setup"
    /\ pc' = "checks"
    /\ outcome' = [i \in DOMAIN probes |-> "pending"]
    /\ deadline' = Deadlines
    /\ UNCHANGED <<probes, now, reply>>

Answers(i) ==
    /\ pc = "checks" /\ outcome[i] = "pending" /\ probes[i] # "hangs"
    /\ outcome' = [outcome EXCEPT ![i] = probes[i]]
    /\ UNCHANGED <<probes, pc, now, deadline, reply>>

TimesOut(i) ==
    /\ pc = "checks" /\ outcome[i] = "pending" /\ deadline[i] <= now
    /\ outcome' = [outcome EXCEPT ![i] = "unhealthy"]
    /\ UNCHANGED <<probes, pc, now, deadline, reply>>

\* Time passes while a probe is out, but not past a timer that is due.
Tick ==
    /\ pc = "checks" /\ now < MaxNow
    /\ \E i \in DOMAIN outcome : outcome[i] = "pending"
    /\ \A i \in DOMAIN outcome : outcome[i] = "pending" => now < deadline[i]
    /\ now' = now + 1
    /\ UNCHANGED <<probes, pc, outcome, deadline, reply>>

Overall(components) ==
    LET has(s) == \E i \in DOMAIN components : components[i] = s
    IN IF has("unhealthy") THEN "unhealthy" ELSE IF has("degraded") THEN "degraded" ELSE "healthy"

\* Degraded still answers 200.
HealthResponse ==
    /\ pc = "checks" /\ \A i \in DOMAIN outcome : outcome[i] # "pending"
    /\ reply' = [status |-> IF Overall(outcome) = "unhealthy" THEN 503 ELSE 200, components |-> outcome]
    /\ pc' = "done"
    /\ UNCHANGED <<probes, now, outcome, deadline>>

Next ==
    \/ \E kind \in Statuses \cup {"hangs"} : Register(kind)
    \/ CheckAll \/ Tick \/ HealthResponse
    \/ \E i \in DOMAIN outcome : Answers(i) \/ TimesOut(i)

Spec == Init /\ [][Next]_vars

-----------------------------------------------------------------------------

\* The report is there within one timeout, however many probes hang; a probe
\* that answers in no time is never reported worse than it is; and the service
\* is unavailable exactly if a probe is unhealthy or was not there in time.
ReportsInTime ==
    /\ now <= Timeout
    /\ pc = "done" =>
          /\ Len(reply.components) = Len(probes)
          /\ now < Timeout => reply.components = probes
          /\ \A i \in DOMAIN probes : \/ reply.components[i] = probes[i]
                                      \/ reply.components[i] = "unhealthy" /\ now = Timeout
          /\ (reply.status = 503) <=> \E i \in DOMAIN probes : reply.components[i] = "unhealthy"

=============================================================================
