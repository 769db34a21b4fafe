--------------------------- MODULE CircuitBreaker ---------------------------
(***************************************************************************)
(* One circuit breaker and the requests that pass through it               *)
(* (justapi-core/src/resilience.rs).  try_acquire, record_success and      *)
(* record_failure each run under the breaker's lock; between them a        *)
(* request spends any time in the rest of the chain, so results are        *)
(* recorded in any order and in a later state than the one that admitted   *)
(* the request.  A request whose future is dropped records nothing.        *)
(*                                                                         *)
(* Time is reduced to the one fact the code asks of it: whether            *)
(* open_timeout has elapsed since the breaker opened.                      *)
(***************************************************************************)
EXTENDS Naturals, FiniteSetTheorems, TLAPS

CONSTANTS
    Requests,           \* request slots; a slot serves one request at a time
    FailureThreshold,
    SuccessThreshold,
    HalfOpenMax         \* half_open_max_requests

ASSUME BreakerAssumption ==
    /\ FailureThreshold \in Nat \ {0}
    /\ SuccessThreshold \in Nat \ {0}
    /\ HalfOpenMax \in Nat

VARIABLES
    state,          \* BreakerState
    elapsed,        \* Open only: open_timeout has elapsed
    failureCount,
    successCount,
    halfOpenUsed,
    running,        \* requests inside next.run
    fresh,          \* history: the running requests that were admitted since
                    \* the breaker last changed its state
    streak,         \* history: failures recorded in a row, in any state,
                    \* counted up to FailureThreshold
    lost            \* history: slots whose probe was dropped since the
                    \* breaker last became half-open

vars == <<state, elapsed, failureCount, successCount, halfOpenUsed, running,
          fresh, streak, lost>>

TypeOK ==
    /\ state \in {"Closed", "Open", "HalfOpen"}
    /\ elapsed \in BOOLEAN
    /\ failureCount \in 0..FailureThreshold
    /\ successCount \in 0..SuccessThreshold
    /\ halfOpenUsed \in 0..HalfOpenMax
    /\ running \subseteq Requests
    /\ fresh \subseteq running
    /\ streak \in 0..FailureThreshold
    /\ lost \subseteq Requests

Init ==
    /\ state = "Closed"
    /\ elapsed = FALSE
    /\ failureCount = 0
    /\ successCount = 0
    /\ halfOpenUsed = 0
    /\ running = {}
    /\ fresh = {}
    /\ streak = 0
    /\ lost = {}

-----------------------------------------------------------------------------
\* open_timeout passes.
Elapse ==
    /\ state = "Open"
    /\ ~elapsed
    /\ elapsed' = TRUE
    /\ UNCHANGED <<state, failureCount, successCount, halfOpenUsed, running,
                   fresh, streak, lost>>

AdmitClosed(r) ==
    /\ state = "Closed"
    /\ r \notin running
    /\ running' = running \cup {r}
    /\ fresh' = fresh \cup {r}
    /\ UNCHANGED <<state, elapsed, failureCount, successCount, halfOpenUsed,
                   streak, lost>>

\* Mutant: the request that half-opens the breaker is counted as a probe.
AdmitFirstProbeCounted(r) ==
    /\ state = "Open"
    /\ elapsed
    /\ r \notin running
    /\ state' = "HalfOpen"
    /\ halfOpenUsed' = 1
    /\ successCount' = 0
    /\ running' = running \cup {r}
    /\ fresh' = {r}
    /\ lost' = {}
    /\ UNCHANGED <<elapsed, failureCount, streak>>

\* The first request after the timeout half-opens the breaker; it is let
\* through without being counted in half_open_used.
AdmitFirstProbe(r) ==
    /\ state = "Open"
    /\ elapsed
    /\ r \notin running
    /\ state' = "HalfOpen"
    /\ halfOpenUsed' = 0
    /\ successCount' = 0
    /\ running' = running \cup {r}
    /\ fresh' = {r}
    /\ lost' = {}
    /\ UNCHANGED <<elapsed, failureCount, streak>>

AdmitProbe(r) ==
    /\ state = "HalfOpen"
    /\ r \notin running
    /\ halfOpenUsed < HalfOpenMax
    /\ halfOpenUsed' = halfOpenUsed + 1
    /\ running' = running \cup {r}
    /\ fresh' = fresh \cup {r}
    /\ UNCHANGED <<state, elapsed, failureCount, successCount, streak, lost>>

\* try_acquire refuses: the client gets 503 and the breaker is unchanged.
Refuse(r) ==
    /\ r \notin running
    /\ \/ state = "Open" /\ ~elapsed
       \/ state = "HalfOpen" /\ halfOpenUsed = HalfOpenMax
    /\ UNCHANGED vars

-----------------------------------------------------------------------------
Leaves(r) ==
    /\ r \in running
    /\ running' = running \ {r}

\* The state stays, or changes and makes every running request an old one.
Stay(r) == state' = state /\ fresh' = fresh \ {r}
Become(s) == state' = s /\ fresh' = {}

CountFailure == IF streak < FailureThreshold THEN streak + 1 ELSE streak

\* Mutant: a success of the closed breaker leaves the failure count alone.
SucceedUncounted(r) ==
    /\ Leaves(r)
    /\ streak' = 0
    /\ \/ /\ state = "HalfOpen"
          /\ successCount + 1 < SuccessThreshold
          /\ successCount' = successCount + 1
          /\ Stay(r)
          /\ UNCHANGED failureCount
       \/ /\ state = "HalfOpen"
          /\ successCount + 1 >= SuccessThreshold
          /\ Become("Closed")
          /\ failureCount' = 0
          /\ successCount' = 0
       \/ /\ state # "HalfOpen"
          /\ Stay(r)
          /\ UNCHANGED <<failureCount, successCount>>
    /\ UNCHANGED <<elapsed, halfOpenUsed, lost>>

\* record_success, for whatever state the breaker is in by now.
Succeed(r) ==
    /\ Leaves(r)
    /\ streak' = 0
    /\ \/ /\ state = "HalfOpen"
          /\ successCount + 1 < SuccessThreshold
          /\ successCount' = successCount + 1
          /\ Stay(r)
          /\ UNCHANGED failureCount
       \/ /\ state = "HalfOpen"
          /\ successCount + 1 >= SuccessThreshold
          /\ Become("Closed")
          /\ failureCount' = 0
          /\ successCount' = 0
       \/ /\ state = "Closed"
          /\ Stay(r)
          /\ failureCount' = 0
          /\ UNCHANGED successCount
       \/ /\ state = "Open"
          /\ Stay(r)
          /\ UNCHANGED <<failureCount, successCount>>
    /\ UNCHANGED <<elapsed, halfOpenUsed, lost>>

\* record_failure: a server error or an Err, recorded in the present state.
Fail(r) ==
    /\ Leaves(r)
    /\ streak' = CountFailure
    /\ \/ /\ state = "Closed"
          /\ failureCount + 1 < FailureThreshold
          /\ failureCount' = failureCount + 1
          /\ Stay(r)
          /\ UNCHANGED elapsed
       \/ /\ \/ state = "Closed" /\ failureCount + 1 >= FailureThreshold
             \/ state = "HalfOpen"
          /\ Become("Open")
          /\ elapsed' = FALSE
          /\ failureCount' = 0
       \/ /\ state = "Open"
          /\ Stay(r)
          /\ UNCHANGED <<elapsed, failureCount>>
    /\ UNCHANGED <<successCount, halfOpenUsed, lost>>

\* The future of the request is dropped inside next.run.
Cancel(r) ==
    /\ Leaves(r)
    /\ Stay(r)
    /\ lost' = IF state = "HalfOpen" /\ r \in fresh THEN lost \cup {r} ELSE lost
    /\ UNCHANGED <<elapsed, failureCount, successCount, halfOpenUsed, streak>>

-----------------------------------------------------------------------------
Admit(r) == AdmitClosed(r) \/ AdmitFirstProbe(r) \/ AdmitProbe(r)

Next ==
    \/ Elapse
    \/ \E r \in Requests :
        Admit(r) \/ Refuse(r) \/ Succeed(r) \/ Fail(r) \/ Cancel(r)

Spec == Init /\ [][Next]_vars

\* Time passes, requests keep coming, and those inside the chain return.
FairSpec ==
    /\ Spec
    /\ WF_vars(Elapse)
    /\ WF_vars(\E r \in Requests : Admit(r))
    /\ \A r \in Requests : WF_vars(Succeed(r) \/ Fail(r))

-----------------------------------------------------------------------------
\* In each state the counters are below the thresholds that would have ended
\* it, and the failure count of a closed breaker starts at zero: record_* run
\* to the end of a transition, whatever order the results come in.
CountersBelowThresholds ==
    /\ state = "Closed" => failureCount < FailureThreshold /\ successCount = 0
    /\ state = "HalfOpen" => successCount < SuccessThreshold
    /\ state # "Closed" => failureCount = 0

\* A half-open breaker has at most half_open_max_requests probes out besides
\* the one that half-opened it, however many old requests still run.
ProbesBounded == state = "HalfOpen" => Cardinality(fresh) <= HalfOpenMax + 1

\* A closed breaker opens only on FailureThreshold failures in a row: a
\* success recorded in between, in any state, starts the count anew.
OpensAfterConsecutiveFailures ==
    [][state = "Closed" /\ state' = "Open" => streak' = FailureThreshold]_vars

\* The breaker leaves the half-open state unless one of its probes is dropped
\* inside next.run: the slot of such a probe is never given back.  It relies
\* on the uncounted first probe where SuccessThreshold = HalfOpenMax + 1.
HalfOpenEnds == state = "HalfOpen" ~> state # "HalfOpen" \/ lost # {}

-----------------------------------------------------------------------------
(* Proofs, for any thresholds and any number of concurrent requests.       *)
(*                                                                         *)
(* The invariant adds to the checked ones that failure_count never exceeds *)
(* the failures in a row, and that half_open_used counts every probe but   *)
(* the first.                                                              *)

BreakerInv ==
    /\ TypeOK
    /\ CountersBelowThresholds
    /\ failureCount <= streak

ProbeInv ==
    /\ IsFiniteSet(fresh)
    /\ state = "HalfOpen" => Cardinality(fresh) <= halfOpenUsed + 1

\* Every breaker operation keeps the counters typed, below their thresholds
\* and no larger than the failures in a row.
LEMMA BreakerStep == BreakerInv /\ [Next]_vars => BreakerInv'
<1> SUFFICES ASSUME BreakerInv, [Next]_vars PROVE BreakerInv'
  OBVIOUS
<1> USE BreakerAssumption
    DEF BreakerAssumption, BreakerInv, TypeOK, CountersBelowThresholds
<1>1. CASE UNCHANGED vars
  BY <1>1 DEF vars
<1>2. CASE Elapse
  BY <1>2 DEF Elapse
<1>3. ASSUME NEW r \in Requests, Admit(r) PROVE BreakerInv'
  <2>1. CASE AdmitClosed(r)
    BY <2>1 DEF AdmitClosed
  <2>2. CASE AdmitFirstProbe(r)
    BY <2>2 DEF AdmitFirstProbe
  <2>3. CASE AdmitProbe(r)
    BY <2>3 DEF AdmitProbe
  <2> QED BY <1>3, <2>1, <2>2, <2>3 DEF Admit
<1>4. ASSUME NEW r \in Requests, Succeed(r) PROVE BreakerInv'
  BY <1>4 DEF Succeed, Leaves, Stay, Become
<1>5. ASSUME NEW r \in Requests, Fail(r) PROVE BreakerInv'
  <2> USE <1>5 DEF Fail, Leaves, CountFailure
  <2>1. CASE Stay(r) /\ UNCHANGED <<elapsed, failureCount>>
    BY <2>1 DEF Stay
  <2>2. CASE /\ state = "Closed" /\ failureCount + 1 < FailureThreshold
             /\ failureCount' = failureCount + 1 /\ Stay(r) /\ elapsed' = elapsed
    BY <2>2 DEF Stay
  <2>3. CASE Become("Open") /\ elapsed' = FALSE /\ failureCount' = 0
    <3>1. elapsed' \in BOOLEAN
      BY <2>3, Zenon
    <3> QED BY <2>3, <3>1 DEF Become
  <2> QED BY <2>1, <2>2, <2>3
<1>6. ASSUME NEW r \in Requests, Cancel(r) PROVE BreakerInv'
  BY <1>6 DEF Cancel, Leaves, Stay
<1>7. ASSUME NEW r \in Requests, Refuse(r) PROVE BreakerInv'
  BY <1>7 DEF Refuse, vars
<1> QED BY <1>1, <1>2, <1>3, <1>4, <1>5, <1>6, <1>7 DEF Next

\* The breaker always satisfies the counter invariant.
THEOREM BreakerInvariant == Spec => []BreakerInv
<1>1. Init => BreakerInv
  <2>1. Init => elapsed \in BOOLEAN
    BY Zenon DEF Init
  <2> QED
    BY <2>1, BreakerAssumption
       DEF Init, BreakerInv, TypeOK, CountersBelowThresholds, BreakerAssumption
<1> QED BY <1>1, BreakerStep, PTL DEF Spec

\* No breaker rests in a state whose threshold it has reached, in whatever
\* order try_acquire, record_success and record_failure interleave.
THEOREM CountersStayBelow == Spec => []CountersBelowThresholds
  BY BreakerInvariant, PTL DEF BreakerInv

\* A closed breaker opens only after FailureThreshold failures in a row.
THEOREM OpeningIsJustified == Spec => OpensAfterConsecutiveFailures
<1> DEFINE Justified ==
        state = "Closed" /\ state' = "Open" => streak' = FailureThreshold
<1>1. BreakerInv /\ [Next]_vars => [Justified]_vars
  <2> SUFFICES ASSUME BreakerInv, Next, state = "Closed", state' = "Open"
               PROVE  streak' = FailureThreshold
    OBVIOUS
  <2>1. PICK r \in Requests : Fail(r)
    BY DEF Next, Elapse, Admit, AdmitClosed, AdmitFirstProbe, AdmitProbe,
           Refuse, Succeed, Cancel, Stay, Become, vars
  <2> QED
    BY <2>1, BreakerAssumption
       DEF Fail, Stay, CountFailure, BreakerInv, TypeOK, BreakerAssumption
<1> QED BY <1>1, BreakerInvariant, PTL DEF Spec, OpensAfterConsecutiveFailures

\* Admissions and results keep the count of running probes.
LEMMA ProbeStep == BreakerInv /\ ProbeInv /\ [Next]_vars => ProbeInv'
<1> SUFFICES ASSUME BreakerInv, ProbeInv, [Next]_vars PROVE ProbeInv'
  OBVIOUS
<1> USE BreakerAssumption DEF BreakerAssumption, BreakerInv, TypeOK, ProbeInv
<1>0. Cardinality(fresh) \in Nat
  BY FS_CardinalityType
<1>1. CASE fresh' = fresh /\ state' = state /\ halfOpenUsed' = halfOpenUsed
  BY <1>1
<1>2. CASE fresh' = {}
  BY <1>2, FS_EmptySet, BreakerStep
<1>3. ASSUME NEW r \in Requests, Stay(r), halfOpenUsed' = halfOpenUsed
      PROVE  ProbeInv'
  BY <1>0, <1>3, FS_RemoveElement DEF Stay
<1>4. ASSUME NEW r \in Requests, Admit(r) PROVE ProbeInv'
  <2>1. CASE AdmitClosed(r)
    <3>1. IsFiniteSet(fresh')
      BY <2>1, FS_AddElement DEF AdmitClosed
    <3> QED BY <2>1, <3>1 DEF AdmitClosed
  <2>2. CASE AdmitFirstProbe(r)
    <3>1. IsFiniteSet(fresh') /\ Cardinality(fresh') = 1
      BY <2>2, FS_Singleton DEF AdmitFirstProbe
    <3> QED BY <2>2, <3>1 DEF AdmitFirstProbe
  <2>3. CASE AdmitProbe(r)
    <3>1. r \notin fresh /\ fresh' = fresh \cup {r}
      BY <2>3 DEF AdmitProbe
    <3>2. IsFiniteSet(fresh') /\ Cardinality(fresh') = Cardinality(fresh) + 1
      BY <3>1, FS_AddElement
    <3> QED BY <1>0, <2>3, <3>2 DEF AdmitProbe
  <2> QED BY <1>4, <2>1, <2>2, <2>3 DEF Admit
<1>5. ASSUME NEW r \in Requests, Succeed(r) PROVE ProbeInv'
  BY <1>2, <1>3, <1>5 DEF Succeed, Become
<1>6. ASSUME NEW r \in Requests, Fail(r) PROVE ProbeInv'
  BY <1>2, <1>3, <1>6 DEF Fail, Become
<1> QED
  BY <1>1, <1>3, <1>4, <1>5, <1>6 DEF Next, Elapse, Refuse, Cancel, vars

\* At most half_open_max_requests + 1 probes of one half-open period run at
\* a time.
THEOREM ProbesStayBounded == Spec => []ProbesBounded
<1>1. Init => ProbeInv
  BY FS_EmptySet DEF Init, ProbeInv
<1>2. BreakerInv /\ ProbeInv => ProbesBounded
  BY FS_CardinalityType, BreakerAssumption
     DEF BreakerInv, ProbeInv, ProbesBounded, TypeOK, BreakerAssumption
<1> QED BY <1>1, <1>2, BreakerInvariant, ProbeStep, PTL DEF Spec
=============================================================================
