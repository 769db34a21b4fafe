-------------------------- MODULE ResilienceProofs --------------------------
(***************************************************************************)
(* Proofs about the resilience chain, for any number of requests and       *)
(* paths, any bulkhead, any limit on the breakers and any fallbacks.       *)
(*                                                                         *)
(* That a trip holds is not inductive: a request carries the breaker it    *)
(* found through several steps in which the table may evict that breaker   *)
(* and create another one.  The invariant ties what a request carries to   *)
(* the table by the number of evictions its path had then: as long as that *)
(* number has not grown the table still holds this very breaker, so every  *)
(* request with the same number carries the same one.                      *)
(***************************************************************************)
EXTENDS Resilience, FiniteSetTheorems, TLAPS

Places   == {"new", "wait", "find", "create", "acquire", "chaos", "handler", "done"}
Statuses == {0, 200, 404, 499, 500, 502, 503, 504} \cup {f.status : f \in Fallbacks \cup Default}

ChainType ==
    /\ permits \in Nat
    /\ DOMAIN table \subseteq Paths
    /\ table \in [DOMAIN table -> Nat]
    /\ made \in Nat
    /\ req \in [Clients -> [pc : Places, cell : Nat, era : Nat, status : Statuses]]
    /\ evicted \in [Paths -> Nat]
    /\ tripped \subseteq Paths \X Nat

Holders == {r \in Clients : HoldsPermit(r)}

PermitsAddUp == permits + Cardinality(Holders) = MaxConcurrent

\* The client of a path is given this status: if the path has a fallback, it is
\* no failure of the chain.
Shown(p, s) ==
    FallbackFor(p) # {} => s \in {200, 404, 499} \cup {f.status : f \in FallbackFor(p)}

FallbacksAnswer == \A r \in Clients : req[r].pc = "done" => Shown(PathOf[r], req[r].status)

\* The request carries a breaker.
Carries(r) == req[r].pc \in {"acquire", "chaos", "handler"}

CarriedIsCurrent ==
    \A r \in Clients : Carries(r) =>
        /\ req[r].era <= evicted[PathOf[r]]
        /\ req[r].era = evicted[PathOf[r]] =>
               PathOf[r] \in DOMAIN table /\ table[PathOf[r]] = req[r].cell

OneBreakerPerEra ==
    \A r, s \in Clients :
        Carries(r) /\ Carries(s) /\ PathOf[r] = PathOf[s] /\ req[r].era = req[s].era =>
            req[r].cell = req[s].cell

TrippedIsOpen ==
    /\ \A p \in Paths, e \in Nat : <<p, e>> \in tripped =>
           /\ e <= evicted[p]
           /\ e = evicted[p] => p \in DOMAIN table /\ table[p] \in open
    /\ \A r \in Clients : Carries(r) /\ <<PathOf[r], req[r].era>> \in tripped => req[r].cell \in open

BreakersInv == CarriedIsCurrent /\ OneBreakerPerEra /\ TrippedIsOpen

ChainInv == ChainType /\ PermitsAddUp /\ FallbacksAnswer /\ BreakersInv

-----------------------------------------------------------------------------
(* Lemmas about the operators *)

\* A request gets a place in the chain, a breaker and an era of its own.
LEMMA AtHas ==
    ASSUME NEW pc, NEW cell, NEW era, NEW status
    PROVE  /\ At(pc, cell, era, status).pc = pc
           /\ At(pc, cell, era, status).cell = cell
           /\ At(pc, cell, era, status).era = era
           /\ At(pc, cell, era, status).status = status
           /\ pc \in Places /\ cell \in Nat /\ era \in Nat /\ status \in Statuses =>
                 At(pc, cell, era, status) \in [pc : Places, cell : Nat, era : Nat, status : Statuses]
  BY DEF At

\* FallbackPolicy: with a fallback for the path, only an answer below 500 gets
\* through as it is.
LEMMA FallbackReplaces ==
    ASSUME NEW p, NEW status \in {0, 200, 404, 500, 502, 503, 504}, NEW s \in FallbackHandle(p, status)
    PROVE  s \in Statuses /\ Shown(p, s)
<1>1. FallbackFor(p) \subseteq Fallbacks \cup Default
  BY DEF FallbackFor
<1>2. CASE (status = 0 \/ status >= 500) /\ FallbackFor(p) # {}
  BY <1>1, <1>2 DEF FallbackHandle, Statuses, Shown
<1>3. CASE ~((status = 0 \/ status >= 500) /\ FallbackFor(p) # {})
  BY <1>3 DEF FallbackHandle, Statuses, Shown
<1> QED BY <1>2, <1>3

\* The requests that hold a permit are finitely many.
LEMMA HoldersAreFinite == IsFiniteSet(Holders) /\ Cardinality(Holders) \in Nat
<1>1. Holders \in SUBSET Clients /\ IsFiniteSet(Clients)
  BY ChainAssumption DEF Holders, ChainAssumption
<1> QED BY <1>1, FS_Subset, FS_CardinalityType

-----------------------------------------------------------------------------
(* Permits *)

\* A step of one request that keeps its permit, or is without one before and
\* after, leaves the semaphore alone.
LEMMA PermitKept ==
    ASSUME NEW r \in Clients, ChainType, PermitsAddUp, permits' = permits,
           \A s \in Clients \ {r} : req'[s] = req[s], HoldsPermit(r)' <=> HoldsPermit(r)
    PROVE  PermitsAddUp'
<1>1. Holders' = Holders
  BY DEF Holders, HoldsPermit
<1> QED BY <1>1 DEF PermitsAddUp

\* acquire() takes one permit for the request.
LEMMA PermitTaken ==
    ASSUME NEW r \in Clients, ChainType, PermitsAddUp, permits' = permits - 1,
           \A s \in Clients \ {r} : req'[s] = req[s], ~HoldsPermit(r), HoldsPermit(r)'
    PROVE  PermitsAddUp'
<1>1. Holders' = Holders \cup {r} /\ r \notin Holders
  BY DEF Holders, HoldsPermit
<1>2. Cardinality(Holders') = Cardinality(Holders) + 1
  BY <1>1, HoldersAreFinite, FS_AddElement
<1> QED BY <1>2, HoldersAreFinite DEF PermitsAddUp, ChainType

\* The permit guard is dropped with the request.
LEMMA PermitReturned ==
    ASSUME NEW r \in Clients, ChainType, PermitsAddUp,
           permits' = IF HoldsPermit(r) THEN permits + 1 ELSE permits,
           \A s \in Clients \ {r} : req'[s] = req[s], ~HoldsPermit(r)'
    PROVE  PermitsAddUp'
<1>1. CASE HoldsPermit(r)
  <2>1. Holders' = Holders \ {r} /\ r \in Holders
    BY <1>1 DEF Holders, HoldsPermit
  <2>2. Cardinality(Holders') = Cardinality(Holders) - 1
    BY <2>1, HoldersAreFinite, FS_RemoveElement
  <2> QED BY <1>1, <2>2, HoldersAreFinite DEF PermitsAddUp, ChainType
<1>2. CASE ~HoldsPermit(r)
  BY <1>2, PermitKept
<1> QED BY <1>1, <1>2

-----------------------------------------------------------------------------
(* The steps *)

\* The request is gone, with this status for its client.
LeftWith(r, s) ==
    /\ req' = [req EXCEPT ![r] = At("done", 0, 0, s)]
    /\ permits' = IF HoldsPermit(r) THEN permits + 1 ELSE permits

\* A failure of the request was recorded in its breaker.
FailureRecorded(r) ==
    /\ Carries(r)
    /\ open' = open \cup {req[r].cell}
    /\ tripped' = tripped \cup {<<PathOf[r], req[r].era>>}

\* A request leaves the chain, by an answer, a refusal, a timeout or a drop;
\* on the way out its result may be recorded in the breaker it carries.
LEMMA LeavingKeeps ==
    ASSUME ChainInv, NEW r \in Clients, NEW s \in Statuses,
           Shown(PathOf[r], s),
           LeftWith(r, s), UNCHANGED <<table, made, evicted>>,
           UNCHANGED <<open, tripped>> \/ FailureRecorded(r)
    PROVE  ChainInv'
<1> USE DEF ChainInv, LeftWith, FailureRecorded
<1>1. /\ req'[r].pc = "done" /\ req'[r].status = s
      /\ \A q \in Clients \ {r} : req'[q] = req[q]
  BY AtHas DEF ChainType
<1>2. PathOf[r] \in Paths
  BY DEF Paths
<1>3. ChainType'
  <2>1. req' \in [Clients -> [pc : Places, cell : Nat, era : Nat, status : Statuses]]
    BY AtHas DEF ChainType, Places
  <2>2. permits' \in Nat
    BY DEF ChainType
  <2>3. tripped' \subseteq Paths \X Nat
    BY <1>2 DEF ChainType
  <2> QED BY <2>1, <2>2, <2>3 DEF ChainType
<1>4. PermitsAddUp'
  BY <1>1, PermitReturned DEF HoldsPermit
<1>5. FallbacksAnswer'
  BY <1>1 DEF FallbacksAnswer
<1>6. \A q \in Clients : Carries(q)' => q # r /\ Carries(q) /\ req'[q] = req[q]
  BY <1>1 DEF Carries
<1>7. CarriedIsCurrent'
  BY <1>6 DEF CarriedIsCurrent, BreakersInv
<1>8. OneBreakerPerEra'
  BY <1>6 DEF OneBreakerPerEra, BreakersInv
<1>9. TrippedIsOpen'
  <2>1. CASE UNCHANGED <<open, tripped>>
    BY <1>6, <2>1 DEF TrippedIsOpen, BreakersInv
  <2>2. CASE FailureRecorded(r)
    <3>1. ASSUME NEW p \in Paths, NEW e \in Nat, <<p, e>> \in tripped'
          PROVE  /\ e <= evicted[p]
                 /\ e = evicted[p] => p \in DOMAIN table /\ table[p] \in open'
      BY <2>2, <3>1 DEF TrippedIsOpen, CarriedIsCurrent, BreakersInv
    <3>2. ASSUME NEW q \in Clients, Carries(q)', <<PathOf[q], req'[q].era>> \in tripped'
          PROVE  req'[q].cell \in open'
      BY <1>6, <2>2, <3>2 DEF TrippedIsOpen, OneBreakerPerEra, BreakersInv
    <3> QED BY <3>1, <3>2 DEF TrippedIsOpen
  <2> QED BY <2>1, <2>2
<1> QED BY <1>3, <1>4, <1>5, <1>7, <1>8, <1>9 DEF BreakersInv

\* A request takes a place further down the chain, with the breaker that the
\* table now holds for its path; the table may have made room for it.
LEMMA GettingKeeps ==
    ASSUME ChainInv, NEW r \in Clients,
           req[r].pc \in {"find", "create"},
           PathOf[r] \in DOMAIN table',
           req' = [req EXCEPT ![r] = At("acquire", table'[PathOf[r]], evicted[PathOf[r]], 0)],
           UNCHANGED <<permits, open, tripped>>,
           \/ UNCHANGED <<table, made, evicted>>
           \/ PathOf[r] \notin DOMAIN table /\ NewBreaker(r)
    PROVE  ChainInv'
<1> USE DEF ChainInv
<1> DEFINE p == PathOf[r]
<1>1. p \in Paths
  BY DEF Paths
<1>2. /\ DOMAIN table' \subseteq Paths /\ table' \in [DOMAIN table' -> Nat] /\ made' \in Nat
      /\ evicted' \in [Paths -> Nat] /\ evicted'[p] = evicted[p]
      /\ \A q \in Paths : \/ evicted'[q] = evicted[q] + 1
                          \/ /\ evicted'[q] = evicted[q]
                             /\ q \in DOMAIN table => q \in DOMAIN table' /\ table'[q] = table[q]
  <2>1. CASE UNCHANGED <<table, made, evicted>>
    BY <1>1, <2>1 DEF ChainType
  <2>2. CASE p \notin DOMAIN table /\ NewBreaker(r)
    <3>1. PICK gone \in SUBSET DOMAIN table :
              /\ made' = made + 1
              /\ table' = [q \in (DOMAIN table \ gone) \cup {p} |-> IF q = p THEN made' ELSE table[q]]
              /\ evicted' = [q \in Paths |-> IF q \in gone THEN evicted[q] + 1 ELSE evicted[q]]
      BY <2>2 DEF NewBreaker
    <3>2. p \notin gone
      BY <2>2
    <3> QED BY <1>1, <3>1, <3>2 DEF ChainType
  <2> QED BY <2>1, <2>2
<1>3. table'[p] \in Nat /\ evicted[p] \in Nat
  BY <1>1, <1>2 DEF ChainType
<1>4. /\ req'[r].pc = "acquire" /\ req'[r].cell = table'[p] /\ req'[r].era = evicted[p]
      /\ \A q \in Clients \ {r} : req'[q] = req[q]
  BY AtHas DEF ChainType
<1>5. ChainType'
  <2>1. req' \in [Clients -> [pc : Places, cell : Nat, era : Nat, status : Statuses]]
    BY <1>3, AtHas DEF ChainType, Places, Statuses
  <2> QED BY <1>2, <2>1 DEF ChainType
<1>6. PermitsAddUp'
  BY <1>4, PermitKept DEF HoldsPermit
<1>7. FallbacksAnswer'
  BY <1>4 DEF FallbacksAnswer
<1>8. \A q \in Clients : Carries(q)' /\ q # r => Carries(q) /\ req'[q] = req[q]
  BY <1>4 DEF Carries
<1>9. \A q \in Clients : PathOf[q] \in Paths /\ req[q].era \in Nat
  BY DEF Paths, ChainType
<1>10. CarriedIsCurrent'
  <2> SUFFICES ASSUME NEW q \in Clients, Carries(q)'
               PROVE  /\ req'[q].era <= evicted'[PathOf[q]]
                      /\ req'[q].era = evicted'[PathOf[q]] =>
                            PathOf[q] \in DOMAIN table' /\ table'[PathOf[q]] = req'[q].cell
    BY DEF CarriedIsCurrent
  <2>1. CASE q = r
    BY <1>2, <1>3, <1>4, <2>1
  <2>2. CASE q # r
    BY <1>2, <1>8, <1>9, <2>2 DEF CarriedIsCurrent, BreakersInv, ChainType
  <2> QED BY <2>1, <2>2
<1>11. OneBreakerPerEra'
  <2>1. \A q \in Clients : Carries(q)' /\ PathOf[q] = p /\ req'[q].era = evicted[p] => req'[q].cell = table'[p]
    BY <1>2, <1>10 DEF CarriedIsCurrent
  <2> QED BY <1>4, <1>8, <2>1 DEF OneBreakerPerEra, BreakersInv
<1>12. TrippedIsOpen'
  <2>1. ASSUME NEW q \in Paths, NEW e \in Nat, <<q, e>> \in tripped
        PROVE  /\ e <= evicted'[q]
               /\ e = evicted'[q] => q \in DOMAIN table' /\ table'[q] \in open
    BY <1>2, <2>1 DEF TrippedIsOpen, BreakersInv, ChainType
  <2>2. ASSUME NEW q \in Clients, Carries(q)', <<PathOf[q], req'[q].era>> \in tripped
        PROVE  req'[q].cell \in open
    <3>1. CASE q = r
      BY <1>1, <1>2, <1>3, <1>4, <2>1, <2>2, <3>1
    <3>2. CASE q # r
      BY <1>8, <2>2, <3>2 DEF TrippedIsOpen, BreakersInv
    <3> QED BY <3>1, <3>2
  <2> QED BY <2>1, <2>2 DEF TrippedIsOpen
<1> QED BY <1>5, <1>6, <1>7, <1>10, <1>11, <1>12 DEF BreakersInv

\* A request goes on to another place and carries what it carried, or nothing.
LEMMA GoingKeeps ==
    ASSUME ChainInv, NEW r \in Clients, NEW pc \in Places \ {"done"},
           req' = [req EXCEPT ![r].pc = pc] \/ req' = [req EXCEPT ![r] = At(pc, 0, 0, 0)],
           pc \in {"acquire", "chaos", "handler"} => Carries(r) /\ req' = [req EXCEPT ![r].pc = pc],
           \/ permits' = permits /\ (HoldsPermit(r)' <=> HoldsPermit(r))
           \/ permits' = permits - 1 /\ permits > 0 /\ ~HoldsPermit(r) /\ HoldsPermit(r)',
           UNCHANGED <<table, open, made, evicted, tripped>>
    PROVE  ChainInv'
<1> USE DEF ChainInv
<1>1. req'[r].pc = pc /\ \A q \in Clients \ {r} : req'[q] = req[q]
  BY AtHas DEF ChainType
<1>2. ChainType'
  <2>1. req' \in [Clients -> [pc : Places, cell : Nat, era : Nat, status : Statuses]]
    BY AtHas DEF ChainType, Statuses
  <2>2. permits' \in Nat
    BY DEF ChainType
  <2> QED BY <2>1, <2>2 DEF ChainType
<1>3. PermitsAddUp'
  BY <1>1, PermitKept, PermitTaken
<1>4. FallbacksAnswer'
  BY <1>1 DEF FallbacksAnswer
<1>5. \A q \in Clients : Carries(q)' =>
          Carries(q) /\ req'[q].cell = req[q].cell /\ req'[q].era = req[q].era
  BY <1>1 DEF Carries, ChainType
<1>6. CarriedIsCurrent' /\ OneBreakerPerEra'
  BY <1>5 DEF CarriedIsCurrent, OneBreakerPerEra, BreakersInv
<1>7. TrippedIsOpen'
  BY <1>5 DEF TrippedIsOpen, BreakersInv
<1> QED BY <1>2, <1>3, <1>4, <1>6, <1>7 DEF BreakersInv

\* The chain below answers with this status and the breaker records it.
LEMMA RecordingKeeps ==
    ASSUME ChainInv, NEW r \in Clients, Carries(r),
           NEW status \in {0, 200, 404, 500, 502}, Record(r, status), UNCHANGED <<table, made, evicted>>
    PROVE  ChainInv'
<1>1. PICK s \in FallbackHandle(PathOf[r], status) : req' = [req EXCEPT ![r] = At("done", 0, 0, s)]
  BY DEF Record, LeavesChain
<1>2. s \in Statuses /\ Shown(PathOf[r], s)
  BY <1>1, FallbackReplaces
<1>3. LeftWith(r, s)
  BY <1>1 DEF Record, LeavesChain, LeftWith
<1>4. UNCHANGED <<open, tripped>> \/ FailureRecorded(r)
  BY DEF Record, FailureRecorded
<1> QED BY <1>2, <1>3, <1>4, LeavingKeeps

\* A policy above the handler answers in its place; nothing is recorded.
LEMMA RefusingKeeps ==
    ASSUME ChainInv, NEW r \in Clients, NEW status \in {503, 504},
           LeavesChain(r, status), UNCHANGED <<table, open, made, evicted, tripped>>
    PROVE  ChainInv'
<1>1. PICK s \in FallbackHandle(PathOf[r], status) : req' = [req EXCEPT ![r] = At("done", 0, 0, s)]
  BY DEF LeavesChain
<1>2. s \in Statuses /\ Shown(PathOf[r], s)
  BY <1>1, FallbackReplaces
<1>3. LeftWith(r, s)
  BY <1>1 DEF LeavesChain, LeftWith
<1> QED BY <1>2, <1>3, LeavingKeeps

\* Every step of the chain keeps the invariant.
LEMMA ChainStep ==
    ASSUME ChainInv, [ResilienceNext]_resVars
    PROVE  ChainInv'
<1>0. req \in [Clients -> [pc : Places, cell : Nat, era : Nat, status : Statuses]]
  BY DEF ChainInv, ChainType
<1>1. ASSUME NEW r \in Clients, Arrive(r) PROVE ChainInv'
  BY <1>0, <1>1, GoingKeeps DEF Arrive, Goes, Places, HoldsPermit
<1>2. ASSUME NEW r \in Clients, TakePermit(r) PROVE ChainInv'
  BY <1>0, <1>2, GoingKeeps DEF TakePermit, Goes, Places, HoldsPermit
<1>3. ASSUME NEW r \in Clients, BulkheadRefuses(r) PROVE ChainInv'
  BY <1>3, RefusingKeeps DEF BulkheadRefuses
<1>4. ASSUME NEW r \in Clients, FindBreaker(r) PROVE ChainInv'
  <2>1. CASE PathOf[r] \in DOMAIN table
    BY <1>4, <2>1, GettingKeeps DEF FindBreaker
  <2>2. CASE PathOf[r] \notin DOMAIN table
    <3>1. req[r].pc = "find" /\ req' = [req EXCEPT ![r] = At("create", 0, 0, 0)]
      BY <1>4, <2>2 DEF FindBreaker
    <3>2. HoldsPermit(r) /\ HoldsPermit(r)'
      BY <1>0, <3>1, AtHas DEF HoldsPermit
    <3> QED BY <1>4, <3>1, <3>2, GoingKeeps DEF FindBreaker, Places
  <2> QED BY <2>1, <2>2
<1>5. ASSUME NEW r \in Clients, CreateBreaker(r) PROVE ChainInv'
  <2>1. CASE PathOf[r] \in DOMAIN table
    BY <1>5, <2>1, GettingKeeps DEF CreateBreaker
  <2>2. CASE PathOf[r] \notin DOMAIN table
    <3>1. /\ NewBreaker(r) /\ req[r].pc = "create" /\ UNCHANGED <<permits, open, tripped>>
      BY <1>5, <2>2 DEF CreateBreaker
    <3>2. PathOf[r] \in DOMAIN table' /\ table'[PathOf[r]] = made'
      BY <3>1 DEF NewBreaker
    <3>3. req' = [req EXCEPT ![r] = At("acquire", made', evicted[PathOf[r]], 0)]
      BY <3>1 DEF NewBreaker
    <3> QED BY <2>2, <3>1, <3>2, <3>3, GettingKeeps
  <2> QED BY <2>1, <2>2
<1>6. ASSUME NEW r \in Clients, TryAcquire(r) PROVE ChainInv'
  <2>1. CASE req[r].cell \in open
    BY <1>6, <2>1, RefusingKeeps DEF TryAcquire
  <2>2. CASE req[r].cell \notin open
    <3>1. req[r].pc = "acquire" /\ req' = [req EXCEPT ![r].pc = "chaos"] /\ permits' = permits
      BY <1>6, <2>2 DEF TryAcquire, Goes
    <3>2. Carries(r) /\ HoldsPermit(r) /\ HoldsPermit(r)'
      BY <1>0, <3>1 DEF Carries, HoldsPermit
    <3> QED BY <1>6, <3>1, <3>2, GoingKeeps DEF TryAcquire, Places
  <2> QED BY <2>1, <2>2
<1>7. ASSUME NEW r \in Clients, ChaosHandle(r) PROVE ChainInv'
  <2>1. Carries(r) /\ req[r].pc = "chaos" /\ UNCHANGED <<table, made, evicted>>
    BY <1>7 DEF ChaosHandle, Carries
  <2>2. CASE Record(r, 500)
    BY <2>1, <2>2, RecordingKeeps
  <2>3. CASE Goes(r, "handler") /\ UNCHANGED <<permits, open, tripped>>
    <3>1. HoldsPermit(r) /\ HoldsPermit(r)'
      BY <1>0, <2>1, <2>3 DEF HoldsPermit, Goes
    <3> QED BY <2>1, <2>3, <3>1, GoingKeeps DEF Goes, Places
  <2> QED BY <1>7, <2>2, <2>3 DEF ChaosHandle
<1>8. ASSUME NEW r \in Clients, HandlerAnswers(r) PROVE ChainInv'
  <2>1. PICK status \in {200, 404, 502, 0} : Record(r, status)
    BY <1>8 DEF HandlerAnswers
  <2> QED BY <1>8, <2>1, RecordingKeeps DEF HandlerAnswers, Carries
<1>9. ASSUME NEW r \in Clients, TimeoutFires(r) PROVE ChainInv'
  BY <1>9, RefusingKeeps DEF TimeoutFires
<1>10. ASSUME NEW r \in Clients, Dropped(r) PROVE ChainInv'
  <2>1. LeftWith(r, 499) /\ 499 \in Statuses /\ Shown(PathOf[r], 499)
    BY <1>10 DEF Dropped, LeftWith, Statuses, Shown
  <2> QED BY <1>10, <2>1, LeavingKeeps DEF Dropped
<1>11. CASE UNCHANGED resVars
  BY <1>11 DEF resVars, ChainInv, ChainType, PermitsAddUp, Holders, HoldsPermit, FallbacksAnswer,
               BreakersInv, CarriedIsCurrent, OneBreakerPerEra, TrippedIsOpen, Carries
<1> QED
  BY <1>1, <1>2, <1>3, <1>4, <1>5, <1>6, <1>7, <1>8, <1>9, <1>10, <1>11 DEF ResilienceNext, Steps

\* The server starts with all permits and no breaker.
LEMMA ChainInit ==
    ASSUME ResilienceInit
    PROVE  ChainInv
<1>1. \A r \in Clients : req[r].pc = "new"
  BY AtHas DEF ResilienceInit
<1>2. Holders = {}
  BY <1>1 DEF Holders, HoldsPermit
<1>3. PermitsAddUp
  BY <1>2, FS_EmptySet, ChainAssumption DEF PermitsAddUp, ResilienceInit, ChainAssumption
<1>4. ChainType
  BY AtHas, ChainAssumption DEF ChainType, ResilienceInit, ChainAssumption, Places, Statuses
<1>5. FallbacksAnswer /\ BreakersInv
  BY <1>1 DEF ResilienceInit, FallbacksAnswer, BreakersInv, CarriedIsCurrent, OneBreakerPerEra, TrippedIsOpen, Carries
<1> QED BY <1>3, <1>4, <1>5 DEF ChainInv

-----------------------------------------------------------------------------
\* The policies of resilience.rs hold for every configuration of the chain.
\* Once a failure was recorded for a path, no request that took its breaker
\* since the path's last eviction passes try_acquire, although get_breaker
\* looks under one lock and creates under another.  Permits are never lost or
\* invented by timeouts, drops and errors.  And a path with a fallback shows
\* its clients no failure of the chain.
THEOREM PoliciesAlwaysHold == ResilienceSpec => PoliciesHold
<1>1. ChainInv => PermitsAndFallbacks
  BY DEF ChainInv, PermitsAddUp, Holders, FallbacksAnswer, Shown, PermitsAndFallbacks
<1>2. ChainInv /\ [ResilienceNext]_resVars => [PolicyStep]_resVars
  <2> SUFFICES ASSUME ChainInv, ResilienceNext PROVE PolicyStep
    OBVIOUS
  <2>1. PermitsAndFallbacks'
    BY <1>1, ChainStep, PTL
  <2>2. TripHolds
    <3> SUFFICES ASSUME NEW r \in Clients, req[r].pc = "acquire", req'[r].pc = "chaos"
                 PROVE  <<PathOf[r], req[r].era>> \notin tripped
      BY DEF TripHolds
    <3>1. TryAcquire(r) /\ req[r].cell \notin open
      <4>1. PICK q \in Clients : Steps(q) \/ TimeoutFires(q) \/ Dropped(q)
        BY DEF ResilienceNext
      <4>2. req \in [Clients -> [pc : Places, cell : Nat, era : Nat, status : Statuses]]
        BY DEF ChainInv, ChainType
      <4>3. \A s : \A x \in Clients : LeavesChain(x, s) => req'[r].pc = "done" \/ req'[r] = req[r]
        BY <4>2, AtHas DEF LeavesChain
      <4>4. ~TimeoutFires(q) /\ ~Dropped(q) /\ ~BulkheadRefuses(q) /\ ~HandlerAnswers(q)
        BY <4>2, <4>3, AtHas DEF TimeoutFires, Dropped, BulkheadRefuses, HandlerAnswers, Record
      <4>5. ~Arrive(q) /\ ~TakePermit(q)
        BY <4>2 DEF Arrive, TakePermit, Goes
      <4>6. ~FindBreaker(q) /\ ~CreateBreaker(q)
        BY <4>2, AtHas DEF FindBreaker, CreateBreaker, NewBreaker
      <4>7. ~ChaosHandle(q)
        BY <4>2, <4>3 DEF ChaosHandle, Goes, Record
      <4>8. TryAcquire(q) /\ q = r
        BY <4>1, <4>2, <4>3, <4>4, <4>5, <4>6, <4>7 DEF Steps, TryAcquire, Goes
      <4> QED BY <4>3, <4>8 DEF TryAcquire
    <3> QED BY <3>1 DEF ChainInv, BreakersInv, TrippedIsOpen, Carries
  <2> QED BY <2>1, <2>2 DEF PolicyStep
<1>3. ResilienceInit => ChainInv
  BY ChainInit
<1>4. ChainInv /\ [ResilienceNext]_resVars => ChainInv'
  BY ChainStep
<1> QED BY <1>2, <1>3, <1>4, PTL DEF ResilienceSpec, PoliciesHold
=============================================================================
