----------------------- MODULE RequestCoalescerProofs -----------------------
(***************************************************************************)
(* Proofs about the coalescing middleware, for any set of requests, keys   *)
(* and body length.                                                        *)
(*                                                                         *)
(* CoalescerInv is the inductive invariant.  Stages says what a request    *)
(* holds at each point of handle, wait_for_leader and run_leader; Registry *)
(* says that an entry of in_flight names an unanswered leader of that very *)
(* key; Channels ties what a channel stores to what its leader answered.   *)
(***************************************************************************)
EXTENDS RequestCoalescer, TLAPS

Stage(r) ==
    /\ pc[r] = "idle" => chan[r] = NoChan /\ answer[r] = Pending
    /\ pc[r] \in {"joined", "waiting"} =>
           chan[r] \in Requests /\ chan[r] # r /\ answer[r] = Pending
    /\ Leading(r) =>
           chan[r] = r /\ answer[r] = Pending /\ inFlight[KeyOf[r]] = r
    /\ pc[r] \in {"failing", "streaming"} =>
           chan[r] = r /\ inFlight[KeyOf[r]] # r
    /\ pc[r] = "failing" => answer[r] = Pending
    /\ pc[r] = "streaming" /\ ~finished[r] => answer[r] = Pending

Stages == \A r \in Requests : Stage(r)

Registry ==
    \A k \in Keys : inFlight[k] \in Requests =>
        /\ KeyOf[inFlight[k]] = k
        /\ chan[inFlight[k]] = inFlight[k]
        /\ answer[inFlight[k]] = Pending

Channels ==
    \A c \in Requests : outcome[c] # Pending =>
        answer[c] # Pending /\ outcome[c] = Flight!Shared(answer[c])

CoalescerInv == TypeOK /\ Stages /\ Registry /\ Channels

-----------------------------------------------------------------------------
\* The values of the four kinds of outcome have the types TypeOK asks for.
LEMMA OutcomeTypes ==
    /\ Pending \in Outcomes /\ Pending \in Answers
    /\ Failed \in Outcomes /\ Failed \in Answers
    /\ \A n \in 0..BodyLen : Ok(n) \in Outcomes /\ Ok(n) \in Answers
    /\ \A n \in 0..BodyLen : Aborted(n) \in Answers
    /\ \A o \in Outcomes : o \in Answers
  BY CoalescerAssumption
     DEF CoalescerAssumption, Pending, Failed, Ok, Aborted, Outcomes, Answers

\* Only Pending is pending, and joiners see a broken stream as a success.
LEMMA OutcomeFacts ==
    /\ Failed # Pending /\ Flight!Shared(Failed) = Failed
    /\ \A n \in 0..BodyLen :
          /\ Ok(n) # Pending /\ Flight!Shared(Ok(n)) = Ok(n)
          /\ Aborted(n) # Pending /\ Flight!Shared(Aborted(n)) = Ok(n)
  BY DEF Pending, Failed, Ok, Aborted, Flight!Shared, Flight!Ok

\* What DropBody does to a body that has not published yet.
LEMMA DropUnfinished ==
    ASSUME NEW r \in Requests, DropBody(r), ~finished[r]
    PROVE  /\ pc[r] = "streaming"
           /\ pc' = [pc EXCEPT ![r] = "done"]
           /\ finished' = [finished EXCEPT ![r] = TRUE]
           /\ WatchSend(r, Ok(acc[r]))
           /\ acc' = [acc EXCEPT ![r] = 0]
           /\ answer' = [answer EXCEPT ![r] = Aborted(acc[r])]
           /\ UNCHANGED <<inFlight, chan, receivers>>
  BY DEF DropBody

\* Every step of the middleware preserves the types of its state.
LEMMA TypeStep == CoalescerInv /\ [Next]_vars => TypeOK'
<1> SUFFICES ASSUME CoalescerInv, [Next]_vars PROVE TypeOK'
  OBVIOUS
<1> USE CoalescerAssumption DEF CoalescerInv, CoalescerAssumption, TypeOK
<1>1. CASE UNCHANGED vars
  BY <1>1 DEF vars
<1>2. ASSUME NEW r \in Requests,
             ClaimLeadership(r) \/ JoinLeader(r) \/ Step(r) \/ Cancel(r)
      PROVE  TypeOK'
  <2>0. Stage(r)
    BY DEF Stages
  <2>1. CASE ClaimLeadership(r)
    BY <2>1 DEF ClaimLeadership, States
  <2>2. CASE JoinLeader(r)
    BY <2>2 DEF JoinLeader, States
  <2>3. CASE Subscribe(r)
    BY <2>0, <2>3 DEF Subscribe, Stage, States
  <2>4. CASE Wake(r)
    BY <2>0, <2>4, OutcomeTypes DEF Wake, Stage, States
  <2>5. CASE HandlerReturns(r)
    BY <2>5 DEF HandlerReturns, States
  <2>6. CASE EndLeadership(r)
    BY <2>6 DEF EndLeadership, States
  <2>7. CASE PublishError(r)
    BY <2>7, OutcomeTypes DEF PublishError, WatchSend, States
  <2>8. CASE StreamFrame(r)
    BY <2>8 DEF StreamFrame, States
  <2>9. CASE StreamEnd(r)
    BY <2>9, OutcomeTypes DEF StreamEnd, WatchSend, States
  <2>10. CASE DropBody(r)
    <3>1. CASE finished[r]
      BY <2>10, <3>1 DEF DropBody, States
    <3>2. CASE ~finished[r]
      <4>1. Ok(acc[r]) \in Outcomes /\ Aborted(acc[r]) \in Answers
        BY OutcomeTypes
      <4>2. outcome' \in [Requests -> Outcomes]
        BY <2>10, <3>2, <4>1, DropUnfinished DEF WatchSend
      <4>3. answer' \in [Requests -> Answers]
        BY <2>10, <3>2, <4>1, DropUnfinished
      <4>4. acc' \in [Requests -> 0..BodyLen]
        BY <2>10, <3>2, DropUnfinished
      <4>5. pc' \in [Requests -> States]
        BY <2>10, <3>2, DropUnfinished DEF States
      <4> QED BY <2>10, <3>2, <4>2, <4>3, <4>4, <4>5, DropUnfinished
    <3> QED BY <3>1, <3>2
  <2>11. CASE Cancel(r)
    BY <2>0, <2>11 DEF Cancel, Stage, Leading, States
  <2> QED
    BY <1>2, <2>1, <2>2, <2>3, <2>4, <2>5, <2>6, <2>7, <2>8, <2>9, <2>10, <2>11
       DEF Step
<1> QED BY <1>1, <1>2 DEF Next

\* Every step leaves each request with what its stage promises.
LEMMA StagesStep == CoalescerInv /\ [Next]_vars => Stages'
<1> SUFFICES ASSUME CoalescerInv, [Next]_vars, NEW q \in Requests
             PROVE  Stage(q)'
  BY DEF Stages
<1> USE CoalescerAssumption
    DEF CoalescerInv, CoalescerAssumption, TypeOK, Stage, Leading
<1>0. Stage(q)
  BY DEF Stages
<1>1. CASE UNCHANGED vars
  BY <1>0, <1>1 DEF vars
<1>2. ASSUME NEW r \in Requests,
             ClaimLeadership(r) \/ JoinLeader(r) \/ Step(r) \/ Cancel(r)
      PROVE  Stage(q)'
  <2>0. Stage(r)
    BY DEF Stages
  <2>1. CASE ClaimLeadership(r)
    <3>1. CASE q = r
      BY <1>0, <2>1, <3>1, OutcomeFacts DEF ClaimLeadership
    <3>2. CASE q # r
      BY <1>0, <2>1, <3>2 DEF ClaimLeadership
    <3> QED BY <3>1, <3>2
  <2>2. CASE JoinLeader(r)
    BY <1>0, <2>2 DEF JoinLeader, Registry
  <2>3. CASE Subscribe(r)
    BY <1>0, <2>3 DEF Subscribe
  <2>4. CASE Wake(r)
    BY <1>0, <2>4 DEF Wake
  <2>5. CASE HandlerReturns(r)
    BY <1>0, <2>5 DEF HandlerReturns
  <2>6. CASE EndLeadership(r)
    BY <1>0, <2>0, <2>6 DEF EndLeadership
  <2>7. CASE PublishError(r)
    BY <1>0, <2>7 DEF PublishError
  <2>8. CASE StreamFrame(r)
    BY <1>0, <2>8 DEF StreamFrame
  <2>9. CASE StreamEnd(r)
    BY <1>0, <2>9 DEF StreamEnd
  <2>10. CASE DropBody(r)
    <3>1. CASE finished[r]
      BY <1>0, <2>10, <3>1 DEF DropBody
    <3>2. CASE ~finished[r]
      BY <1>0, <2>10, <3>2, DropUnfinished
    <3> QED BY <3>1, <3>2
  <2>11. CASE Cancel(r)
    BY <1>0, <2>11 DEF Cancel
  <2> QED
    BY <1>2, <2>1, <2>2, <2>3, <2>4, <2>5, <2>6, <2>7, <2>8, <2>9, <2>10, <2>11
       DEF Step
<1> QED BY <1>1, <1>2 DEF Next

\* Every step keeps in_flight a map from keys to their unanswered leaders.
LEMMA RegistryStep == CoalescerInv /\ [Next]_vars => Registry'
<1> SUFFICES ASSUME CoalescerInv, [Next]_vars, NEW k \in Keys,
                    inFlight'[k] \in Requests
             PROVE  /\ KeyOf[inFlight'[k]] = k
                    /\ chan'[inFlight'[k]] = inFlight'[k]
                    /\ answer'[inFlight'[k]] = Pending
  BY DEF Registry
<1> USE CoalescerAssumption
    DEF CoalescerInv, CoalescerAssumption, TypeOK, Registry
<1>1. CASE UNCHANGED vars
  BY <1>1 DEF vars
<1>2. ASSUME NEW r \in Requests,
             ClaimLeadership(r) \/ JoinLeader(r) \/ Step(r) \/ Cancel(r)
      PROVE  /\ KeyOf[inFlight'[k]] = k
             /\ chan'[inFlight'[k]] = inFlight'[k]
             /\ answer'[inFlight'[k]] = Pending
  <2>0. Stage(r)
    BY DEF Stages
  <2>1. CASE ClaimLeadership(r)
    BY <2>0, <2>1 DEF ClaimLeadership, Stage
  <2>2. CASE JoinLeader(r)
    BY <2>0, <2>2 DEF JoinLeader, Stage
  <2>3. CASE Subscribe(r)
    BY <2>3 DEF Subscribe
  <2>4. CASE Wake(r)
    BY <2>0, <2>4 DEF Wake, Stage
  <2>5. CASE HandlerReturns(r)
    BY <2>5 DEF HandlerReturns
  <2>6. CASE EndLeadership(r)
    BY <2>6 DEF EndLeadership
  <2>7. CASE PublishError(r)
    BY <2>0, <2>7 DEF PublishError, Stage
  <2>8. CASE StreamFrame(r)
    BY <2>8 DEF StreamFrame
  <2>9. CASE StreamEnd(r)
    BY <2>0, <2>9 DEF StreamEnd, Stage
  <2>10. CASE DropBody(r)
    <3>1. CASE finished[r]
      BY <2>10, <3>1 DEF DropBody
    <3>2. CASE ~finished[r]
      BY <2>0, <2>10, <3>2, DropUnfinished DEF Stage
    <3> QED BY <3>1, <3>2
  <2>11. CASE Cancel(r)
    BY <2>11 DEF Cancel
  <2> QED
    BY <1>2, <2>1, <2>2, <2>3, <2>4, <2>5, <2>6, <2>7, <2>8, <2>9, <2>10, <2>11
       DEF Step
<1> QED BY <1>1, <1>2 DEF Next

\* Every step keeps a channel's content equal to its leader's shared answer.
LEMMA ChannelsStep == CoalescerInv /\ [Next]_vars => Channels'
<1> SUFFICES ASSUME CoalescerInv, [Next]_vars, NEW c \in Requests,
                    outcome'[c] # Pending
             PROVE  /\ answer'[c] # Pending
                    /\ outcome'[c] = Flight!Shared(answer'[c])
  BY DEF Channels, Pending, Flight!Shared, Flight!Ok
<1> USE CoalescerAssumption
    DEF CoalescerInv, CoalescerAssumption, TypeOK, Channels
<1>1. CASE UNCHANGED vars
  BY <1>1 DEF vars
<1>2. ASSUME NEW r \in Requests,
             ClaimLeadership(r) \/ JoinLeader(r) \/ Step(r) \/ Cancel(r)
      PROVE  /\ answer'[c] # Pending
             /\ outcome'[c] = Flight!Shared(answer'[c])
  <2>0. Stage(r)
    BY DEF Stages
  <2>1. CASE ClaimLeadership(r)
    BY <2>1 DEF ClaimLeadership
  <2>2. CASE JoinLeader(r)
    BY <2>2 DEF JoinLeader
  <2>3. CASE Subscribe(r)
    BY <2>3 DEF Subscribe
  <2>4. CASE Wake(r)
    BY <2>0, <2>4 DEF Wake, Stage
  <2>5. CASE HandlerReturns(r)
    BY <2>5 DEF HandlerReturns
  <2>6. CASE EndLeadership(r)
    BY <2>6 DEF EndLeadership
  <2>7. CASE PublishError(r)
    BY <2>0, <2>7, OutcomeFacts DEF PublishError, WatchSend, Stage
  <2>8. CASE StreamFrame(r)
    BY <2>8 DEF StreamFrame
  <2>9. CASE StreamEnd(r)
    BY <2>0, <2>9, OutcomeFacts DEF StreamEnd, WatchSend, Stage
  <2>10. CASE DropBody(r)
    <3>1. CASE finished[r]
      BY <2>10, <3>1 DEF DropBody
    <3>2. CASE ~finished[r]
      BY <2>0, <2>10, <3>2, DropUnfinished, OutcomeFacts DEF WatchSend, Stage
    <3> QED BY <3>1, <3>2
  <2>11. CASE Cancel(r)
    BY <2>11 DEF Cancel
  <2> QED
    BY <1>2, <2>1, <2>2, <2>3, <2>4, <2>5, <2>6, <2>7, <2>8, <2>9, <2>10, <2>11
       DEF Step
<1> QED BY <1>1, <1>2 DEF Next

-----------------------------------------------------------------------------
\* The middleware always satisfies the inductive invariant.
THEOREM CoalescerInvariant == Spec => []CoalescerInv
<1>1. Init => CoalescerInv
  BY CoalescerAssumption, OutcomeTypes
     DEF Init, CoalescerInv, CoalescerAssumption, TypeOK, States, Stages,
         Stage, Leading, Registry, Channels
<1>2. CoalescerInv /\ [Next]_vars => CoalescerInv'
  BY TypeStep, StagesStep, RegistryStep, ChannelsStep DEF CoalescerInv
<1> QED BY <1>1, <1>2, PTL DEF Spec

\* The state of the middleware is always well typed.
THEOREM TypeCorrect == Spec => []TypeOK
  BY CoalescerInvariant, PTL DEF CoalescerInv

\* handle() never lets two handlers of one key run at the same time: both
\* would be the one leader that in_flight holds for the key.
THEOREM SingleFlightHolds == Spec => []OneHandlerPerKey
<1>1. CoalescerInv => OneHandlerPerKey
  BY DEF CoalescerInv, Stages, Stage, OneHandlerPerKey
<1> QED BY <1>1, CoalescerInvariant, PTL

\* An outcome that run_leader or FanoutBody has published is never replaced.
THEOREM OutcomesAreFinal == Spec => PublishedOnce
<1> DEFINE Final ==
        \A c \in Requests : outcome[c] # Pending => outcome'[c] = outcome[c]
<1>1. CoalescerInv /\ [Next]_vars => [Final]_vars
  <2> SUFFICES ASSUME CoalescerInv, Next, NEW c \in Requests,
                      outcome[c] # Pending
               PROVE  outcome'[c] = outcome[c]
    OBVIOUS
  <2>1. PICK r \in Requests :
            ClaimLeadership(r) \/ JoinLeader(r) \/ Step(r) \/ Cancel(r)
    BY DEF Next
  <2>2. Stage(r) /\ answer[c] # Pending
    BY DEF CoalescerInv, Stages, Channels
  <2>3. CASE PublishError(r)
    BY <2>2, <2>3 DEF PublishError, WatchSend, Stage, CoalescerInv, TypeOK
  <2>4. CASE StreamEnd(r)
    BY <2>2, <2>4 DEF StreamEnd, WatchSend, Stage, CoalescerInv, TypeOK
  <2>5. CASE DropBody(r)
    <3>1. CASE finished[r]
      BY <2>5, <3>1 DEF DropBody
    <3>2. CASE ~finished[r]
      BY <2>2, <2>5, <3>2, DropUnfinished
         DEF WatchSend, Stage, CoalescerInv, TypeOK
    <3> QED BY <3>1, <3>2
  <2> QED
    BY <2>1, <2>3, <2>4, <2>5
       DEF Step, ClaimLeadership, JoinLeader, Subscribe, Wake, HandlerReturns,
           EndLeadership, StreamFrame, Cancel
<1> QED BY <1>1, CoalescerInvariant, PTL DEF Spec, PublishedOnce

-----------------------------------------------------------------------------
\* The flights that are open in the abstract specification.
Registered == {r \in Requests : inFlight[KeyOf[r]] = r}

\* A request that finds no entry for its key leads a new flight.
LEMMA ClaimLeads ==
    ASSUME CoalescerInv, NEW r \in Requests, ClaimLeadership(r)
    PROVE  Flight!Lead(r)
<1> USE CoalescerAssumption DEF CoalescerAssumption, CoalescerInv, TypeOK
<1>1. Stage(r)
  BY DEF Stages
<1>2. Registered' = Registered \cup {r}
  BY DEF ClaimLeadership, Registered
<1>3. \A f \in Registered : KeyOf[f] # KeyOf[r]
  BY DEF ClaimLeadership, Registered
<1> QED BY <1>1, <1>2, <1>3 DEF ClaimLeadership, Stage, Flight!Lead, Registered

\* A request that finds an entry joins the flight of the leader it names.
LEMMA JoinJoins ==
    ASSUME CoalescerInv, NEW r \in Requests, JoinLeader(r)
    PROVE  Flight!Join(r)
<1> USE CoalescerAssumption DEF CoalescerAssumption, CoalescerInv, TypeOK
<1>1. Stage(r)
  BY DEF Stages
<1>2. inFlight[KeyOf[r]] \in Registered /\ KeyOf[inFlight[KeyOf[r]]] = KeyOf[r]
  BY DEF JoinLeader, Registered, Registry
<1>3. Registered' = Registered
  BY DEF JoinLeader, Registered
<1> QED BY <1>1, <1>2, <1>3 DEF JoinLeader, Stage, Flight!Join, Registered

\* A leader that gives its key up closes its flight.
LEMMA EndCloses ==
    ASSUME CoalescerInv, NEW r \in Requests, EndLeadership(r)
    PROVE  Flight!Close(r)
<1> USE CoalescerAssumption DEF CoalescerAssumption, CoalescerInv, TypeOK
<1>1. Stage(r) /\ Leading(r)
  BY DEF Stages, EndLeadership, Leading
<1>2. Registered' = Registered \ {r}
  BY <1>1 DEF EndLeadership, Registered, Stage
<1>3. r \in Registered
  BY <1>1 DEF Registered, Stage
<1> QED BY <1>2, <1>3 DEF EndLeadership, Flight!Close, Registered

\* A leader that publishes settles its flight.
LEMMA PublicationSettles ==
    ASSUME CoalescerInv, NEW r \in Requests, NEW a \in Answers, a # Pending,
           pc[r] \in {"failing", "streaming"}, answer[r] = Pending,
           answer' = [answer EXCEPT ![r] = a], UNCHANGED <<inFlight, chan>>
    PROVE  Flight!Settle(r)
<1>1. chan[r] = r /\ r \notin Registered
  BY DEF CoalescerInv, Stages, Stage, Registered
<1>2. Registered' = Registered
  BY DEF Registered
<1>3. a \in Flight!Answers \ {Flight!Pending} /\ answer[r] = Flight!Pending
  BY DEF Answers, Pending, Flight!Answers, Flight!Pending
<1> QED BY <1>1, <1>2, <1>3 DEF Flight!Settle, Registered

\* A waiter that wakes is given what its flight settled on.
LEMMA WakeShares ==
    ASSUME CoalescerInv, NEW r \in Requests, Wake(r)
    PROVE  Flight!Share(r)
<1> USE CoalescerAssumption DEF CoalescerAssumption, CoalescerInv, TypeOK
<1>1. Stage(r)
  BY DEF Stages
<1>2. /\ chan[r] \in Requests /\ chan[r] # r /\ chan[r] # NoChan
      /\ answer[r] = Pending
  BY <1>1 DEF Wake, Stage
<1>3. answer[chan[r]] # Pending
      /\ outcome[chan[r]] = Flight!Shared(answer[chan[r]])
  BY <1>2 DEF Wake, Channels
<1>4. Registered' = Registered
  BY DEF Wake, Registered
<1> QED BY <1>2, <1>3, <1>4
        DEF Wake, Flight!Share, Flight!Pending, Pending, Registered

\* The middleware implements the abstract singleflight: every step of handle,
\* wait_for_leader, run_leader and FanoutBody is a step of it or a stutter.
THEOREM CoalescerImplementsSingleFlight == Spec => ImplementsSingleFlight
<1>1. Init => Flight!Init
  BY CoalescerAssumption
     DEF Init, Flight!Init, CoalescerAssumption, Pending, Flight!Pending
<1>2. CoalescerInv /\ [Next]_vars => [Flight!Next]_(Flight!vars)
  <2> SUFFICES ASSUME CoalescerInv, [Next]_vars
               PROVE  [Flight!Next]_(Flight!vars)
    OBVIOUS
  <2> USE DEF Flight!Next, Flight!vars
  <2>1. CASE UNCHANGED vars
    BY <2>1 DEF vars
  <2>2. ASSUME NEW r \in Requests,
               ClaimLeadership(r) \/ JoinLeader(r) \/ Step(r) \/ Cancel(r)
        PROVE  [Flight!Next]_(Flight!vars)
    <3>0. Stage(r)
      BY DEF CoalescerInv, Stages
    <3>1. CASE ClaimLeadership(r)
      BY <3>1, ClaimLeads
    <3>2. CASE JoinLeader(r)
      BY <3>2, JoinJoins
    <3>3. CASE EndLeadership(r)
      BY <3>3, EndCloses
    <3>4. CASE Wake(r)
      BY <3>4, WakeShares
    <3>5. CASE PublishError(r)
      <4>1. Flight!Settle(r)
        BY <3>0, <3>5, PublicationSettles, OutcomeTypes, OutcomeFacts
           DEF PublishError, Stage
      <4> QED BY <4>1
    <3>6. CASE StreamEnd(r)
      <4>1. Ok(acc[r]) \in Answers /\ Ok(acc[r]) # Pending
        BY OutcomeTypes, OutcomeFacts DEF CoalescerInv, TypeOK
      <4>2. Flight!Settle(r)
        BY <3>0, <3>6, <4>1, PublicationSettles DEF StreamEnd, Stage
      <4> QED BY <4>2
    <3>7. CASE DropBody(r) /\ ~finished[r]
      <4>1. Aborted(acc[r]) \in Answers /\ Aborted(acc[r]) # Pending
        BY OutcomeTypes, OutcomeFacts DEF CoalescerInv, TypeOK
      <4>2. Flight!Settle(r)
        BY <3>0, <3>7, <4>1, PublicationSettles, DropUnfinished DEF Stage
      <4> QED BY <4>2
    <3>8. CASE DropBody(r) /\ finished[r]
      BY <3>8 DEF DropBody
    <3> QED
      BY <2>2, <3>1, <3>2, <3>3, <3>4, <3>5, <3>6, <3>7, <3>8
         DEF Step, Subscribe, HandlerReturns, StreamFrame, Cancel
  <2> QED BY <2>1, <2>2 DEF Next
<1> QED
  BY <1>1, <1>2, CoalescerInvariant, PTL
     DEF Spec, ImplementsSingleFlight, Flight!Spec
=============================================================================
