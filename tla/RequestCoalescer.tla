-------------------------- MODULE RequestCoalescer --------------------------
(***************************************************************************)
(* The singleflight middleware (justapi-core/src/coalesce.rs).             *)
(*                                                                         *)
(* A request either claims leadership of its key or joins the leader it    *)
(* finds in in_flight.  The leader runs the rest of the chain, gives its   *)
(* key up and publishes the outcome on a tokio watch channel: an error at  *)
(* once, a success when its FanoutBody ends or is dropped.  Every channel  *)
(* is created by one leader, so channels are named by the request that     *)
(* created them.  A request future can be dropped at each of its awaits    *)
(* (request timeout or client disconnect).                                 *)
(*                                                                         *)
(* The branch of wait_for_leader that re-runs the request as a leader      *)
(* (coalesce.rs:229-235) has no action: changed() fails only when every    *)
(* sender is gone, and the waiter itself owns a clone of the sender.       *)
(***************************************************************************)
EXTENDS Naturals, FiniteSets

CONSTANTS
    Requests,   \* the requests that reach the middleware, each handled once
    Keys,       \* coalescing keys: method, uri, selected headers
    KeyOf,      \* KeyOf[r]: key_of(r)
    NoChan,     \* "no channel"
    BodyLen     \* number of data frames of a complete response body

ASSUME CoalescerAssumption ==
    /\ KeyOf \in [Requests -> Keys]
    /\ NoChan \notin Requests
    /\ BodyLen \in Nat

VARIABLES
    pc,         \* pc[r]: where the handling of r stands
    inFlight,   \* inFlight[k]: channel of the leader registered for key k
    chan,       \* chan[r]: the channel r holds a sender of
    outcome,    \* outcome[c]: value stored in watch channel c
    receivers,  \* receivers[c]: live receivers of channel c
    acc,        \* acc[c]: frames accumulated by the FanoutBody of c
    finished,   \* finished[c]: the FanoutBody of c has published
    answer      \* answer[r]: what the client of r was given

vars == <<pc, inFlight, chan, outcome, receivers, acc, finished, answer>>

Pending    == [tag |-> "Pending", body |-> 0]
Failed     == [tag |-> "Err", body |-> 0]
Ok(n)      == [tag |-> "Ok", body |-> n]
Aborted(n) == [tag |-> "Aborted", body |-> n]

Outcomes == [tag : {"Pending", "Err", "Ok"}, body : 0..BodyLen]
Answers  == [tag : {"Pending", "Err", "Ok", "Aborted"}, body : 0..BodyLen]

States == {"idle", "joined", "waiting", "running", "okReturned",
           "errReturned", "failing", "streaming", "done", "cancelled"}

TypeOK ==
    /\ pc \in [Requests -> States]
    /\ inFlight \in [Keys -> Requests \cup {NoChan}]
    /\ chan \in [Requests -> Requests \cup {NoChan}]
    /\ outcome \in [Requests -> Outcomes]
    /\ receivers \in [Requests -> SUBSET Requests]
    /\ acc \in [Requests -> 0..BodyLen]
    /\ finished \in [Requests -> BOOLEAN]
    /\ answer \in [Requests -> Answers]

Init ==
    /\ pc = [r \in Requests |-> "idle"]
    /\ inFlight = [k \in Keys |-> NoChan]
    /\ chan = [r \in Requests |-> NoChan]
    /\ outcome = [c \in Requests |-> Pending]
    /\ receivers = [c \in Requests |-> {}]
    /\ acc = [c \in Requests |-> 0]
    /\ finished = [c \in Requests |-> FALSE]
    /\ answer = [r \in Requests |-> Pending]

-----------------------------------------------------------------------------
(* Mutants: plausible slips in the code below, each refuted by one run.    *)

\* The lookup and the claim fall into two critical sections.
ClaimUnchecked(r) ==
    /\ pc[r] = "idle"
    /\ inFlight' = [inFlight EXCEPT ![KeyOf[r]] = r]
    /\ chan' = [chan EXCEPT ![r] = r]
    /\ pc' = [pc EXCEPT ![r] = "running"]
    /\ UNCHANGED <<outcome, receivers, acc, finished, answer>>

\* The error goes to the leader's client only.
KeepErrorPrivate(r) ==
    /\ pc[r] = "failing"
    /\ answer' = [answer EXCEPT ![r] = Failed]
    /\ pc' = [pc EXCEPT ![r] = "done"]
    /\ UNCHANGED <<inFlight, chan, outcome, receivers, acc, finished>>

-----------------------------------------------------------------------------
\* watch::Sender::send stores nothing when the channel has no receiver.
WatchSend(c, v) ==
    outcome' = IF receivers[c] = {} THEN outcome
                                    ELSE [outcome EXCEPT ![c] = v]

\* The critical section of handle: look the key up, claim it if it is free.
ClaimLeadership(r) ==
    /\ pc[r] = "idle"
    /\ inFlight[KeyOf[r]] = NoChan
    /\ inFlight' = [inFlight EXCEPT ![KeyOf[r]] = r]
    /\ chan' = [chan EXCEPT ![r] = r]
    /\ pc' = [pc EXCEPT ![r] = "running"]
    /\ UNCHANGED <<outcome, receivers, acc, finished, answer>>

JoinLeader(r) ==
    /\ pc[r] = "idle"
    /\ inFlight[KeyOf[r]] # NoChan
    /\ chan' = [chan EXCEPT ![r] = inFlight[KeyOf[r]]]
    /\ pc' = [pc EXCEPT ![r] = "joined"]
    /\ UNCHANGED <<inFlight, outcome, receivers, acc, finished, answer>>

\* wait_for_leader subscribes after the lock was released.
Subscribe(r) ==
    /\ pc[r] = "joined"
    /\ receivers' = [receivers EXCEPT ![chan[r]] = @ \cup {r}]
    /\ pc' = [pc EXCEPT ![r] = "waiting"]
    /\ UNCHANGED <<inFlight, chan, outcome, acc, finished, answer>>

\* One turn of the waiter's loop that finds a resolved outcome.
Wake(r) ==
    /\ pc[r] = "waiting"
    /\ outcome[chan[r]] # Pending
    /\ answer' = [answer EXCEPT ![r] = outcome[chan[r]]]
    /\ receivers' = [receivers EXCEPT ![chan[r]] = @ \ {r}]
    /\ pc' = [pc EXCEPT ![r] = "done"]
    /\ UNCHANGED <<inFlight, chan, outcome, acc, finished>>

\* next.run(req) returns to the leader.
HandlerReturns(r) ==
    /\ pc[r] = "running"
    /\ \E s \in {"okReturned", "errReturned"} : pc' = [pc EXCEPT ![r] = s]
    /\ UNCHANGED <<inFlight, chan, outcome, receivers, acc, finished, answer>>

\* run_leader takes the lock again and removes its key.
EndLeadership(r) ==
    /\ pc[r] \in {"okReturned", "errReturned"}
    /\ inFlight' = [inFlight EXCEPT ![KeyOf[r]] = NoChan]
    /\ pc' = [pc EXCEPT ![r] = IF @ = "okReturned" THEN "streaming"
                                                   ELSE "failing"]
    /\ UNCHANGED <<chan, outcome, receivers, acc, finished, answer>>

PublishError(r) ==
    /\ pc[r] = "failing"
    /\ WatchSend(r, Failed)
    /\ answer' = [answer EXCEPT ![r] = Failed]
    /\ pc' = [pc EXCEPT ![r] = "done"]
    /\ UNCHANGED <<inFlight, chan, receivers, acc, finished>>

\* FanoutBody::poll_frame forwards and accumulates a data frame.
StreamFrame(r) ==
    /\ pc[r] = "streaming"
    /\ ~finished[r]
    /\ acc[r] < BodyLen
    /\ acc' = [acc EXCEPT ![r] = @ + 1]
    /\ UNCHANGED <<pc, inFlight, chan, outcome, receivers, finished, answer>>

\* Mutant: the buffer is split before its content is published.
PublishAfterSplit(r) ==
    /\ pc[r] = "streaming"
    /\ ~finished[r]
    /\ acc[r] = BodyLen
    /\ finished' = [finished EXCEPT ![r] = TRUE]
    /\ WatchSend(r, Ok(0))
    /\ acc' = [acc EXCEPT ![r] = 0]
    /\ answer' = [answer EXCEPT ![r] = Ok(acc[r])]
    /\ UNCHANGED <<pc, inFlight, chan, receivers>>

\* FanoutBody::poll_frame meets the end of the stream: acc.split() empties
\* the buffer.
StreamEnd(r) ==
    /\ pc[r] = "streaming"
    /\ ~finished[r]
    /\ acc[r] = BodyLen
    /\ finished' = [finished EXCEPT ![r] = TRUE]
    /\ WatchSend(r, Ok(acc[r]))
    /\ acc' = [acc EXCEPT ![r] = 0]
    /\ answer' = [answer EXCEPT ![r] = Ok(acc[r])]
    /\ UNCHANGED <<pc, inFlight, chan, receivers>>

\* Mutant: Drop publishes again what poll_frame has published.
DropRepublishes(r) ==
    /\ pc[r] = "streaming"
    /\ pc' = [pc EXCEPT ![r] = "done"]
    /\ finished' = [finished EXCEPT ![r] = TRUE]
    /\ WatchSend(r, Ok(acc[r]))
    /\ acc' = [acc EXCEPT ![r] = 0]
    /\ answer' = [answer EXCEPT ![r] = IF @ = Pending THEN Aborted(acc[r])
                                                      ELSE @]
    /\ UNCHANGED <<inFlight, chan, receivers>>

\* hyper drops the body: after its end, after an error frame, or because the
\* client went away.  A body that has not finished publishes what it has.
DropBody(r) ==
    /\ pc[r] = "streaming"
    /\ pc' = [pc EXCEPT ![r] = "done"]
    /\ IF finished[r]
       THEN UNCHANGED <<outcome, acc, finished, answer>>
       ELSE /\ finished' = [finished EXCEPT ![r] = TRUE]
            /\ WatchSend(r, Ok(acc[r]))
            /\ acc' = [acc EXCEPT ![r] = 0]
            /\ answer' = [answer EXCEPT ![r] = Aborted(acc[r])]
    /\ UNCHANGED <<inFlight, chan, receivers>>

\* The future of r is dropped at one of its awaits: next.run, the second
\* lock, or changed().  Nothing is undone but the receiver.
Cancel(r) ==
    /\ pc[r] \in {"waiting", "running", "okReturned", "errReturned"}
    /\ receivers' = [receivers EXCEPT ![chan[r]] = @ \ {r}]
    /\ pc' = [pc EXCEPT ![r] = "cancelled"]
    /\ UNCHANGED <<inFlight, chan, outcome, acc, finished, answer>>

Step(r) ==
    \/ Subscribe(r) \/ Wake(r)
    \/ HandlerReturns(r) \/ EndLeadership(r) \/ PublishError(r)
    \/ StreamFrame(r) \/ StreamEnd(r) \/ DropBody(r)

Next == \E r \in Requests :
    ClaimLeadership(r) \/ JoinLeader(r) \/ Step(r) \/ Cancel(r)

Spec == Init /\ [][Next]_vars

\* A task that can run is polled again, handlers return (the server bounds
\* them by its request timeout) and hyper polls or drops a body it was given.
\* Nothing obliges a client to send a request or to go away.
Fairness == \A r \in Requests : WF_vars(Step(r))

FairSpec == Spec /\ Fairness

-----------------------------------------------------------------------------
Leading(r) == pc[r] \in {"running", "okReturned", "errReturned"}

\* Two handlers never run at the same time for one key: handle() checks for a
\* leader and claims the key under one lock, and the claim outlives the run.
OneHandlerPerKey ==
    \A r1, r2 \in Requests :
        Leading(r1) /\ Leading(r2) /\ KeyOf[r1] = KeyOf[r2] => r1 = r2

\* A published outcome is final: the finished flag keeps the Drop of a
\* FanoutBody from overwriting what its poll_frame has published.
PublishedOnce ==
    [][\A c \in Requests : outcome[c] # Pending => outcome'[c] = outcome[c]]_vars

\* A request that subscribes before its leader resolves is answered unless its
\* own future or that of its leader is dropped: run_leader publishes an error,
\* FanoutBody a body that ends, fails or is abandoned.
SubscribedWaiterServed ==
    \A c \in Requests : \A r \in Requests \ {c} :
        (pc[r] = "waiting" /\ chan[r] = c /\ answer[c] = Pending)
            ~> (pc[r] # "waiting" \/ pc[c] = "cancelled")

\* The middleware implements the abstract singleflight: a flight is open while
\* its leader is registered in in_flight, and joiners share its one answer.
Flight == INSTANCE SingleFlight WITH
    member <- chan,
    open <- {r \in Requests : inFlight[KeyOf[r]] = r},
    NoFlight <- NoChan

ImplementsSingleFlight == Flight!Spec
=============================================================================
