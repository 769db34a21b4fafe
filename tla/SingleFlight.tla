---------------------------- MODULE SingleFlight ----------------------------
(***************************************************************************)
(* What request coalescing promises, without channels, locks or bodies.    *)
(*                                                                         *)
(* Requests with the same key form flights.  The request that starts a     *)
(* flight leads it and gives it its name; requests that come while the     *)
(* flight is open join it.  A flight is settled once, by the answer of its *)
(* leader, and a joiner is only ever answered with what its flight         *)
(* settled on.                                                             *)
(***************************************************************************)
EXTENDS Naturals

CONSTANTS
    Requests,   \* the requests that reach the middleware
    KeyOf,      \* KeyOf[r]: the coalescing key of request r
    NoFlight,   \* the flight of a request that has not arrived yet
    BodyLen     \* number of data frames of a complete response body

VARIABLES
    member,     \* member[r]: the flight r belongs to
    open,       \* the flights that still accept joiners
    answer      \* answer[r]: what the client of r was given

vars == <<member, open, answer>>

Pending == [tag |-> "Pending", body |-> 0]
Failed  == [tag |-> "Err", body |-> 0]
Ok(n)   == [tag |-> "Ok", body |-> n]

\* The leader's client sees a broken stream where a joiner sees a response
\* that carries the frames produced until then.
Aborted(n) == [tag |-> "Aborted", body |-> n]

Answers == [tag : {"Pending", "Err", "Ok", "Aborted"}, body : 0..BodyLen]

Shared(a) == IF a.tag = "Aborted" THEN Ok(a.body) ELSE a

Init ==
    /\ member = [r \in Requests |-> NoFlight]
    /\ open = {}
    /\ answer = [r \in Requests |-> Pending]

\* r finds no open flight for its key and starts one.
Lead(r) ==
    /\ member[r] = NoFlight
    /\ \A f \in open : KeyOf[f] # KeyOf[r]
    /\ member' = [member EXCEPT ![r] = r]
    /\ open' = open \cup {r}
    /\ UNCHANGED answer

\* r joins the open flight of its key.
Join(r) ==
    /\ member[r] = NoFlight
    /\ \E f \in open :
        /\ KeyOf[f] = KeyOf[r]
        /\ member' = [member EXCEPT ![r] = f]
    /\ UNCHANGED <<open, answer>>

\* The handler of flight f has returned; later requests start a new flight.
Close(f) ==
    /\ f \in open
    /\ open' = open \ {f}
    /\ UNCHANGED <<member, answer>>

\* The leader of a closed flight gets its answer, which settles the flight.
Settle(f) ==
    /\ member[f] = f
    /\ f \notin open
    /\ answer[f] = Pending
    /\ \E a \in Answers \ {Pending} : answer' = [answer EXCEPT ![f] = a]
    /\ UNCHANGED <<member, open>>

\* A joiner is answered with what its flight settled on.
Share(r) ==
    /\ member[r] # r
    /\ member[r] # NoFlight
    /\ answer[r] = Pending
    /\ answer[member[r]] # Pending
    /\ answer' = [answer EXCEPT ![r] = Shared(answer[member[r]])]
    /\ UNCHANGED <<member, open>>

Next == \E r \in Requests :
    Lead(r) \/ Join(r) \/ Close(r) \/ Settle(r) \/ Share(r)

Spec == Init /\ [][Next]_vars
=============================================================================
