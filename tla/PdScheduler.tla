----------------------------- MODULE PdScheduler -----------------------------
(***************************************************************************)
(* Disaggregated prefill and decode (justapi-inference/src/pd.rs): two     *)
(* schedulers with a pool each, driven by the loop that the documentation  *)
(* of PdScheduler gives; requests come and are cancelled between any two   *)
(* of its steps.                                                           *)
(*                                                                         *)
(* Each scheduler numbers its sequences by itself.  The history variable   *)
(* origin remembers which request a decode sequence came from.             *)
(***************************************************************************)
EXTENDS Scheduler, FiniteSets

CONSTANTS
    Prompts,        \* the prompts of requests
    TokenLimits,    \* their max_tokens
    MaxRequests,    \* bound of the model: requests
    MaxClock        \* bound of the model: operations on the prefix cache

VARIABLES
    prefill, decode,    \* the two schedulers
    turn,               \* the next step of the loop
    work,               \* sequence ids of the forward pass under way
    origin,             \* origin[d]: the request that decode sequence d serves
    cancelled           \* the requests their clients have cancelled

vars == <<prefill, decode, turn, work, origin, cancelled>>

Up == IsUp(prefill) /\ IsUp(decode)

Init ==
    /\ prefill = NewScheduler
    /\ decode = NewScheduler
    /\ turn = "schedule_prefill"
    /\ work = <<>>
    /\ origin = <<>>
    /\ cancelled = {}

Request(p, n) ==
    /\ Up /\ prefill.next_seq_id <= MaxRequests
    /\ prefill' = AddRequest(prefill, p, n)
    /\ UNCHANGED <<decode, turn, work, origin, cancelled>>

\* Only the prefill part of this schedule is executed.
SchedulePrefill ==
    /\ Up /\ turn = "schedule_prefill" /\ prefill.clock <= MaxClock
    /\ \E result \in {Schedule(prefill)} :
          prefill' = result.s /\ work' = Ids(result.prefill)
    /\ turn' = "on_prefill_complete"
    /\ UNCHANGED <<decode, origin, cancelled>>

OnPrefillComplete ==
    /\ Up /\ turn = "on_prefill_complete"
    /\ prefill' = FoldLeft(OnStepComplete, prefill, work)
    /\ work' = <<>>
    /\ turn' = "transfer_completed"
    /\ UNCHANGED <<decode, origin, cancelled>>

\* Mutant: the sequences stay in the prefill scheduler.
TransferCopy ==
    LET taken == TakeCompletedPrefill(prefill)
    IN /\ Up /\ turn = "transfer_completed"
       /\ decode' = FoldLeft(AdmitTransferred, decode, taken.out)
       /\ origin' = origin \o Ids(taken.out)
       /\ turn' = "schedule_decode"
       /\ UNCHANGED <<prefill, work, cancelled>>

TransferCompleted ==
    LET taken == TakeCompletedPrefill(prefill)
    IN /\ Up /\ turn = "transfer_completed"
       /\ prefill' = taken.s
       /\ decode' = FoldLeft(AdmitTransferred, decode, taken.out)
       /\ origin' = origin \o Ids(taken.out)
       /\ turn' = "schedule_decode"
       /\ UNCHANGED <<work, cancelled>>

ScheduleDecode ==
    /\ Up /\ turn = "schedule_decode" /\ decode.clock <= MaxClock
    /\ \E result \in {Schedule(decode)} :
          decode' = result.s /\ work' = result.decode
    /\ turn' = "on_decode_complete"
    /\ UNCHANGED <<prefill, origin, cancelled>>

\* Mutant: decode steps are reported to the prefill scheduler.
OnDecodeCompleteSwapped ==
    /\ Up /\ turn = "on_decode_complete"
    /\ prefill' = FoldLeft(OnStepComplete, prefill, work)
    /\ work' = <<>>
    /\ turn' = "schedule_prefill"
    /\ UNCHANGED <<decode, origin, cancelled>>

OnDecodeComplete ==
    /\ Up /\ turn = "on_decode_complete"
    /\ decode' = FoldLeft(OnStepComplete, decode, work)
    /\ work' = <<>>
    /\ turn' = "schedule_prefill"
    /\ UNCHANGED <<prefill, origin, cancelled>>

Loop ==
    \/ SchedulePrefill \/ OnPrefillComplete \/ TransferCompleted
    \/ ScheduleDecode \/ OnDecodeComplete

\* The client of request r gives up; cancel(r) goes to both schedulers.
CancelRequest(r) ==
    /\ Up /\ r < prefill.next_seq_id /\ r \notin cancelled
    /\ prefill.clock <= MaxClock /\ decode.clock <= MaxClock
    /\ prefill' = Cancel(prefill, r)
    /\ decode' = Cancel(decode, r)
    /\ cancelled' = cancelled \cup {r}
    /\ UNCHANGED <<turn, work, origin>>

Next ==
    \/ \E p \in Prompts, n \in TokenLimits : Request(p, n)
    \/ Loop
    \/ \E r \in 1..MaxRequests : CancelRequest(r)

Spec == Init /\ [][Next]_vars

\* The caller's loop does not stop.  This is weak fairness of Loop, every step
\* of which changes turn, with its enabling condition written out.
CanLoop == Up /\ prefill.clock <= MaxClock /\ decode.clock <= MaxClock

FairSpec == Spec /\ ([]<>~CanLoop \/ []<><<Loop>>_vars)

-----------------------------------------------------------------------------
InPrefill == ToSet(Ids(prefill.running)) \cup ToSet(Ids(prefill.waiting))

\* The requests the running decode sequences serve, in their order.
InDecode == [i \in DOMAIN decode.running |-> origin[decode.running[i].id]]

OneOwnerIn(s) ==
    \A i, j \in DOMAIN s.running :
        \A k \in 1..Len(s.running[i].blocks), l \in 1..Len(s.running[j].blocks) :
            s.running[i].blocks[k] = s.running[j].blocks[l] => i = j /\ k = l

\* A request is prefilled or decoded, never both, and decoded by one sequence;
\* and transfers, decoding and promotion to the cache give no block of the
\* decode pool to a second sequence.
OnePoolOneOwner ==
    Up => /\ ToSet(InDecode) \cap InPrefill = {}
          /\ IsInjective(InDecode)
          /\ OneOwnerIn(decode)
          /\ \A i \in DOMAIN decode.running :
                ToSet(decode.running[i].blocks) \cap ToSet(decode.pool.free) = {}

\* A request is prefilled, transferred and decoded to its end, or dropped.
RequestsFinish ==
    \A r \in 1..MaxRequests :
        r < prefill.next_seq_id ~>
            ~Up \/ (r \notin InPrefill /\ r \notin ToSet(InDecode))
==============================================================================
