---------------------------- MODULE JobContract ----------------------------
(***************************************************************************)
(* What the durable job service promises to someone who polls a job and    *)
(* reads its outputs, without threads, records, restarts or the pool:      *)
(*   - a job is submitted once and then moves queued, running, finished;   *)
(*   - a finished job stays as it is, unless its cancellation was asked    *)
(*     for: only then may it be seen in an earlier state again;            *)
(*   - an output once produced stays produced until its job runs it again  *)
(*     after its files were lost, and never changes after the end;         *)
(*   - a job ends "completed" only with every output of its plan produced, *)
(*     "partially_completed" only with one, "cancelled" only when asked.   *)
(***************************************************************************)
CONSTANTS Jobs, Outputs

VARIABLES stage,      \* the state a poll of the job shows
          planned,    \* the outputs it was asked for
          produced,   \* the outputs it has
          requested   \* was its cancellation asked for?

vars == <<stage, planned, produced, requested>>

Open == {"queued", "running"}
Ended == {"completed", "partially_completed", "failed", "cancelled"}

Init ==
    /\ stage = [j \in Jobs |-> "absent"]
    /\ planned = [j \in Jobs |-> {}]
    /\ produced = [j \in Jobs |-> {}]
    /\ requested = [j \in Jobs |-> FALSE]

Submit(j) ==
    /\ stage[j] = "absent"
    /\ stage' = [stage EXCEPT ![j] = "queued"]
    /\ \E p \in SUBSET Outputs : planned' = [planned EXCEPT ![j] = p]
    /\ UNCHANGED <<produced, requested>>

Start(j) ==
    /\ stage[j] \in Open
    /\ stage' = [stage EXCEPT ![j] = "running"]
    /\ UNCHANGED <<planned, produced, requested>>

Produce(j, o) ==
    /\ stage[j] \in Open
    /\ o \in planned[j]
    /\ produced' = [produced EXCEPT ![j] = @ \cup {o}]
    /\ UNCHANGED <<stage, planned, requested>>

Lose(j, o) ==
    /\ stage[j] \in Open
    /\ produced' = [produced EXCEPT ![j] = @ \ {o}]
    /\ UNCHANGED <<stage, planned, requested>>

MayEnd(j) ==
    {"failed"} \cup (IF produced[j] = planned[j] THEN {"completed"} ELSE {})
               \cup (IF produced[j] # {} THEN {"partially_completed"} ELSE {})
               \cup (IF requested[j] THEN {"cancelled"} ELSE {})

End(j) ==
    /\ stage[j] \in Open
    /\ \E s \in MayEnd(j) : stage' = [stage EXCEPT ![j] = s]
    /\ UNCHANGED <<planned, produced, requested>>

\* Asking to cancel may also show an earlier state of the job again.
Cancel(j) ==
    /\ stage[j] # "absent"
    /\ requested' = [requested EXCEPT ![j] = TRUE]
    /\ \E s \in Open \cup {stage[j]} : stage' = [stage EXCEPT ![j] = s]
    /\ UNCHANGED <<planned, produced>>

Next == \E j \in Jobs :
           \/ Submit(j) \/ Start(j) \/ End(j) \/ Cancel(j)
           \/ \E o \in Outputs : Produce(j, o) \/ Lose(j, o)

Spec == Init /\ [][Next]_vars
=============================================================================
