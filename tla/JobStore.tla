------------------------------ MODULE JobStore ------------------------------
(***************************************************************************)
(* The durable job table (openepw/jobs/store.py): one SQLite row per job   *)
(* with its plan, its idempotency key and the serialised WeatherJob, and   *)
(* one row per finished output item.                                       *)
(*                                                                         *)
(* Every method of JobStore opens a connection, runs one transaction and   *)
(* closes it, so each method that touches the table once is one atomic     *)
(* operator here.  `cancel` touches it twice: it is CancelRead followed by *)
(* CancelSave, with the record it read kept by the caller in between.      *)
(*                                                                         *)
(* An output item is abstracted to what the bundle stored for it holds:    *)
(* a weather artifact, an error ("empty"), a CANCELLED issue ("cut"), or   *)
(* artifacts that no longer verify: "broken" weather, a "spoiled" other.   *)
(***************************************************************************)
EXTENDS Naturals, FiniteSets

CONSTANTS Jobs,      \* job identifiers the store may hand out
          Outputs,   \* output identities of a plan, in plan order (numbers)
          Keys,      \* idempotency keys a caller may send
          None       \* "no key", "no parent job"

ASSUME StoreAssumption ==
    /\ Outputs \subseteq Nat
    /\ IsFiniteSet(Outputs) /\ IsFiniteSet(Jobs)
    /\ None \notin Keys \cup Jobs

VARIABLES rows,   \* plan, key and retry_of of each job: written once, by submit
          jobs,   \* the `job` column: the whole WeatherJob, overwritten by save
          items   \* the items table: what each output's bundle holds

storeVars == <<rows, jobs, items>>
-----------------------------------------------------------------------------
Terminal == {"completed", "partially_completed", "failed", "cancelled"}
Active == {"queued", "running"}
JobStates == Terminal \cup Active \cup {"absent"}

Verified == {"weather", "empty", "cut"}
Damaged == {"broken", "spoiled"}
HeldStates == Verified \cup {"none"}
ItemStates == HeldStates \cup Damaged

\* A bundle's manifest is abstracted to whether it carries the CANCELLED issue.
Bundles == [made: BOOLEAN, weather: SUBSET Outputs, cut: BOOLEAN]
NoBundle == [made |-> FALSE, weather |-> {}, cut |-> FALSE]

\* A plan is flawed when it carries error issues or rows that could not be planned.
Plans == [outputs: SUBSET Outputs, flawed: BOOLEAN]
Rows == [plan: Plans, key: Keys \cup {None}, parent: Jobs \cup {None}]

\* `errors`: the outputs it reports errors for, `cut`: does it list the CANCELLED issue?
WeatherJobs == [state: JobStates, cancel: BOOLEAN, errors: SUBSET Outputs, cut: BOOLEAN,
                completed: Nat, failed: Nat, bundle: Bundles]

NewJob == [state |-> "queued", cancel |-> FALSE, errors |-> {}, cut |-> FALSE,
           completed |-> 0, failed |-> 0, bundle |-> NoBundle]
NoJob == [NewJob EXCEPT !.state = "absent"]
NoRow == [plan |-> [outputs |-> {}, flawed |-> FALSE], key |-> None, parent |-> None]
NoItems == [o \in Outputs |-> "none"]

StoreTypeOK ==
    /\ rows \in [Jobs -> Rows]
    /\ jobs \in [Jobs -> WeatherJobs]
    /\ items \in [Jobs -> [Outputs -> ItemStates]]

StoreInit ==
    /\ rows = [j \in Jobs |-> NoRow]
    /\ jobs = [j \in Jobs |-> NoJob]
    /\ items = [j \in Jobs |-> NoItems]
-----------------------------------------------------------------------------
Exists(j) == jobs[j].state # "absent"
Unfinished(j) == jobs[j].state \in Active
Finished(j) == jobs[j].state \in Terminal
\* JobStore.unfinished (its faulty variant forgets the jobs no worker had started).
RunningJobs == {j \in Jobs : jobs[j].state = "running"}
UnfinishedJobs == {j \in Jobs : Unfinished(j)}
Total(j) == Cardinality(rows[j].plan.outputs)

\* A plan hash names the plan's content.
SamePlan(j, p) == rows[j].plan = p

\* The rows an idempotency key already names (faulty: only while they are unfinished).
PriorUnfinished(k) == {j \in Jobs : k # None /\ Unfinished(j) /\ rows[j].key = k}
Prior(k) == {j \in Jobs : k # None /\ Exists(j) /\ rows[j].key = k}

\* JobStore.submit, the insert: j is the fresh uuid.
InsertJob(j, p, k, parent) ==
    /\ p.outputs # {}
    /\ Prior(k) = {}
    /\ ~Exists(j)
    /\ rows' = [rows EXCEPT ![j] = [plan |-> p, key |-> k, parent |-> parent]]
    /\ jobs' = [jobs EXCEPT ![j] = NewJob]
    /\ UNCHANGED items

\* JobStore.submit, the key is known: the prior job is returned, unless its plan differs.
ReturnPrior(j, p, k) ==
    /\ p.outputs # {}
    /\ j \in Prior(k)
    /\ SamePlan(j, p)
    /\ UNCHANGED storeVars

\* JobStore.save overwrites the whole record but never drops a requested cancellation
\* (faulty: it writes the caller's flag).
Overwritten(j, job) == job
Merged(j, job) == [job EXCEPT !.cancel = jobs[j].cancel \/ job.cancel]
Save(j, job) ==
    /\ jobs' = [jobs EXCEPT ![j] = Merged(j, job)]
    /\ UNCHANGED <<rows, items>>

\* JobStore.cancel, second half: save the record that was read, now flagged.
SaveCancelled(j, read) == Save(j, [read EXCEPT !.cancel = TRUE])

\* JobStore.complete_item: INSERT OR REPLACE.
CompleteItem(j, o, result) ==
    /\ items' = [items EXCEPT ![j][o] = result]
    /\ UNCHANGED <<rows, jobs>>

\* An item's files are lost or altered outside the program: resolve() refuses them afterwards.
DamageItem(j, o) ==
    /\ items[j][o] \in Verified
    /\ items' = [items EXCEPT ![j][o] = IF @ = "weather" THEN "broken" ELSE "spoiled"]
    /\ UNCHANGED <<rows, jobs>>
=============================================================================
