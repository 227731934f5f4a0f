-------------------------- MODULE JobRunnerProofs --------------------------
(***************************************************************************)
(* Machine-checked proofs about JobRunner for every number of jobs,        *)
(* outputs, workers, request threads, keys, crashes and cancels.           *)
(***************************************************************************)
EXTENDS JobRunner, FiniteSetTheorems, SequenceTheorems, TLAPS

-----------------------------------------------------------------------------
(* Types.                                                                  *)

\* The records a submission, a crash and an idle worker start from are well typed.
LEMMA Constants ==
    /\ NewJob \in WeatherJobs /\ NoJob \in WeatherJobs
    /\ NoRow \in Rows /\ NoPlan \in Plans
    /\ NoItems \in [Outputs -> HeldStates]
  BY DEF NewJob, NoJob, NoRow, NoPlan, NoItems, WeatherJobs, Rows, Plans, Bundles, NoBundle,
         JobStates, Terminal, Active, HeldStates, Verified

\* A merged record is a record.
LEMMA MergedType ==
    ASSUME TypeOK, NEW j \in Jobs, NEW rec \in WeatherJobs
    PROVE  Merged(j, rec) \in WeatherJobs
  BY DEF TypeOK, StoreTypeOK, Merged, WeatherJobs

\* Sets of outputs are finite, so that their cardinalities are counts.
LEMMA OutputCounts ==
    ASSUME NEW S \in SUBSET Outputs
    PROVE  IsFiniteSet(S) /\ Cardinality(S) \in Nat
  BY StoreAssumption, FS_Subset, FS_CardinalityType DEF StoreAssumption

\* A submission, new or known, keeps the table well typed.
LEMMA SubmitType ==
    ASSUME StoreTypeOK, NEW j \in Jobs, NEW p \in Plans, NEW k \in Keys \cup {None},
           NEW parent \in Jobs \cup {None}, InsertJob(j, p, k, parent) \/ ReturnPrior(j, p, k)
    PROVE  StoreTypeOK'
  <1>1. CASE InsertJob(j, p, k, parent)
    <2>1. [plan |-> p, key |-> k, parent |-> parent] \in Rows
      BY DEF Rows
    <2>2. QED
      BY <1>1, <2>1, Constants DEF InsertJob, StoreTypeOK
  <1>2. CASE ReturnPrior(j, p, k)
    BY <1>2 DEF ReturnPrior, storeVars, StoreTypeOK
  <1>3. QED
    BY <1>1, <1>2

\* The client actions keep the types.
LEMMA ClientType ==
    ASSUME TypeOK, NEW c \in Clients, ClientStep(c)
    PROVE  TypeOK'
  <1> USE Constants DEF TypeOK, StoreTypeOK
  <1>1. ASSUME NEW p \in Requests, NEW k \in Keys \cup {None}, Submit(c, p, k)
        PROVE  TypeOK'
    <2>1. p \in Plans
      BY RunnerAssumption DEF RunnerAssumption
    <2>2. PICK j \in Jobs : /\ InsertJob(j, p, k, None) \/ ReturnPrior(j, p, k)
                            /\ MustEnqueue(c, j)
      BY <1>1 DEF Submit
    <2>3. StoreTypeOK'
      BY <2>1, <2>2, SubmitType
    <2>4. QED
      BY <2>2, <2>3, <1>1 DEF Submit, MustEnqueue, poolVars, workVars, ClientStates
  <1>2. CASE Enqueue(c)
    <2>1. target[c] \in Jobs
      BY <1>2 DEF Enqueue
    <2>2. Append(queue, target[c]) \in Seq(Jobs)
      BY <2>1, AppendProperties
    <2>3. active' \subseteq Jobs /\ queue' \in Seq(Jobs)
      BY <2>1, <2>2, <1>2 DEF Enqueue, poolVars
    <2>4. QED
      BY <2>3, <1>2 DEF Enqueue, Returns, workVars, storeVars, ClientStates
  <1>3. ASSUME NEW j \in Jobs, RetryPlan(c, j)
        PROVE  TypeOK'
    <2>1. [outputs |-> Missing(j), flawed |-> FALSE] \in Plans
      BY DEF Missing, Plans, Rows
    <2>2. QED
      BY <2>1, <1>3 DEF RetryPlan, poolVars, workVars, storeVars, ClientStates
  <1>4. ASSUME NEW j \in Jobs, CancelRead(c, j)
        PROVE  TypeOK'
    BY <1>4 DEF CancelRead, poolVars, workVars, storeVars, ClientStates, Events
  <1>5. ASSUME NEW k \in Keys \cup {None}, SubmitRetry(c, k)
        PROVE  TypeOK'
    <2>1. PICK j \in Jobs : /\ \/ InsertJob(j, retry[c], k, target[c])
                               \/ ReturnPrior(j, retry[c], k)
                            /\ MustEnqueue(c, j)
      BY <1>5 DEF SubmitRetry
    <2>2. StoreTypeOK'
      <3>1. retry[c] \in Plans /\ target[c] \in Jobs \cup {None}
        OBVIOUS
      <3>2. QED
        BY <2>1, <3>1, SubmitType
    <2>3. QED
      BY <2>1, <2>2, <1>5 DEF SubmitRetry, MustEnqueue, poolVars, workVars, ClientStates
  <1>6. ASSUME NEW k \in Keys \cup {None}, RefuseRetry(c, k)
        PROVE  TypeOK'
    BY <1>6 DEF RefuseRetry, Returns, poolVars, workVars, storeVars, ClientStates
  <1>7. CASE CancelSave(c)
    <2>1. /\ target[c] \in Jobs
          /\ [read[c] EXCEPT !.cancel = TRUE] \in WeatherJobs
      BY <1>7 DEF CancelSave, WeatherJobs
    <2>2. StoreTypeOK'
      BY <2>1, <1>7, MergedType DEF CancelSave, SaveCancelled, Save
    <2>3. QED
      BY <2>2, <1>7 DEF CancelSave, Returns, poolVars, workVars, ClientStates
  <1>8. QED
    BY <1>1, <1>2, <1>3, <1>4, <1>5, <1>6, <1>7 DEF ClientStep

\* The counts a worker saves while it runs are counts.
LEMMA CountedType ==
    ASSUME TypeOK, NEW w \in Workers, wpc[w] = "progress"
    PROVE  Counted(w) \in WeatherJobs
  <1>1. /\ cur[w] \in Outputs
        /\ Produced(w) \subseteq Outputs
        /\ Attempted(w) \ Produced(w) \subseteq Outputs
    BY DEF TypeOK, Attempted, Produced, Kept
  <1>2. /\ Cardinality(Produced(w)) \in Nat
        /\ Cardinality(Attempted(w) \ Produced(w)) \in Nat
    BY <1>1, OutputCounts
  <1>3. copy[w] \in WeatherJobs
    BY DEF TypeOK
  <1>4. QED
    BY <1>2, <1>3 DEF Counted, WeatherJobs

\* The worker actions keep the types.
LEMMA WorkerType ==
    ASSUME TypeOK, NEW w \in Workers, WorkerStep(w)
    PROVE  TypeOK'
  <1> USE Constants DEF TypeOK, StoreTypeOK
  <1> USE DEF poolVars, clientVars, storeVars, Goto, WorkerStates
  <1>1. CASE Take(w)
    <2>1. Head(queue) \in Jobs /\ Tail(queue) \in Seq(Jobs)
      BY <1>1, HeadTailProperties DEF Take
    <2>2. CASE Unfinished(Head(queue))
      BY <2>1, <2>2, <1>1 DEF Take
    <2>3. CASE ~Unfinished(Head(queue))
      BY <2>1, <2>3, <1>1 DEF Take
    <2>4. QED
      BY <2>2, <2>3
  <1>2. CASE Start(w)
    <2>1. [copy[w] EXCEPT !.state = "running"] \in WeatherJobs
      BY DEF WeatherJobs, JobStates, Active
    <2>2. QED
      BY <2>1, <1>2, MergedType DEF Start, SaveCopy, Save
  <1>3. CASE Load(w)
    BY <1>3 DEF Load, HeldStates
  <1>4. CASE Pick(w)
    <2>1. Remaining(w) \subseteq Outputs
      BY <1>4 DEF Pick, Remaining, Rows, Plans
    <2>2. QED
      BY <2>1, <1>4 DEF Pick
  <1>5. CASE LeaveLoop(w)
    BY <1>5 DEF LeaveLoop
  <1>6. CASE Execute(w)
    BY <1>6 DEF Execute, HeldStates, Verified
  <1>7. CASE ExecuteRaises(w)
    <2>1. [copy[w] EXCEPT !.errors = @ \cup {cur[w]}] \in WeatherJobs
      BY <1>7 DEF ExecuteRaises, WeatherJobs
    <2>2. QED
      BY <2>1, <1>7 DEF ExecuteRaises
  <1>8. CASE Record(w)
    BY <1>8 DEF Record, CompleteItem, ItemStates, HeldStates
  <1>9. CASE Progress(w)
    <2>1. cur[w] \in Outputs /\ Counted(w) \in WeatherJobs
      BY <1>9, CountedType DEF Progress
    <2>2. QED
      BY <2>1, <1>9, MergedType DEF Progress, SaveCopy, Save
  <1>10. CASE Collect(w)
    <2>1. jobs[job[w]].cancel \in BOOLEAN
      BY <1>10 DEF Collect, WeatherJobs
    <2>2. Collected(w) \in WeatherJobs
      BY <2>1 DEF Collected, WeatherJobs
    <2>3. QED
      BY <2>2, <1>10 DEF Collect
  <1>11. CASE Bundle(w)
    <2>1. Bundled(w) \in WeatherJobs
      <3>1. /\ Produced(w) \subseteq Outputs
            /\ Kept(w) \ Produced(w) \subseteq Outputs
            /\ rows[job[w]].plan.outputs \subseteq Outputs
        BY <1>11 DEF Bundle, Rows, Plans, Produced, Kept
      <3>2. /\ Cardinality(Produced(w)) \in Nat
            /\ Cardinality(Kept(w) \ Produced(w)) \in Nat
            /\ Total(job[w]) \in Nat
        BY <3>1, OutputCounts DEF Total
      <3>3. \A x, y : Outcome(w, x, y) \in JobStates
        BY DEF Outcome, JobStates, Terminal
      <3>4. [made |-> TRUE, weather |-> Produced(w), cut |-> copy[w].cut] \in Bundles
        BY <3>1 DEF WeatherJobs, Bundles
      <3>5. copy[w] \in WeatherJobs
        OBVIOUS
      <3>6. \A b \in Bundles, n \in Nat, f \in Nat, s \in JobStates :
              [copy[w] EXCEPT !.bundle = b, !.completed = n, !.failed = f, !.state = s]
              \in WeatherJobs
        BY <3>5 DEF WeatherJobs
      <3> DEFINE made == Cardinality(Produced(w))
                 short == IF made < Total(job[w]) THEN Total(job[w]) - made ELSE 0
                 failed == IF jobs[job[w]].cancel THEN Cardinality(Kept(w) \ Produced(w)) ELSE short
      <3>7. made \in Nat /\ failed \in Nat
        BY <3>2
      <3> HIDE DEF made
      <3>8. QED
        BY <3>3, <3>4, <3>6, <3>7 DEF Bundled, made
    <2>2. QED
      BY <2>1, <1>11 DEF Bundle
  <1>12. CASE BundleRaises(w)
    BY <1>12 DEF BundleRaises, Events
  <1>13. CASE Finish(w)
    BY <1>13, MergedType DEF Finish, SaveCopy, Save
  <1>14. CASE Discard(w)
    BY <1>14 DEF Discard, HeldStates
  <1>15. QED
    BY <1>1, <1>2, <1>3, <1>4, <1>5, <1>6, <1>7, <1>8, <1>9, <1>10, <1>11, <1>12, <1>13, <1>14
    DEF WorkerStep

\* Every step keeps the types.
LEMMA TypeStep == TypeOK /\ [Next]_vars => TypeOK'
  <1> SUFFICES ASSUME TypeOK, [Next]_vars PROVE TypeOK'
    OBVIOUS
  <1>1. ASSUME NEW c \in Clients, ClientStep(c) PROVE TypeOK'
    BY <1>1, ClientType
  <1>2. ASSUME NEW w \in Workers, WorkerStep(w) PROVE TypeOK'
    BY <1>2, WorkerType
  <1>3. CASE Crash
    <2>1. /\ "idle" \in WorkerStates /\ "idle" \in ClientStates
          /\ "none" \in HeldStates /\ "crash" \in Events
      BY DEF WorkerStates, ClientStates, HeldStates, Events
    <2>2. spent' \in [Events -> Nat]
      BY <1>3, <2>1 DEF Crash, TypeOK
    <2>3. <<>> \in Seq(Jobs)
      BY EmptySeq
    <2>4. QED
      BY <1>3, <2>1, <2>2, <2>3, Constants DEF Crash, TypeOK, StoreTypeOK, storeVars
  <1>4. CASE Recover
    <2>1. UnfinishedJobs \subseteq Jobs
      BY DEF UnfinishedJobs
    <2>2. PICK n \in 0..Cardinality(Jobs) : queue' \in [1..n -> UnfinishedJobs]
      BY <1>4 DEF Recover
    <2>3. n \in Nat
      BY FS_CardinalityType, StoreAssumption DEF StoreAssumption
    <2>4. queue' \in Seq(Jobs)
      BY <2>1, <2>2, <2>3
    <2>5. QED
      BY <2>1, <2>4, <1>4 DEF Recover, TypeOK, StoreTypeOK, storeVars, workVars, clientVars
  <1>5. ASSUME NEW j \in Jobs, NEW o \in Outputs, Damage(j, o) PROVE TypeOK'
    BY <1>5 DEF Damage, DamageItem, TypeOK, StoreTypeOK, poolVars, workVars, clientVars,
       ItemStates, Damaged, Events
  <1>6. CASE UNCHANGED vars
    BY <1>6 DEF vars, TypeOK, StoreTypeOK
  <1>7. QED
    BY <1>1, <1>2, <1>3, <1>4, <1>5, <1>6 DEF Next

\* Every variable keeps its type, whatever the interleaving (all of JobRunner).
THEOREM TypeCorrect == Spec => []TypeOK
  <1>1. Init => TypeOK
    BY Constants DEF Init, StoreInit, IdleWorkers, IdleClients, TypeOK, StoreTypeOK, WorkerStates,
       ClientStates, ItemStates, HeldStates, NoItems
  <1>2. QED
    BY <1>1, TypeStep, PTL DEF Spec
-----------------------------------------------------------------------------
(* The pool: one run per job.                                              *)

NoRepeats(q) == \A i, k \in DOMAIN q : q[i] = q[k] => i = k
Elements(q) == {q[i] : i \in DOMAIN q}

\* Appending a job that is not in the queue keeps it free of repeats.
LEMMA AppendDistinct ==
    ASSUME NEW q \in Seq(Jobs), NEW j \in Jobs, NoRepeats(q), j \notin Elements(q)
    PROVE  /\ NoRepeats(Append(q, j))
           /\ Elements(Append(q, j)) = Elements(q) \cup {j}
  BY DEF NoRepeats, Elements

\* Taking the head of a queue without repeats leaves the other jobs in it.
LEMMA TailDistinct ==
    ASSUME NEW q \in Seq(Jobs), q # <<>>, NoRepeats(q)
    PROVE  /\ NoRepeats(Tail(q))
           /\ Elements(Tail(q)) \subseteq Elements(q)
           /\ Head(q) \in Elements(q)
           /\ Head(q) \notin Elements(Tail(q))
  <1>1. /\ Len(q) \in Nat /\ Len(q) > 0 /\ DOMAIN q = 1..Len(q)
        /\ DOMAIN Tail(q) = 1..(Len(q) - 1)
        /\ \A i \in 1..(Len(q) - 1) : Tail(q)[i] = q[i + 1]
        /\ Head(q) = q[1]
    BY HeadTailProperties
  <1>2. NoRepeats(Tail(q))
    BY <1>1 DEF NoRepeats
  <1>3. Elements(Tail(q)) \subseteq Elements(q)
    BY <1>1 DEF Elements
  <1>4. Head(q) \in Elements(q)
    BY <1>1 DEF Elements
  <1>5. Head(q) \notin Elements(Tail(q))
    BY <1>1 DEF Elements, NoRepeats
  <1>6. QED
    BY <1>2, <1>3, <1>4, <1>5

Pool == DownIsIdle /\ ActiveCovers /\ SingleRun

\* A step that leaves the pool alone and at most moves a running worker on keeps Pool.
LEMMA PoolUntouched ==
    ASSUME Inv, UNCHANGED <<up, active, queue, job>>,
           \/ UNCHANGED wpc
           \/ \E w \in Workers, to \in WorkerStates \ {"idle"} :
                 wpc[w] # "idle" /\ wpc' = [wpc EXCEPT ![w] = to],
           \/ UNCHANGED cpc
           \/ up
    PROVE  Pool'
  <1>1. \A w \in Workers : wpc'[w] = "idle" <=> wpc[w] = "idle"
    BY DEF Inv, TypeOK
  <1>2. Queued' = Queued
    BY DEF Queued
  <1>3. QED
    BY <1>1, <1>2 DEF Pool, Inv, DownIsIdle, ActiveCovers, SingleRun, Running

\* Every step keeps Pool: the pool changes in Enqueue, Take, Discard, Crash and Recover only.
LEMMA PoolStep ==
    ASSUME Inv, [Next]_vars
    PROVE  Pool'
  <1> USE DEF Inv
  <1>1. ASSUME NEW c \in Clients, ClientStep(c)
        PROVE  Pool'
    <2>1. CASE Enqueue(c)
      <3> DEFINE j == target[c]
      <3>1. j \in Jobs /\ up /\ queue \in Seq(Jobs) /\ NoRepeats(queue) /\ Elements(queue) = Queued
        BY <2>1 DEF Enqueue, TypeOK, DownIsIdle, SingleRun, NoRepeats, Elements, Queued
      <3>2. CASE j \in active
        BY <2>1, <3>1, <3>2, PoolUntouched DEF Enqueue, poolVars, workVars
      <3>3. CASE j \notin active
        <4>1. /\ NoRepeats(queue') /\ Queued' = Queued \cup {j}
              /\ active' = active \cup {j}
              /\ UNCHANGED <<up, wpc, job>>
          <5>1. queue' = Append(queue, j)
            BY <2>1, <3>3 DEF Enqueue, poolVars
          <5>2. j \notin Elements(queue)
            BY <3>1, <3>3 DEF ActiveCovers
          <5>3. NoRepeats(queue') /\ Elements(queue') = Elements(queue) \cup {j}
            BY <5>1, <5>2, <3>1, AppendDistinct
          <5>4. Queued' = Elements(queue')
            BY DEF Queued, Elements
          <5>5. QED
            BY <5>3, <5>4, <3>1, <3>3, <2>1 DEF Enqueue, workVars, poolVars
        <4>2. QED
          BY <4>1, <3>1, <3>3 DEF Pool, DownIsIdle, ActiveCovers, SingleRun, Running, NoRepeats
      <3>4. QED
        BY <3>2, <3>3
    <2>2. CASE /\ up
               /\ UNCHANGED <<up, poolVars, workVars>>
      BY <2>2, PoolUntouched DEF poolVars, workVars
    <2>3. cpc[c] # "idle" => up
      BY DEF DownIsIdle
    <2>4. QED
      BY <1>1, <2>1, <2>2, <2>3
         DEF ClientStep, Submit, RetryPlan, SubmitRetry, RefuseRetry, CancelRead, CancelSave
  <1>2. ASSUME NEW w \in Workers, WorkerStep(w)
        PROVE  Pool'
    <2>1. CASE Take(w)
      <3>1. /\ queue \in Seq(Jobs) /\ queue # <<>> /\ NoRepeats(queue)
            /\ Elements(queue) = Queued
            /\ queue' = Tail(queue)
            /\ Queued' = Elements(queue')
        BY <2>1 DEF Take, TypeOK, SingleRun, NoRepeats, Queued, Elements
      <3>2. /\ NoRepeats(queue')
            /\ Queued' \subseteq Queued
            /\ Head(queue) \in Queued
            /\ Head(queue) \notin Queued'
        BY <3>1, TailDistinct
      <3>3. /\ up' = up /\ up /\ active' = active
            /\ wpc[w] = "idle"
            /\ job' = [job EXCEPT ![w] = Head(queue)]
            /\ \E to \in {"start", "discard"} : wpc' = [wpc EXCEPT ![w] = to]
        BY <2>1, <3>1 DEF Take, DownIsIdle
      <3>4. /\ \A v \in Workers : v # w => wpc'[v] = wpc[v] /\ job'[v] = job[v]
            /\ wpc'[w] # "idle" /\ job'[w] = Head(queue)
        BY <3>3 DEF TypeOK
      <3>5. ActiveCovers'
        BY <3>2, <3>3, <3>4 DEF ActiveCovers, Running
      <3>6. SingleRun'
        <4>1. \A u, v \in Workers :
                 wpc'[u] # "idle" /\ wpc'[v] # "idle" /\ job'[u] = job'[v] => u = v
          BY <3>2, <3>4 DEF SingleRun, Running
        <4>2. \A v \in Workers : wpc'[v] # "idle" => job'[v] \notin Queued'
          BY <3>2, <3>4 DEF SingleRun, Running
        <4>3. QED
          BY <4>1, <4>2, <3>2 DEF SingleRun, Running, NoRepeats
      <3>7. QED
        BY <3>3, <3>5, <3>6 DEF Pool, DownIsIdle
    <2>2. CASE Discard(w)
      <3>1. /\ wpc[w] = "discard" /\ wpc' = [wpc EXCEPT ![w] = "idle"]
            /\ active' = active \ {job[w]}
            /\ job' = [job EXCEPT ![w] = None]
            /\ UNCHANGED <<up, queue, cpc>>
        BY <2>2 DEF Discard, Goto, clientVars
      <3>2. Queued' = Queued
        BY <3>1 DEF Queued
      <3>3. /\ \A v \in Workers : v # w => wpc'[v] = wpc[v] /\ job'[v] = job[v]
            /\ wpc'[w] = "idle"
        BY <3>1 DEF TypeOK
      <3>4. /\ job[w] \notin Queued
            /\ \A v \in Workers : v # w /\ wpc[v] # "idle" => job[v] # job[w]
        BY <3>1 DEF SingleRun, Running
      <3>5. ActiveCovers'
        BY <3>1, <3>2, <3>3, <3>4 DEF ActiveCovers, Running
      <3>6. SingleRun'
        <4>1. \A u, v \in Workers :
                 wpc'[u] # "idle" /\ wpc'[v] # "idle" /\ job'[u] = job'[v] => u = v
          BY <3>1, <3>3 DEF SingleRun, Running
        <4>2. \A v \in Workers : wpc'[v] # "idle" => job'[v] \notin Queued'
          BY <3>2, <3>3 DEF SingleRun, Running
        <4>3. QED
          BY <4>1, <4>2, <3>1 DEF SingleRun, Running
      <3>7. DownIsIdle'
        BY <3>1, <3>3 DEF DownIsIdle
      <3>8. QED
        BY <3>5, <3>6, <3>7 DEF Pool
    <2>3. CASE /\ UNCHANGED <<up, active, queue, job, cpc>>
               /\ \E to \in WorkerStates \ {"idle"} :
                     wpc[w] # "idle" /\ wpc' = [wpc EXCEPT ![w] = to]
      BY <2>3, PoolUntouched
    <2>4. QED
      BY <1>2, <2>1, <2>2, <2>3
         DEF WorkerStep, Start, Load, Pick, LeaveLoop, Execute, ExecuteRaises, Record, Progress,
             Collect, Bundle, BundleRaises, Finish, Goto, poolVars, clientVars, WorkerStates
  <1>3. CASE Crash
    BY <1>3 DEF Crash, Pool, DownIsIdle, ActiveCovers, SingleRun, Running, Queued
  <1>4. CASE Recover
    <2>1. /\ \A i, k \in DOMAIN queue' : queue'[i] = queue'[k] => i = k
          /\ Queued' \subseteq active'
          /\ \A w \in Workers : wpc'[w] = "idle"
          /\ up'
      BY <1>4 DEF Recover, Queued, DownIsIdle, workVars
    <2>2. QED
      BY <2>1 DEF Pool, DownIsIdle, ActiveCovers, SingleRun, Running
  <1>5. ASSUME NEW j \in Jobs, NEW o \in Outputs, Damage(j, o)
        PROVE  Pool'
    BY <1>5, PoolUntouched DEF Damage, poolVars, workVars, clientVars
  <1>6. CASE UNCHANGED vars
    BY <1>6, PoolUntouched DEF vars
  <1>7. QED
    BY <1>1, <1>2, <1>3, <1>4, <1>5, <1>6 DEF Next
-----------------------------------------------------------------------------
(* The table: what a step may do to the rows, records and items.           *)

\* A submitted job keeps its row, its record stays submitted, and a requested cancellation
\* stays requested.
Grows(j) ==
    Exists(j) => /\ Exists(j)'
                 /\ rows'[j] = rows[j]
                 /\ jobs[j].cancel => jobs'[j].cancel

\* A save keeps the job it writes, given a record that is not "absent".
LEMMA SaveGrows ==
    ASSUME Inv, NEW j \in Jobs, NEW rec \in WeatherJobs, rec.state # "absent", Save(j, rec)
    PROVE  \A i \in Jobs : Grows(i)
  BY DEF Inv, TypeOK, StoreTypeOK, Save, Merged, Grows, Exists, WeatherJobs

\* A busy worker's local record is that of a submitted job.
LEMMA CopyIsLive ==
    ASSUME Inv, NEW w \in Workers, wpc[w] \in Busy \ {"start"}
    PROVE  copy[w].state # "absent"
  BY DEF Inv, WorkersKnow, Knows, Ended, Terminal, Busy

\* Every step lets the table grow only.
LEMMA TableGrows ==
    ASSUME Inv, [Next]_vars
    PROVE  \A j \in Jobs : Grows(j)
  <1> USE DEF Inv, TypeOK, StoreTypeOK
  <1>1. CASE UNCHANGED storeVars
    BY <1>1 DEF storeVars, Grows, Exists
  <1>2. ASSUME NEW j \in Jobs, NEW p, NEW k, NEW parent, InsertJob(j, p, k, parent)
        PROVE  \A i \in Jobs : Grows(i)
    BY <1>2 DEF InsertJob, Grows, Exists
  <1>3. ASSUME NEW c \in Clients, CancelSave(c)
        PROVE  \A i \in Jobs : Grows(i)
    <2>1. /\ target[c] \in Jobs
          /\ [read[c] EXCEPT !.cancel = TRUE] \in WeatherJobs
          /\ [read[c] EXCEPT !.cancel = TRUE].state # "absent"
          /\ Save(target[c], [read[c] EXCEPT !.cancel = TRUE])
      BY <1>3 DEF CancelSave, SaveCancelled, ReadsUnfinished, Active, WeatherJobs
    <2>2. QED
      BY <2>1, SaveGrows
  <1>4. ASSUME NEW w \in Workers, Start(w) \/ Progress(w) \/ Finish(w)
        PROVE  \A i \in Jobs : Grows(i)
    <2>1. wpc[w] \in Busy /\ job[w] \in Jobs /\ copy[w] \in WeatherJobs
      BY <1>4 DEF Start, Progress, Finish, Goto, Busy, WorkerStates
    <2>2. CASE Start(w)
      <3>1. /\ [copy[w] EXCEPT !.state = "running"] \in WeatherJobs
            /\ [copy[w] EXCEPT !.state = "running"].state # "absent"
        BY <2>1 DEF WeatherJobs, JobStates, Active
      <3>2. QED
        BY <2>1, <2>2, <3>1, SaveGrows DEF Start, SaveCopy
    <2>3. CASE Progress(w)
      <3>1. copy[w].state # "absent"
        BY <2>1, <2>3, CopyIsLive DEF Progress, Goto
      <3>2. Counted(w).state = copy[w].state
        BY <2>1 DEF Counted, WeatherJobs
      <3>3. Counted(w) \in WeatherJobs
        BY <2>3, CountedType DEF Progress, Goto
      <3>4. QED
        BY <2>1, <2>3, <3>1, <3>2, <3>3, SaveGrows DEF Progress, SaveCopy
    <2>4. CASE Finish(w)
      BY <2>1, <2>4, CopyIsLive, SaveGrows DEF Finish, SaveCopy, Goto
    <2>5. QED
      BY <1>4, <2>2, <2>3, <2>4
  <1>5. CASE UNCHANGED <<rows, jobs>>
    BY <1>5 DEF Grows, Exists
  <1>6. ASSUME NEW c \in Clients, ClientStep(c)
        PROVE  \A i \in Jobs : Grows(i)
    BY <1>6, <1>1, <1>2, <1>3
       DEF ClientStep, Submit, ReturnPrior, Enqueue, RetryPlan, SubmitRetry, RefuseRetry, CancelRead
  <1>7. ASSUME NEW w \in Workers, WorkerStep(w)
        PROVE  \A i \in Jobs : Grows(i)
    BY <1>7, <1>1, <1>4, <1>5
       DEF WorkerStep, Take, Load, Pick, LeaveLoop, Execute, ExecuteRaises, Record, Collect,
           Bundle, BundleRaises, Discard, CompleteItem
  <1>8. QED
    BY <1>1, <1>5, <1>6, <1>7 DEF Next, Crash, Recover, Damage, DamageItem, vars, storeVars

\* Records that are read, jobs in the pool and items all belong to submitted jobs.
LEMMA SubmittedStep ==
    ASSUME Inv, [Next]_vars
    PROVE  (OnlySubmitted /\ ReadsUnfinished)'
  <1> USE DEF Inv, TypeOK, StoreTypeOK
  <1> DEFINE Blank(j) == ~Exists(j) => jobs[j] = NoJob /\ items[j] = NoItems
             Planned(j) == \A o \in Outputs : items[j][o] # "none" => o \in rows[j].plan.outputs
             Acting(c) == /\ cpc[c] # "idle" => Exists(target[c])
                          /\ cpc[c] = "cancel" => read[c].state \in Active
  <1>1. TypeOK' /\ \A j \in Jobs : Grows(j)
    BY TableGrows, TypeStep
  <1>2. \A j \in Jobs : Exists(j) => Exists(j)'
    BY <1>1 DEF Grows
  <1>3. ASSUME NEW c \in Clients, ClientStep(c)
        PROVE  (OnlySubmitted /\ ReadsUnfinished)'
    <2>1. items' = items
      BY <1>3 DEF ClientStep, Submit, InsertJob, ReturnPrior, Enqueue, RetryPlan, SubmitRetry,
         RefuseRetry, CancelRead, CancelSave, SaveCancelled, Save, storeVars
    <2>2. \A j \in Jobs : (Blank(j) /\ Planned(j))'
      <3>1. ASSUME NEW j \in Jobs, NEW p, NEW k, NEW q, InsertJob(j, p, k, q)
            PROVE  \A i \in Jobs : (Blank(i) /\ Planned(i))'
        BY <3>1, Constants DEF InsertJob, OnlySubmitted, Exists, NewJob, NoItems
      <3>2. CASE UNCHANGED storeVars
        BY <3>2 DEF storeVars, OnlySubmitted, Exists
      <3>3. CASE CancelSave(c)
        BY <2>1, <1>2, <3>3 DEF CancelSave, SaveCancelled, Save, OnlySubmitted, Exists
      <3>4. QED
        BY <1>3, <3>1, <3>2, <3>3 DEF ClientStep, Submit, ReturnPrior, Enqueue, RetryPlan,
           SubmitRetry, RefuseRetry, CancelRead
    <2>3. \A j \in active' : Exists(j)'
      BY <1>2, <1>3 DEF ClientStep, Submit, Enqueue, RetryPlan, SubmitRetry, RefuseRetry,
         CancelRead, CancelSave, poolVars, OnlySubmitted
    <2>4. \A d \in Clients : Acting(d)'
      <3>1. \A d \in Clients : d # c => Acting(d)'
        BY <1>2, <1>3 DEF ClientStep, Submit, MustEnqueue, Enqueue, Returns, RetryPlan, SubmitRetry,
           RefuseRetry, CancelRead, CancelSave, OnlySubmitted, ReadsUnfinished
      <3>2. Acting(c)'
        <4>1. ASSUME NEW j \in Jobs, NEW p, NEW k, NEW q,
                     InsertJob(j, p, k, q) \/ ReturnPrior(j, p, k), MustEnqueue(c, j)
              PROVE  Acting(c)'
          BY <4>1 DEF InsertJob, ReturnPrior, Prior, MustEnqueue, Exists, NewJob, storeVars
        <4>2. ASSUME NEW j \in Jobs, RetryPlan(c, j) \/ CancelRead(c, j)
              PROVE  Acting(c)'
          BY <4>2 DEF RetryPlan, CancelRead, Finished, Unfinished, Exists, Terminal, Active,
             storeVars
        <4>3. CASE Returns(c)
          BY <4>3 DEF Returns
        <4>4. QED
          BY <1>3, <4>1, <4>2, <4>3 DEF ClientStep, Submit, Enqueue, SubmitRetry, RefuseRetry,
             CancelSave
      <3>3. QED
        BY <3>1, <3>2
    <2>5. QED
      BY <2>2, <2>3, <2>4 DEF OnlySubmitted, ReadsUnfinished
  <1>4. ASSUME NEW w \in Workers, WorkerStep(w)
        PROVE  (OnlySubmitted /\ ReadsUnfinished)'
    <2>1. /\ UNCHANGED <<cpc, target, read, rows>>
          /\ active' \subseteq active
      BY <1>4 DEF WorkerStep, Take, Start, SaveCopy, Save, Load, Pick, LeaveLoop, Execute,
         ExecuteRaises, Record, CompleteItem, Progress, Collect, Bundle, BundleRaises, Finish,
         Discard, clientVars, poolVars, storeVars
    <2>2. \A j \in Jobs : (Blank(j) /\ Planned(j))'
      <3>1. CASE UNCHANGED storeVars
        BY <3>1 DEF storeVars, OnlySubmitted, Exists
      <3>2. CASE Record(w)
        <4>1. /\ wpc[w] = "record"
              /\ jobs' = jobs /\ items' = [items EXCEPT ![job[w]][cur[w]] = result[w]]
          BY <3>2 DEF Record, CompleteItem, Goto
        <4>2. /\ job[w] \in Jobs /\ Exists(job[w])
              /\ cur[w] \in rows[job[w]].plan.outputs
          BY <4>1 DEF WorkersKnow, Knows, Unfinished, Exists, Active, Busy, WorkerStates
        <4>3. QED
          BY <4>1, <4>2, <2>1 DEF OnlySubmitted, Exists
      <3>3. CASE Start(w) \/ Progress(w) \/ Finish(w)
        <4>1. /\ items' = items
              /\ \A j \in Jobs : j # job[w] => jobs'[j] = jobs[j]
              /\ wpc[w] \in Busy
          BY <3>3 DEF Start, Progress, Finish, SaveCopy, Save, Goto, Busy, WorkerStates
        <4>2. job[w] \in Jobs /\ Exists(job[w])
          BY <4>1 DEF WorkersKnow, Knows, Unfinished, Exists, Active, Busy, WorkerStates
        <4>3. QED
          BY <1>2, <2>1, <4>1, <4>2 DEF OnlySubmitted, Exists
      <3>4. QED
        BY <1>4, <3>1, <3>2, <3>3
           DEF WorkerStep, Take, Load, Pick, LeaveLoop, Execute, ExecuteRaises, Collect, Bundle,
               BundleRaises, Discard
    <2>3. QED
      BY <1>2, <2>1, <2>2 DEF OnlySubmitted, ReadsUnfinished
  <1>5. CASE Crash
    BY <1>5 DEF Crash, storeVars, OnlySubmitted, ReadsUnfinished, Exists
  <1>6. CASE Recover
    BY <1>6 DEF Recover, storeVars, clientVars, OnlySubmitted, ReadsUnfinished, Exists,
       UnfinishedJobs, Unfinished, Active
  <1>7. ASSUME NEW j \in Jobs, NEW o \in Outputs, Damage(j, o)
        PROVE  (OnlySubmitted /\ ReadsUnfinished)'
    <2>1. /\ items' = [items EXCEPT ![j][o] = IF @ = "weather" THEN "broken" ELSE "spoiled"]
          /\ items[j][o] \in Verified
          /\ UNCHANGED <<rows, jobs, active, cpc, target, read>>
      BY <1>7 DEF Damage, DamageItem, poolVars, clientVars
    <2>2. items[j][o] # "none"
      BY <2>1 DEF Verified
    <2>3. Exists(j) /\ o \in rows[j].plan.outputs
      BY <2>2 DEF OnlySubmitted, NoItems
    <2>4. QED
      BY <2>1, <2>3 DEF OnlySubmitted, ReadsUnfinished, Exists
  <1>8. CASE UNCHANGED vars
    BY <1>8 DEF vars, OnlySubmitted, ReadsUnfinished, Exists
  <1>9. QED
    BY <1>3, <1>4, <1>5, <1>6, <1>7, <1>8 DEF Next
-----------------------------------------------------------------------------
(* The runs: what a worker knows about its job stays true.                 *)

Good == {"weather", "broken"}

\* Whoever moves, a running worker's knowledge stands while its locals, its job's being
\* unfinished and the items it counts on stand.
LEMMA KnowsFrame ==
    ASSUME Inv, [Next]_vars, NEW w \in Workers,
           /\ wpc'[w] = wpc[w] /\ job'[w] = job[w] /\ copy'[w] = copy[w]
           /\ have'[w] = have[w] /\ cur'[w] = cur[w],
           wpc[w] # "idle" =>
              /\ Unfinished(job[w]) => jobs'[job[w]].state \in Active
              /\ \A o \in Outputs : items[job[w]][o] \in Good => items'[job[w]][o] \in Good
    PROVE  Knows(w)'
  <1>1. CASE wpc[w] \notin Busy
    BY <1>1 DEF Knows, Busy, InLoop, WorkerStates
  <1>2. CASE wpc[w] \in Busy
    <2>1. /\ job[w] \in Jobs /\ wpc[w] # "idle"
          /\ Knows(w) /\ Unfinished(job[w]) /\ Exists(job[w])
      BY <1>2 DEF Inv, TypeOK, WorkersKnow, Knows, Busy, Unfinished, Exists, Active
    <2>2. /\ rows'[job[w]] = rows[job[w]]
          /\ jobs[job[w]].cancel => jobs'[job[w]].cancel
      BY <2>1, TableGrows DEF Grows
    <2>3. /\ wpc'[w] \in Busy => Unfinished(job[w])' /\ (copy'[w].cancel => jobs'[job'[w]].cancel)
          /\ wpc'[w] \in Busy \ {"start", "finish"} => copy'[w].state = "running"
          /\ wpc'[w] \in {"execute", "record", "progress"}
                => cur'[w] \in rows'[job'[w]].plan.outputs
      BY <2>1, <2>2 DEF Knows, Unfinished
    <2>4. wpc'[w] \in InLoop => \A o \in Outputs :
             /\ have'[w][o] # "none" => o \in rows'[job'[w]].plan.outputs
             /\ have'[w][o] = "weather" => items'[job'[w]][o] \in {"weather", "broken"}
      BY <2>1, <2>2 DEF Knows, Good
    <2>5. wpc'[w] = "finish" => Ended(w)'
      BY <2>1, <2>2 DEF Knows, Ended, Produced
    <2>6. QED
      BY <2>1, <2>3, <2>4, <2>5 DEF Knows, Unfinished
  <1>3. QED
    BY <1>1, <1>2

\* A step leaves the runs of everyone else as they are.
LEMMA KnowsOthers ==
    ASSUME Inv, Next, NEW w \in Workers, ~WorkerStep(w)
    PROVE  Knows(w)'
  <1> USE DEF Inv, TypeOK, StoreTypeOK
  <1> DEFINE Same == /\ wpc'[w] = wpc[w] /\ job'[w] = job[w] /\ copy'[w] = copy[w]
                     /\ have'[w] = have[w] /\ cur'[w] = cur[w]
             Stands == wpc[w] # "idle" =>
                         /\ Unfinished(job[w]) => jobs'[job[w]].state \in Active
                         /\ \A o \in Outputs : items[job[w]][o] \in Good
                                               => items'[job[w]][o] \in Good
  <1>1. CASE UNCHANGED storeVars
    <2>1. Stands
      BY <1>1 DEF storeVars, Unfinished
    <2>2. CASE Same
      BY <2>1, <2>2, KnowsFrame
    <2>3. CASE Crash
      BY <2>3 DEF Crash, Knows, Busy, InLoop
    <2>4. CASE Recover \/ (\E j \in Jobs, o \in Outputs : Damage(j, o))
               \/ (\E c \in Clients : ClientStep(c))
      <3>1. Same
        BY <2>4 DEF Recover, Damage, ClientStep, Submit, Enqueue, RetryPlan, SubmitRetry,
           RefuseRetry, CancelRead, CancelSave, workVars
      <3>2. QED
        BY <2>2, <3>1
    <2>5. ASSUME NEW v \in Workers, WorkerStep(v), v # w
          PROVE  Same
      BY <2>5 DEF WorkerStep, Take, Start, SaveCopy, Load, Pick, LeaveLoop, Execute,
         ExecuteRaises, Record, Progress, Collect, Bundle, BundleRaises, Finish, Discard, Goto,
         clientVars, poolVars
    <2>6. QED
      BY <2>2, <2>3, <2>4, <2>5 DEF Next
  <1>2. ASSUME NEW j \in Jobs, NEW o \in Outputs, Damage(j, o)
        PROVE  Knows(w)'
    <2>1. Same /\ Stands
      BY <1>2 DEF Damage, DamageItem, workVars, Unfinished, Good, Verified
    <2>2. QED
      BY <2>1, KnowsFrame
  <1>3. ASSUME NEW c \in Clients, ClientStep(c), ~UNCHANGED storeVars
        PROVE  Knows(w)'
    <2>1. Same /\ items' = items
      BY <1>3 DEF ClientStep, Submit, InsertJob, ReturnPrior, Enqueue, RetryPlan, SubmitRetry,
         RefuseRetry, CancelRead, CancelSave, SaveCancelled, Save, workVars, storeVars
    <2>2. ASSUME NEW j \in Jobs, Unfinished(j)
          PROVE  jobs'[j].state \in Active
      <3>1. ASSUME NEW i \in Jobs, NEW p, NEW k, NEW q, InsertJob(i, p, k, q)
            PROVE  jobs'[j].state \in Active
        BY <2>2, <3>1 DEF InsertJob, Unfinished, Exists, Active
      <3>2. CASE CancelSave(c)
        <4>1. /\ target[c] \in Jobs /\ read[c] \in WeatherJobs
              /\ read[c].state \in Active
              /\ jobs' = [jobs EXCEPT ![target[c]] =
                            Merged(target[c], [read[c] EXCEPT !.cancel = TRUE])]
          BY <3>2 DEF CancelSave, SaveCancelled, Save, ReadsUnfinished
        <4>2. Merged(target[c], [read[c] EXCEPT !.cancel = TRUE]).state = read[c].state
          BY <4>1 DEF Merged, WeatherJobs
        <4>3. QED
          BY <2>2, <4>1, <4>2 DEF Unfinished
      <3>3. QED
        BY <1>3, <2>2, <3>1, <3>2 DEF ClientStep, Submit, ReturnPrior, Enqueue, RetryPlan,
           SubmitRetry, RefuseRetry, CancelRead, storeVars, Unfinished
    <2>3. wpc[w] # "idle" => job[w] \in Jobs
      OBVIOUS
    <2>4. QED
      BY <2>1, <2>2, <2>3, KnowsFrame
  <1>4. ASSUME NEW v \in Workers, WorkerStep(v), v # w, ~UNCHANGED storeVars
        PROVE  Knows(w)'
    <2>1. Same
      BY <1>4 DEF WorkerStep, Take, Start, SaveCopy, Load, Pick, LeaveLoop, Execute,
         ExecuteRaises, Record, Progress, Collect, Bundle, BundleRaises, Finish, Discard, Goto,
         clientVars, poolVars
    <2>2. wpc[v] # "idle" /\ job[v] \in Jobs
      BY <1>4 DEF WorkerStep, Take, Start, Load, Pick, LeaveLoop, Execute, ExecuteRaises, Record,
         Progress, Collect, Bundle, BundleRaises, Finish, Discard, Goto
    <2>3. \A j \in Jobs : j # job[v] => jobs'[j] = jobs[j] /\ items'[j] = items[j]
      BY <1>4, <2>2 DEF WorkerStep, Take, Start, SaveCopy, Save, Load, Pick, LeaveLoop, Execute,
         ExecuteRaises, Record, CompleteItem, Progress, Collect, Bundle, BundleRaises, Finish,
         Discard, storeVars
    <2>4. wpc[w] # "idle" => job[w] # job[v] /\ job[w] \in Jobs
      BY <1>4, <2>2 DEF SingleRun, Running
    <2>5. Stands
      BY <2>3, <2>4 DEF Unfinished
    <2>6. QED
      BY <2>1, <2>5, KnowsFrame
  <1>5. QED
    BY <1>1, <1>2, <1>3, <1>4 DEF Next, Crash, Recover

\* "completed" is decided by counting, and the count is right: a worker keeps only outputs of
\* its plan, so as many as planned are all of them.
LEMMA CountedAll ==
    ASSUME Inv, NEW w \in Workers, wpc[w] = "bundle",
           ~(Cardinality(Produced(w)) < Total(job[w]))
    PROVE  Produced(w) = rows[job[w]].plan.outputs
  <1>1. /\ rows[job[w]].plan.outputs \subseteq Outputs
        /\ Produced(w) \subseteq rows[job[w]].plan.outputs
    BY DEF Inv, TypeOK, StoreTypeOK, Rows, Plans, WorkersKnow, Knows, InLoop, Produced
  <1>2. IsFiniteSet(rows[job[w]].plan.outputs)
    BY <1>1, OutputCounts
  <1>3. Cardinality(Produced(w)) \in Nat /\ Total(job[w]) \in Nat
    BY <1>1, OutputCounts DEF Total
  <1>4. QED
    BY <1>1, <1>2, <1>3, FS_Subset DEF Total

\* A worker's own step keeps what it knows.
LEMMA KnowsOwn ==
    ASSUME Inv, NEW w \in Workers, WorkerStep(w)
    PROVE  Knows(w)'
  <1> USE DEF Inv, TypeOK, StoreTypeOK
  <1> DEFINE Basic == /\ wpc[w] \in Busy => Unfinished(job[w]) /\ (copy[w].cancel => jobs[job[w]].cancel)
                      /\ wpc[w] \in Busy \ {"start", "finish"} => copy[w].state = "running"
             Holding == \A o \in Outputs :
                           /\ have[w][o] # "none" => o \in rows[job[w]].plan.outputs
                           /\ have[w][o] = "weather" => items[job[w]][o] \in {"weather", "broken"}
  <1>1. Knows(w)
    BY DEF WorkersKnow
  <1>2. CASE Take(w)
    <2>1. /\ wpc'[w] \in {"start", "discard"}
          /\ wpc'[w] = "start" => Unfinished(job'[w]) /\ copy'[w] = jobs[job'[w]]
          /\ jobs' = jobs
      BY <1>2 DEF Take, storeVars
    <2>2. QED
      BY <2>1 DEF Knows, Busy, InLoop, Unfinished
  <1>3. CASE wpc'[w] \in {"idle", "discard"}
    BY <1>3 DEF Knows, Busy, InLoop
  <1>4. CASE Start(w)
    <2>1. /\ wpc[w] = "start" /\ wpc'[w] = "load" /\ job' = job
          /\ copy'[w] = Merged(job[w], [copy[w] EXCEPT !.state = "running"])
          /\ jobs'[job[w]] = copy'[w]
      BY <1>4 DEF Start, SaveCopy, Save, Goto
    <2>2. copy'[w].state = "running"
      BY <2>1 DEF Merged, WeatherJobs
    <2>3. QED
      BY <2>1, <2>2 DEF Knows, Busy, InLoop, Unfinished, Active
  <1>5. CASE Load(w)
    <2>1. /\ wpc[w] = "load" /\ wpc'[w] = "next"
          /\ UNCHANGED <<rows, jobs, items, job, copy>>
          /\ \A o \in Outputs : have'[w][o] = IF items[job[w]][o] \in Verified
                                              THEN items[job[w]][o] ELSE "none"
      BY <1>5 DEF Load, Goto, storeVars
    <2>2. job[w] \in Jobs
      BY <2>1
    <2>3. Basic'
      BY <1>1, <2>1 DEF Knows, Busy, WorkerStates, Unfinished
    <2>4. Holding'
      BY <2>1, <2>2 DEF Verified, OnlySubmitted
    <2>5. QED
      BY <2>1, <2>3, <2>4 DEF Knows
  <1>6. CASE Pick(w)
    <2>1. /\ wpc[w] = "next" /\ wpc'[w] = "execute"
          /\ UNCHANGED <<rows, jobs, items, job, copy, have>>
          /\ cur'[w] \in Remaining(w)
      BY <1>6 DEF Pick, Goto, storeVars
    <2>2. QED
      BY <1>1, <2>1 DEF Knows, Busy, InLoop, WorkerStates, Unfinished, Remaining
  <1>7. CASE LeaveLoop(w) \/ Execute(w)
    <2>1. /\ wpc[w] \in {"next", "execute"} /\ wpc'[w] \in {"collect", "record"}
          /\ wpc[w] = "next" => wpc'[w] = "collect"
          /\ UNCHANGED <<rows, jobs, items, job, copy, have, cur>>
      BY <1>7 DEF LeaveLoop, Execute, Goto, storeVars
    <2>2. QED
      BY <1>1, <2>1 DEF Knows, Busy, InLoop, WorkerStates, Unfinished
  <1>8. CASE ExecuteRaises(w)
    <2>1. /\ wpc[w] = "execute" /\ wpc'[w] = "progress"
          /\ UNCHANGED <<rows, jobs, items, job, have, cur>>
          /\ copy'[w].state = copy[w].state /\ copy'[w].cancel = copy[w].cancel
      BY <1>8 DEF ExecuteRaises, Goto, storeVars, WeatherJobs
    <2>2. QED
      BY <1>1, <2>1 DEF Knows, Busy, InLoop, WorkerStates, Unfinished
  <1>9. CASE Record(w)
    <2>1. /\ wpc[w] = "record" /\ wpc'[w] = "progress"
          /\ UNCHANGED <<rows, jobs, job, copy, cur>>
          /\ items' = [items EXCEPT ![job[w]][cur[w]] = result[w]]
          /\ have' = [have EXCEPT ![w][cur[w]] = result[w]]
          /\ job[w] \in Jobs /\ cur[w] \in Outputs
      BY <1>9 DEF Record, CompleteItem, Goto
    <2>2. cur[w] \in rows[job[w]].plan.outputs
      BY <1>1, <2>1 DEF Knows
    <2>3. Basic'
      BY <1>1, <2>1 DEF Knows, Busy, WorkerStates, Unfinished
    <2>4. Holding'
      BY <1>1, <2>1, <2>2 DEF Knows, InLoop
    <2>5. QED
      BY <2>1, <2>2, <2>3, <2>4 DEF Knows
  <1>10. CASE Progress(w)
    <2>1. /\ wpc[w] = "progress" /\ wpc'[w] = "next" /\ job' = job /\ job[w] \in Jobs
          /\ UNCHANGED <<rows, items, have>>
          /\ copy'[w] = Merged(job[w], Counted(w))
          /\ jobs'[job[w]] = copy'[w]
      BY <1>10 DEF Progress, SaveCopy, Save, Goto
    <2>2. copy'[w].state = "running"
      <3>1. Counted(w).state = copy[w].state /\ Counted(w) \in WeatherJobs
        BY <2>1, CountedType DEF Counted, WeatherJobs
      <3>2. copy[w].state = "running"
        BY <1>1, <2>1 DEF Knows, Busy, WorkerStates
      <3>3. QED
        BY <2>1, <3>1, <3>2 DEF Merged, WeatherJobs
    <2>3. Holding'
      BY <1>1, <2>1 DEF Knows, InLoop
    <2>4. QED
      BY <2>1, <2>2, <2>3 DEF Knows, Unfinished, Active
  <1>11. CASE Collect(w)
    <2>1. /\ wpc[w] = "collect" /\ wpc'[w] = "bundle"
          /\ UNCHANGED <<rows, jobs, items, job, have>>
          /\ copy'[w].state = copy[w].state /\ copy'[w].cancel = copy[w].cancel
      BY <1>11 DEF Collect, Collected, Goto, storeVars, WeatherJobs
    <2>2. QED
      BY <1>1, <2>1 DEF Knows, Busy, InLoop, WorkerStates, Unfinished
  <1>12. CASE Bundle(w)
    <2> DEFINE cancelled == jobs[job[w]].cancel
               made == Cardinality(Produced(w))
               short == IF made < Total(job[w]) THEN Total(job[w]) - made ELSE 0
    <2>1. /\ wpc[w] = "bundle" /\ wpc'[w] = "finish"
          /\ UNCHANGED <<rows, jobs, items, job, have>>
          /\ copy'[w] = Bundled(w)
      BY <1>12 DEF Bundle, Goto, storeVars
    <2>2. /\ copy'[w].state = Outcome(w, cancelled, short)
          /\ copy'[w].cancel = copy[w].cancel
      BY <2>1 DEF Bundled, WeatherJobs
    <2>3. Basic' /\ Holding'
      BY <1>1, <2>1, <2>2 DEF Knows, Busy, InLoop, WorkerStates, Unfinished
    <2>4. Produced(w)' = Produced(w)
      BY <2>1 DEF Produced
    <2>5. short = 0 => Produced(w) = rows[job[w]].plan.outputs
      <3>1. made \in Nat /\ Total(job[w]) \in Nat
        <4>1. Produced(w) \subseteq Outputs /\ rows[job[w]].plan.outputs \subseteq Outputs
          BY <2>1 DEF Produced, Rows, Plans
        <4>2. QED
          BY <4>1, OutputCounts DEF Total
      <3>2. short = 0 => ~(made < Total(job[w]))
        BY <3>1
      <3>3. QED
        BY <2>1, <3>2, CountedAll
    <2>6. Ended(w)'
      <3> HIDE DEF cancelled, short
      <3>1. Outcome(w, cancelled, short) \in Terminal
        BY DEF Outcome, Terminal
      <3>2. Outcome(w, cancelled, short) = "completed" => short = 0
        BY DEF Outcome
      <3>3. Outcome(w, cancelled, short) = "partially_completed" => Produced(w) # {}
        BY DEF Outcome
      <3>4. Outcome(w, cancelled, short) = "cancelled" => cancelled
        BY DEF Outcome
      <3>5. QED
        BY <2>1, <2>2, <2>4, <2>5, <3>1, <3>2, <3>3, <3>4 DEF Ended, cancelled
    <2>7. QED
      BY <2>1, <2>3, <2>6 DEF Knows
  <1>13. QED
    BY <1>2, <1>3, <1>4, <1>5, <1>6, <1>7, <1>8, <1>9, <1>10, <1>11, <1>12
       DEF WorkerStep, BundleRaises, Finish, Discard, Goto
-----------------------------------------------------------------------------
(* The inductive invariant and what follows from it.                       *)

\* The initial state satisfies the inductive invariant.
LEMMA InvInit == Init => Inv
  <1> SUFFICES ASSUME Init PROVE Inv
    OBVIOUS
  <1>1. TypeOK
    BY Constants DEF Init, StoreInit, IdleWorkers, IdleClients, TypeOK, StoreTypeOK, WorkerStates,
       ClientStates, ItemStates, HeldStates, NoItems
  <1>2. DownIsIdle /\ ActiveCovers /\ SingleRun
    BY DEF Init, IdleWorkers, IdleClients, DownIsIdle, ActiveCovers, SingleRun, Running, Queued
  <1>3. OnlySubmitted /\ ReadsUnfinished
    BY DEF Init, StoreInit, IdleClients, OnlySubmitted, ReadsUnfinished, NoJob, NewJob, NoItems,
       Exists
  <1>4. WorkersKnow
    BY DEF Init, IdleWorkers, WorkersKnow, Knows, Busy, InLoop
  <1>5. QED
    BY <1>1, <1>2, <1>3, <1>4 DEF Inv

\* Every step keeps the inductive invariant.
LEMMA InvStep == Inv /\ [Next]_vars => Inv'
  <1> SUFFICES ASSUME Inv, [Next]_vars PROVE Inv'
    OBVIOUS
  <1>1. TypeOK'
    BY TypeStep DEF Inv
  <1>2. (DownIsIdle /\ ActiveCovers /\ SingleRun)'
    BY PoolStep DEF Pool
  <1>3. (OnlySubmitted /\ ReadsUnfinished)'
    BY SubmittedStep
  <1>4. ASSUME NEW w \in Workers
        PROVE  Knows(w)'
    <2>1. CASE Next /\ WorkerStep(w)
      BY <2>1, KnowsOwn
    <2>2. CASE Next /\ ~WorkerStep(w)
      BY <2>2, KnowsOthers
    <2>3. CASE UNCHANGED vars
      <3>1. UNCHANGED <<wpc, job, copy, have, cur, rows, jobs, items>>
        BY <2>3 DEF vars
      <3>2. QED
        BY <3>1 DEF Inv, WorkersKnow, Knows, Ended, Produced, Unfinished
    <2>4. QED
      BY <2>1, <2>2, <2>3
  <1>5. QED
    BY <1>1, <1>2, <1>3, <1>4 DEF Inv, WorkersKnow

\* The inductive invariant holds in every reachable state.
THEOREM Invariance == Spec => []Inv
  BY InvInit, InvStep, PTL DEF Spec

\* No job is ever held twice by the pool or run by two workers at once, for any number of
\* workers, request threads, restarts and resubmissions (JobRunner.enqueue, _run).
THEOREM OneRunPerJob == Spec => []SingleRun
  <1>1. Inv => SingleRun
    BY DEF Inv
  <1>2. QED
    BY <1>1, Invariance, PTL

\* A requested cancellation is never lost, whatever stale record is written back over it
\* (JobStore.save), by any number of workers and cancelling threads.
THEOREM CancellationSticks == Spec => CancelSticks
  <1>1. Inv /\ [Next]_vars => [\A j \in Jobs : jobs[j].cancel => jobs'[j].cancel]_vars
    <2> SUFFICES ASSUME Inv, [Next]_vars, NEW j \in Jobs, jobs[j].cancel
                 PROVE  jobs'[j].cancel
      OBVIOUS
    <2>1. Exists(j)
      BY DEF Inv, OnlySubmitted, NoJob, NewJob
    <2>2. QED
      BY <2>1, TableGrows DEF Grows
  <1>2. QED
    BY <1>1, Invariance, PTL DEF Spec, CancelSticks

\* A step that submits a job finds its key unused; no step changes the key of a submitted job.
LEMMA FreshKey ==
    ASSUME Inv, [Next]_vars, NEW j \in Jobs, ~Exists(j), Exists(j)'
    PROVE  /\ \A i \in Jobs : i # j /\ Exists(i)' => Exists(i)
           /\ rows'[j].key # None => \A i \in Jobs : Exists(i) => rows[i].key # rows'[j].key
  <1> USE DEF Inv, TypeOK, StoreTypeOK
  <1>1. ASSUME NEW i \in Jobs, NEW p \in Plans, NEW k \in Keys \cup {None},
               NEW q \in Jobs \cup {None}, InsertJob(i, p, k, q)
        PROVE  /\ \A h \in Jobs : h # j /\ Exists(h)' => Exists(h)
               /\ rows'[j].key # None => \A h \in Jobs : Exists(h) => rows[h].key # rows'[j].key
    <2>1. i = j
      BY <1>1 DEF InsertJob, Exists
    <2>2. rows'[j].key = k
      BY <1>1, <2>1 DEF InsertJob
    <2>3. QED
      BY <1>1, <2>1, <2>2 DEF InsertJob, Prior, Exists
  <1>2. \A i \in Jobs : jobs'[i] = jobs[i] \/ Exists(i) => ~(i = j)
    <2>1. jobs'[j] # jobs[j]
      BY DEF Exists
    <2>2. QED
      BY <2>1
  <1>3. ASSUME NEW c \in Clients, CancelSave(c)
        PROVE  FALSE
    BY <1>2, <1>3 DEF CancelSave, SaveCancelled, Save, OnlySubmitted
  <1>4. ASSUME NEW w \in Workers, WorkerStep(w)
        PROVE  FALSE
    <2>1. ASSUME NEW i \in Jobs, NEW rec, Save(i, rec), Exists(i)
          PROVE  FALSE
      BY <1>2, <2>1 DEF Save
    <2>2. wpc[w] \in Busy => job[w] \in Jobs /\ Exists(job[w])
      BY DEF WorkersKnow, Knows, Busy, Unfinished, Exists, Active
    <2>3. CASE Start(w) \/ Progress(w) \/ Finish(w)
      BY <2>1, <2>2, <2>3 DEF Start, Progress, Finish, SaveCopy, Goto, Busy, WorkerStates
    <2>4. CASE jobs' = jobs
      BY <1>2, <2>4
    <2>5. QED
      BY <1>4, <2>3, <2>4 DEF WorkerStep, Take, Load, Pick, LeaveLoop, Execute, ExecuteRaises,
         Record, CompleteItem, Collect, Bundle, BundleRaises, Discard, storeVars
  <1>5. CASE jobs' = jobs
    BY <1>2, <1>5
  <1>6. ASSUME NEW c \in Clients, NEW p \in Requests, NEW k \in Keys \cup {None}, Submit(c, p, k)
        PROVE  \E i \in Jobs : InsertJob(i, p, k, None) \/ jobs' = jobs
    BY <1>6 DEF Submit, ReturnPrior, storeVars
  <1>7. ASSUME NEW c \in Clients, NEW k \in Keys \cup {None}, SubmitRetry(c, k)
        PROVE  \E i \in Jobs : InsertJob(i, retry[c], k, target[c]) \/ jobs' = jobs
    BY <1>7 DEF SubmitRetry, ReturnPrior, storeVars
  <1>8. ASSUME NEW c \in Clients, ClientStep(c)
        PROVE  /\ \A h \in Jobs : h # j /\ Exists(h)' => Exists(h)
               /\ rows'[j].key # None => \A h \in Jobs : Exists(h) => rows[h].key # rows'[j].key
    <2>1. ASSUME NEW p \in Requests, NEW k \in Keys \cup {None}, Submit(c, p, k), jobs' # jobs
          PROVE  \E i \in Jobs : InsertJob(i, p, k, None) /\ p \in Plans
      BY <1>6, <2>1, RunnerAssumption DEF RunnerAssumption
    <2>2. ASSUME NEW k \in Keys \cup {None}, SubmitRetry(c, k), jobs' # jobs
          PROVE  \E i \in Jobs : /\ InsertJob(i, retry[c], k, target[c])
                                 /\ retry[c] \in Plans /\ target[c] \in Jobs \cup {None}
      BY <1>7, <2>2
    <2>3. CASE \E p \in Requests, k \in Keys \cup {None} : Submit(c, p, k)
      BY <1>1, <1>5, <2>1, <2>3
    <2>4. CASE \E k \in Keys \cup {None} : SubmitRetry(c, k)
      BY <1>1, <1>5, <2>2, <2>4
    <2>5. QED
      BY <1>3, <1>5, <1>8, <2>3, <2>4
         DEF ClientStep, Enqueue, RetryPlan, RefuseRetry, CancelRead, storeVars
  <1>9. QED
    BY <1>4, <1>5, <1>8 DEF Next, Crash, Recover, Damage, DamageItem, storeVars, vars

\* An idempotency key never names two jobs, for any number of submissions, retries, threads
\* and restarts (JobStore.submit).
THEOREM KeysAreUnique == Spec => []KeyNamesOneJob
  <1>1. Init => KeyNamesOneJob
    BY DEF Init, StoreInit, KeyNamesOneJob, Exists, NoJob, NewJob
  <1>2. Inv /\ KeyNamesOneJob /\ [Next]_vars => KeyNamesOneJob'
    <2> SUFFICES ASSUME Inv, KeyNamesOneJob, [Next]_vars, NEW i \in Jobs, NEW j \in Jobs,
                        Exists(i)', Exists(j)', rows'[i].key = rows'[j].key, rows'[i].key # None
                 PROVE  i = j
      BY DEF KeyNamesOneJob
    <2>1. \A h \in Jobs : Exists(h) => rows'[h] = rows[h]
      BY TableGrows DEF Grows
    <2>2. CASE Exists(i) /\ Exists(j)
      BY <2>1, <2>2 DEF KeyNamesOneJob
    <2>3. CASE ~Exists(i)
      BY <2>1, <2>3, FreshKey
    <2>4. CASE ~Exists(j)
      BY <2>1, <2>4, FreshKey
    <2>5. QED
      BY <2>2, <2>3, <2>4
  <1>3. QED
    BY <1>1, <1>2, Invariance, PTL DEF Spec
-----------------------------------------------------------------------------
(* Refinement: the runner over the store implements JobContract.           *)

\* A save of one record moves one job of the contract; the flag is the merged one.
LEMMA SaveMaps ==
    ASSUME Inv, NEW j \in Jobs, NEW rec \in WeatherJobs, Save(j, rec)
    PROVE  /\ [i \in Jobs |-> jobs'[i].state] = [[i \in Jobs |-> jobs[i].state] EXCEPT ![j] = rec.state]
           /\ [i \in Jobs |-> jobs'[i].cancel] =
                 [[i \in Jobs |-> jobs[i].cancel] EXCEPT ![j] = jobs[j].cancel \/ rec.cancel]
           /\ [i \in Jobs |-> rows'[i].plan.outputs] = [i \in Jobs |-> rows[i].plan.outputs]
           /\ ProducedItems' = ProducedItems
  <1>1. /\ jobs \in [Jobs -> WeatherJobs]
        /\ jobs' = [jobs EXCEPT ![j] = Merged(j, rec)]
        /\ rows' = rows /\ items' = items
    BY DEF Inv, TypeOK, StoreTypeOK, Save
  <1>2. /\ Merged(j, rec).state = rec.state
        /\ Merged(j, rec).cancel = (jobs[j].cancel \/ rec.cancel)
    BY DEF Merged, WeatherJobs
  <1>3. \A i \in Jobs : i # j => jobs'[i] = jobs[i]
    BY <1>1
  <1>4. jobs'[j] = Merged(j, rec)
    BY <1>1
  <1>5. [i \in Jobs |-> jobs'[i].state] = [[i \in Jobs |-> jobs[i].state] EXCEPT ![j] = rec.state]
    BY <1>2, <1>3, <1>4
  <1>6. [i \in Jobs |-> jobs'[i].cancel] =
           [[i \in Jobs |-> jobs[i].cancel] EXCEPT ![j] = jobs[j].cancel \/ rec.cancel]
    BY <1>2, <1>3, <1>4, Zenon
  <1>7. QED
    BY <1>1, <1>5, <1>6 DEF ProducedItems

\* A step that leaves the table alone, up to damage, is a stutter of the contract.
LEMMA TableStutters ==
    ASSUME UNCHANGED <<rows, jobs>>, ProducedItems' = ProducedItems
    PROVE  UNCHANGED Contract!vars
  BY DEF Contract!vars

\* The steps of the contract are steps of one of its jobs.
LEMMA ContractSteps ==
    ASSUME NEW j \in Jobs,
           \/ Contract!Submit(j) \/ Contract!Start(j) \/ Contract!End(j) \/ Contract!Cancel(j)
           \/ \E o \in Outputs : Contract!Produce(j, o) \/ Contract!Lose(j, o)
    PROVE  [Contract!Next]_Contract!vars
  BY DEF Contract!Next

\* The submissions of the runner are submissions of the contract.
LEMMA InsertMaps ==
    ASSUME Inv, NEW j \in Jobs, NEW p \in Plans, NEW k \in Keys \cup {None},
           NEW q \in Jobs \cup {None}, InsertJob(j, p, k, q)
    PROVE  Contract!Submit(j)
  <1>1. /\ jobs \in [Jobs -> WeatherJobs] /\ rows \in [Jobs -> Rows]
        /\ jobs' = [jobs EXCEPT ![j] = NewJob]
        /\ rows' = [rows EXCEPT ![j] = [plan |-> p, key |-> k, parent |-> q]]
        /\ items' = items
        /\ jobs[j].state = "absent" /\ jobs[j].cancel = FALSE
        /\ p.outputs \in SUBSET Outputs
    BY DEF Inv, TypeOK, StoreTypeOK, InsertJob, Exists, OnlySubmitted, NoJob, NewJob, Plans
  <1>2. /\ \A i \in Jobs : i # j => jobs'[i] = jobs[i] /\ rows'[i] = rows[i]
        /\ jobs'[j].state = "queued" /\ jobs'[j].cancel = FALSE
        /\ rows'[j].plan.outputs = p.outputs
    BY <1>1 DEF NewJob
  <1>3. [i \in Jobs |-> jobs'[i].state] = [[i \in Jobs |-> jobs[i].state] EXCEPT ![j] = "queued"]
    BY <1>2
  <1>4. [i \in Jobs |-> rows'[i].plan.outputs] =
           [[i \in Jobs |-> rows[i].plan.outputs] EXCEPT ![j] = p.outputs]
    BY <1>2
  <1>5. [i \in Jobs |-> jobs'[i].cancel] = [i \in Jobs |-> jobs[i].cancel]
    BY <1>1, <1>2, Zenon
  <1>6. ProducedItems' = ProducedItems
    BY <1>1 DEF ProducedItems
  <1>7. QED
    BY <1>1, <1>3, <1>4, <1>5, <1>6 DEF Contract!Submit

\* Cancelling, the second half of it, is the contract's Cancel.
LEMMA CancelMaps ==
    ASSUME Inv, NEW c \in Clients, CancelSave(c), NEW j \in Jobs, j = target[c]
    PROVE  Contract!Cancel(j)
  <1> DEFINE rec == [read[c] EXCEPT !.cancel = TRUE]
  <1>1. /\ target[c] \in Jobs /\ Exists(target[c])
        /\ rec \in WeatherJobs /\ rec.state \in Active /\ rec.cancel = TRUE
        /\ Save(target[c], rec)
    BY DEF Inv, TypeOK, OnlySubmitted, ReadsUnfinished, CancelSave, SaveCancelled, WeatherJobs
  <1>2. /\ [i \in Jobs |-> jobs'[i].state] =
              [[i \in Jobs |-> jobs[i].state] EXCEPT ![target[c]] = rec.state]
        /\ [i \in Jobs |-> jobs'[i].cancel] =
              [[i \in Jobs |-> jobs[i].cancel] EXCEPT
                  ![target[c]] = jobs[target[c]].cancel \/ rec.cancel]
        /\ [i \in Jobs |-> rows'[i].plan.outputs] = [i \in Jobs |-> rows[i].plan.outputs]
        /\ ProducedItems' = ProducedItems
    BY <1>1, SaveMaps
  <1>3. (jobs[target[c]].cancel \/ rec.cancel) = TRUE
    BY <1>1
  <1> HIDE DEF rec
  <1>4. QED
    BY <1>1, <1>2, <1>3 DEF Contract!Cancel, Contract!Open, Active, Exists

\* A worker's saves start its job or end it; its record of an output produces or loses it.
LEMMA WorkerMaps ==
    ASSUME Inv, NEW w \in Workers, WorkerStep(w)
    PROVE  [Contract!Next]_Contract!vars
  <1> USE DEF Inv, TypeOK, StoreTypeOK
  <1>1. Knows(w)
    BY DEF WorkersKnow
  <1>2. wpc[w] \in Busy => /\ job[w] \in Jobs /\ copy[w] \in WeatherJobs
                           /\ jobs[job[w]].state \in Contract!Open
                           /\ (jobs[job[w]].cancel \/ copy[w].cancel) = jobs[job[w]].cancel
    BY <1>1, MergedType DEF Knows, Busy, Unfinished, Active, Contract!Open, WeatherJobs
  <1>3. ASSUME NEW rec \in WeatherJobs, wpc[w] \in Busy, Save(job[w], rec),
               rec.cancel = copy[w].cancel
        PROVE  /\ [i \in Jobs |-> jobs'[i].state] =
                     [[i \in Jobs |-> jobs[i].state] EXCEPT ![job[w]] = rec.state]
               /\ [i \in Jobs |-> jobs'[i].cancel] = [i \in Jobs |-> jobs[i].cancel]
               /\ [i \in Jobs |-> rows'[i].plan.outputs] = [i \in Jobs |-> rows[i].plan.outputs]
               /\ ProducedItems' = ProducedItems
    <2>1. [i \in Jobs |-> jobs'[i].cancel] =
             [[i \in Jobs |-> jobs[i].cancel] EXCEPT ![job[w]] = jobs[job[w]].cancel \/ rec.cancel]
      BY <1>2, <1>3, SaveMaps
    <2>2. (jobs[job[w]].cancel \/ rec.cancel) = jobs[job[w]].cancel
      BY <1>2, <1>3
    <2>3. [i \in Jobs |-> jobs'[i].cancel] =
             [[i \in Jobs |-> jobs[i].cancel] EXCEPT ![job[w]] = jobs[job[w]].cancel]
      BY <2>1, <2>2
    <2>4. [[i \in Jobs |-> jobs[i].cancel] EXCEPT ![job[w]] = jobs[job[w]].cancel]
             = [i \in Jobs |-> jobs[i].cancel]
      BY <1>2, <1>3, Zenon
    <2>5. QED
      BY <1>2, <1>3, <2>3, <2>4, SaveMaps
  <1>4. CASE Start(w) \/ Progress(w)
    <2>1. PICK rec \in WeatherJobs : /\ rec.state = "running" /\ rec.cancel = copy[w].cancel
                                     /\ Save(job[w], rec)
      <3>1. CASE Start(w)
        <4>1. copy[w] \in WeatherJobs /\ "running" \in JobStates
          BY DEF JobStates, Active
        <4>2. /\ [copy[w] EXCEPT !.state = "running"] \in WeatherJobs
              /\ [copy[w] EXCEPT !.state = "running"].state = "running"
              /\ [copy[w] EXCEPT !.state = "running"].cancel = copy[w].cancel
          BY <4>1 DEF WeatherJobs
        <4>3. QED
          BY <3>1, <4>2 DEF Start, SaveCopy
      <3>2. CASE Progress(w)
        <4>1. Counted(w) \in WeatherJobs /\ copy[w].state = "running"
          BY <1>1, <3>2, CountedType DEF Progress, Goto, Knows, Busy, WorkerStates
        <4>2. Counted(w).state = copy[w].state /\ Counted(w).cancel = copy[w].cancel
          BY DEF Counted, WeatherJobs
        <4>3. QED
          BY <3>2, <4>1, <4>2 DEF Progress, SaveCopy
      <3>3. QED
        BY <1>4, <3>1, <3>2
    <2>2. wpc[w] \in Busy
      BY <1>4 DEF Start, Progress, Goto, Busy, WorkerStates
    <2>3. ASSUME NEW j \in Jobs, j = job[w]
          PROVE  [Contract!Next]_Contract!vars
      <3>1. Contract!Start(j)
        BY <1>2, <1>3, <2>1, <2>2, <2>3 DEF Contract!Start
      <3>2. QED
        BY <3>1, ContractSteps
    <2>4. QED
      BY <1>2, <2>2, <2>3
  <1>5. CASE Finish(w)
    <2>1. /\ wpc[w] = "finish" /\ wpc[w] \in Busy /\ wpc[w] \in InLoop
          /\ Save(job[w], copy[w]) /\ Ended(w)
      BY <1>1, <1>5 DEF Finish, SaveCopy, Goto, Busy, InLoop, WorkerStates, Knows
    <2>2. /\ Produced(w) \subseteq ProducedItems[job[w]]
          /\ ProducedItems[job[w]] \subseteq rows[job[w]].plan.outputs
      BY <1>1, <1>2, <2>1 DEF Knows, Produced, ProducedItems, OnlySubmitted
    <2>3. \A j \in Jobs : j = job[w] => copy[w].state \in Contract!MayEnd(j)
      <3> DEFINE planned == [j \in Jobs |-> rows[j].plan.outputs]
                 requested == [j \in Jobs |-> jobs[j].cancel]
      <3>1. job[w] \in Jobs /\ copy[w].state \in Terminal
        BY <1>2, <2>1 DEF Ended
      <3>2. planned[job[w]] = rows[job[w]].plan.outputs /\ requested[job[w]] = jobs[job[w]].cancel
        BY <3>1
      <3>3. copy[w].state = "completed" => ProducedItems[job[w]] = planned[job[w]]
        BY <2>1, <2>2, <3>2 DEF Ended
      <3>4. copy[w].state = "partially_completed" => ProducedItems[job[w]] # {}
        BY <2>1, <2>2 DEF Ended
      <3>5. copy[w].state = "cancelled" => requested[job[w]]
        BY <2>1, <3>2 DEF Ended
      <3> HIDE DEF planned, requested
      <3>6. QED
        BY <3>1, <3>3, <3>4, <3>5 DEF Terminal, Contract!MayEnd, planned, requested
    <2>4. ASSUME NEW j \in Jobs, j = job[w]
          PROVE  [Contract!Next]_Contract!vars
      <3>1. Contract!End(j)
        BY <1>2, <1>3, <2>1, <2>3, <2>4 DEF Contract!End
      <3>2. QED
        BY <3>1, ContractSteps
    <2>5. QED
      BY <1>2, <2>1, <2>4
  <1>6. CASE Record(w)
    <2>1. /\ wpc[w] = "record" /\ wpc[w] \in Busy /\ cur[w] \in Outputs
          /\ cur[w] \in rows[job[w]].plan.outputs
          /\ items' = [items EXCEPT ![job[w]][cur[w]] = result[w]]
          /\ rows' = rows /\ jobs' = jobs
      BY <1>1, <1>6 DEF Record, CompleteItem, Goto, Busy, WorkerStates, Knows
    <2>2. /\ \A i \in Jobs : i # job[w] => items'[i] = items[i]
          /\ \A o \in Outputs : o # cur[w] => items'[job[w]][o] = items[job[w]][o]
          /\ items'[job[w]][cur[w]] = result[w]
      BY <1>2, <2>1
    <2>3. CASE result[w] \in Good
      <3>1. ProducedItems' = [ProducedItems EXCEPT ![job[w]] = @ \cup {cur[w]}]
        <4>1. \A i \in Jobs : i # job[w] => ProducedItems'[i] = ProducedItems[i]
          BY <2>2 DEF ProducedItems
        <4>2. ProducedItems'[job[w]] = ProducedItems[job[w]] \cup {cur[w]}
          BY <1>2, <2>1, <2>2, <2>3 DEF ProducedItems, Good
        <4>3. /\ ProducedItems' = [i \in Jobs |-> ProducedItems'[i]]
              /\ ProducedItems = [i \in Jobs |-> ProducedItems[i]]
          BY DEF ProducedItems
        <4>4. QED
          BY <4>1, <4>2, <4>3
      <3>2. ASSUME NEW j \in Jobs, NEW o \in Outputs, j = job[w], o = cur[w]
            PROVE  [Contract!Next]_Contract!vars
        <4>1. Contract!Produce(j, o)
          BY <1>2, <2>1, <3>1, <3>2 DEF Contract!Produce
        <4>2. QED
          BY <4>1, ContractSteps
      <3>3. QED
        BY <1>2, <2>1, <3>2
    <2>4. CASE result[w] \notin Good
      <3>1. ProducedItems' = [ProducedItems EXCEPT ![job[w]] = @ \ {cur[w]}]
        <4>1. \A i \in Jobs : i # job[w] => ProducedItems'[i] = ProducedItems[i]
          BY <2>2 DEF ProducedItems
        <4>2. ProducedItems'[job[w]] = ProducedItems[job[w]] \ {cur[w]}
          BY <1>2, <2>1, <2>2, <2>4 DEF ProducedItems, Good
        <4>3. /\ ProducedItems' = [i \in Jobs |-> ProducedItems'[i]]
              /\ ProducedItems = [i \in Jobs |-> ProducedItems[i]]
          BY DEF ProducedItems
        <4>4. QED
          BY <4>1, <4>2, <4>3
      <3>2. ASSUME NEW j \in Jobs, NEW o \in Outputs, j = job[w], o = cur[w]
            PROVE  [Contract!Next]_Contract!vars
        <4>1. Contract!Lose(j, o)
          BY <1>2, <2>1, <3>1, <3>2 DEF Contract!Lose
        <4>2. QED
          BY <4>1, ContractSteps
      <3>3. QED
        BY <1>2, <2>1, <3>2
    <2>5. QED
      BY <2>3, <2>4
  <1>7. CASE UNCHANGED storeVars
    BY <1>7, TableStutters DEF storeVars, ProducedItems
  <1>8. QED
    BY <1>4, <1>5, <1>6, <1>7
       DEF WorkerStep, Take, Load, Pick, LeaveLoop, Execute, ExecuteRaises, Collect, Bundle,
           BundleRaises, Discard

\* Every step of the runner is a step of the contract or none at all.
LEMMA StepMaps ==
    ASSUME Inv, [Next]_vars
    PROVE  [Contract!Next]_Contract!vars
  <1> USE DEF Inv, TypeOK, StoreTypeOK
  <1>1. CASE UNCHANGED storeVars
    BY <1>1, TableStutters DEF storeVars, ProducedItems
  <1>2. ASSUME NEW c \in Clients, ClientStep(c)
        PROVE  [Contract!Next]_Contract!vars
    <2>1. ASSUME NEW j \in Jobs, NEW p \in Plans, NEW k \in Keys \cup {None},
                 NEW q \in Jobs \cup {None}, InsertJob(j, p, k, q)
          PROVE  [Contract!Next]_Contract!vars
      BY <2>1, InsertMaps, ContractSteps
    <2>2. CASE CancelSave(c)
      <3>1. target[c] \in Jobs
        BY <2>2 DEF CancelSave
      <3>2. ASSUME NEW j \in Jobs, j = target[c]
            PROVE  [Contract!Next]_Contract!vars
        BY <2>2, <3>2, CancelMaps, ContractSteps
      <3>3. QED
        BY <3>1, <3>2
    <2>3. ASSUME NEW p \in Requests, NEW k \in Keys \cup {None}, Submit(c, p, k)
          PROVE  [Contract!Next]_Contract!vars
      BY <1>1, <2>1, <2>3, RunnerAssumption DEF RunnerAssumption, Submit, ReturnPrior
    <2>4. ASSUME NEW k \in Keys \cup {None}, SubmitRetry(c, k)
          PROVE  [Contract!Next]_Contract!vars
      <3>1. retry[c] \in Plans /\ target[c] \in Jobs \cup {None}
        OBVIOUS
      <3>2. QED
        BY <1>1, <2>1, <2>4, <3>1 DEF SubmitRetry, ReturnPrior
    <2>5. QED
      BY <1>1, <1>2, <2>2, <2>3, <2>4
         DEF ClientStep, Enqueue, RetryPlan, RefuseRetry, CancelRead
  <1>3. ASSUME NEW w \in Workers, WorkerStep(w)
        PROVE  [Contract!Next]_Contract!vars
    BY <1>3, WorkerMaps
  <1>4. ASSUME NEW j \in Jobs, NEW o \in Outputs, Damage(j, o)
        PROVE  [Contract!Next]_Contract!vars
    <2>1. /\ items' = [items EXCEPT ![j][o] = IF @ = "weather" THEN "broken" ELSE "spoiled"]
          /\ items[j][o] \in Verified
          /\ UNCHANGED <<rows, jobs>>
      BY <1>4 DEF Damage, DamageItem
    <2>2. \A i \in Jobs, p \in Outputs : items'[i][p] \in Good <=> items[i][p] \in Good
      BY <2>1 DEF Good, Verified
    <2>3. ProducedItems' = ProducedItems
      BY <2>2 DEF ProducedItems, Good
    <2>4. QED
      BY <2>1, <2>3, TableStutters
  <1>5. QED
    BY <1>1, <1>2, <1>3, <1>4 DEF Next, Crash, Recover, vars, storeVars

\* Whoever polls jobs and reads their outputs sees only what JobContract allows: the threads,
\* the pool, stale records, crashes and resumptions are invisible up to its Cancel and Lose.
THEOREM RunnerImplementsContract == Spec => ImplementsContract
  <1>1. Init => Contract!Init
    BY DEF Init, StoreInit, Contract!Init, ProducedItems, NoJob, NewJob, NoRow, NoItems
  <1>2. Inv /\ [Next]_vars => [Contract!Next]_Contract!vars
    BY StepMaps
  <1>3. QED
    BY <1>1, <1>2, Invariance, PTL DEF Spec, ImplementsContract, Contract!Spec
-----------------------------------------------------------------------------
(* No orphan: an unfinished job is in the pool of a process that serves.   *)

\* Nothing was damaged and no bundle failed to be written.
NoLoss == spent["fault"] = 0 /\ spent["damage"] = 0

\* What a run reads back at its end it can read: items are recorded, and none is damaged.
Recorded(w) ==
    /\ wpc[w] = "record" => result[w] \in Verified
    /\ wpc[w] \in InLoop => \A o \in Outputs : have[w][o] # "none" => items[job[w]][o] # "none"
ItemsStand ==
    /\ \A j \in Jobs, o \in Outputs : items[j][o] \notin Damaged
    /\ \A w \in Workers : Recorded(w)

\* A job is in the pool, or on its way there, or was asked to stop.
Covered(j) ==
    \/ j \in active
    \/ \E c \in Clients : cpc[c] = "enqueue" /\ target[c] = j
    \/ jobs[j].cancel

\* A run that is over leaves its job finished, unless a stale cancel reopened it.
RunsEnd == \A w \in Workers : wpc[w] = "discard" => ~Unfinished(job[w]) \/ jobs[job[w]].cancel

OrphanInv ==
    NoLoss => /\ ItemsStand
              /\ RunsEnd
              /\ up => \A j \in Jobs : Unfinished(j) => Covered(j)

\* Losses are counted for good: a step after which nothing was lost is neither damage nor fault.
LEMMA LossesStay ==
    ASSUME TypeOK, [Next]_vars, NoLoss'
    PROVE  /\ NoLoss
           /\ ~\E j \in Jobs, o \in Outputs : Damage(j, o)
           /\ \A w \in Workers : BundleRaises(w) => ~Readable(w)
  <1> USE DEF TypeOK, NoLoss, Events
  <1>1. CASE \E c \in Clients : ClientStep(c)
    <2>1. spent' \in {spent, [spent EXCEPT !["cancel"] = @ + 1]}
      BY <1>1 DEF ClientStep, Submit, Enqueue, RetryPlan, CancelRead, SubmitRetry, RefuseRetry,
         CancelSave
    <2>2. spent'["fault"] = spent["fault"] /\ spent'["damage"] = spent["damage"]
      BY <2>1
    <2>3. QED
      BY <2>2 DEF Damage, BundleRaises
  <1>2. CASE \E w \in Workers : WorkerStep(w)
    <2>1. spent' \in {spent, [spent EXCEPT !["fault"] = @ + 1]}
      BY <1>2 DEF WorkerStep, Take, Start, Load, Pick, LeaveLoop, Execute, ExecuteRaises, Record,
         Progress, Collect, Bundle, BundleRaises, Finish, Discard
    <2>2. spent' = spent
      BY <2>1
    <2>3. QED
      BY <2>2 DEF Damage, BundleRaises
  <1>3. CASE Crash
    BY <1>3 DEF Crash, Damage, BundleRaises
  <1>4. CASE Recover
    BY <1>4 DEF Recover, Damage, BundleRaises
  <1>5. CASE \E j \in Jobs, o \in Outputs : Damage(j, o)
    BY <1>5 DEF Damage
  <1>6. CASE UNCHANGED vars
    BY <1>6 DEF vars, Damage, BundleRaises
  <1>7. QED
    BY <1>1, <1>2, <1>3, <1>4, <1>5, <1>6 DEF Next

\* While nothing is lost a recorded item is never unrecorded and none is damaged.
LEMMA ItemsGrow ==
    ASSUME Inv, ItemsStand, [Next]_vars, NoLoss'
    PROVE  \A j \in Jobs, o \in Outputs : /\ items'[j][o] \notin Damaged
                                          /\ items[j][o] # "none" => items'[j][o] # "none"
  <1> USE DEF ItemsStand
  <1>1. ASSUME NEW w \in Workers, Record(w)
        PROVE  \A j \in Jobs, o \in Outputs : /\ items'[j][o] \notin Damaged
                                              /\ items[j][o] # "none" => items'[j][o] # "none"
    <2>1. result[w] \in Verified /\ job[w] \in Jobs /\ cur[w] \in Outputs
      BY <1>1 DEF Record, Goto, Recorded, Inv, TypeOK
    <2>2. items' = [items EXCEPT ![job[w]][cur[w]] = result[w]]
      BY <1>1 DEF Record, CompleteItem
    <2>3. items \in [Jobs -> [Outputs -> ItemStates]]
      BY DEF Inv, TypeOK, StoreTypeOK
    <2>4. QED
      BY <2>1, <2>2, <2>3 DEF Verified, Damaged
  <1>2. CASE \E w \in Workers : Record(w)
    BY <1>1, <1>2
  <1>3. CASE UNCHANGED items
    BY <1>3
  <1>4. (\E w \in Workers : Record(w)) \/ UNCHANGED items
    <2>1. ASSUME NEW c \in Clients, ClientStep(c) PROVE UNCHANGED items
      BY <2>1 DEF ClientStep, Submit, Enqueue, RetryPlan, CancelRead, SubmitRetry, RefuseRetry,
         CancelSave, SaveCancelled, Save, InsertJob, ReturnPrior, storeVars
    <2>2. ASSUME NEW w \in Workers, WorkerStep(w) PROVE Record(w) \/ UNCHANGED items
      BY <2>2 DEF WorkerStep, Take, Start, Load, Pick, LeaveLoop, Execute, ExecuteRaises,
         Progress, Collect, Bundle, BundleRaises, Finish, Discard, SaveCopy, Save, storeVars
    <2>3. QED
      BY <2>1, <2>2, LossesStay DEF Next, Crash, Recover, storeVars, vars, Inv
  <1>5. QED
    BY <1>2, <1>3, <1>4

\* ... so that what a run holds stays recorded.
LEMMA RecordedStep ==
    ASSUME Inv, ItemsStand, [Next]_vars, NoLoss', NEW w \in Workers
    PROVE  Recorded(w)'
  <1> USE DEF Inv, TypeOK, StoreTypeOK, InLoop, WorkerStates
  <1>1. \A j \in Jobs, o \in Outputs : items[j][o] # "none" => items'[j][o] # "none"
    BY ItemsGrow
  <1>2. Recorded(w)
    BY DEF ItemsStand
  <1>3. ASSUME UNCHANGED <<job, have, result>>,
               wpc'[w] # "record" \/ wpc[w] = "record", wpc'[w] \in InLoop => wpc[w] \in InLoop
        PROVE  Recorded(w)'
    BY <1>1, <1>2, <1>3 DEF Recorded
  <1>4. CASE UNCHANGED workVars
    BY <1>3, <1>4 DEF workVars
  <1>5. ASSUME NEW v \in Workers, v # w, WorkerStep(v)
        PROVE  Recorded(w)'
    <2>1. wpc'[w] = wpc[w] /\ job'[w] = job[w] /\ have'[w] = have[w] /\ result'[w] = result[w]
      BY <1>5 DEF WorkerStep, Take, Start, Load, Pick, LeaveLoop, Execute, ExecuteRaises, Record,
         Progress, Collect, Bundle, BundleRaises, Finish, Discard, Goto
    <2>2. QED
      BY <2>1, <1>1, <1>2 DEF Recorded
  <1>6. CASE WorkerStep(w)
    <2>1. CASE Take(w)
      BY <2>1 DEF Take, Recorded
    <2>2. CASE Load(w)
      BY <2>2 DEF Load, Goto, Recorded, Verified, storeVars
    <2>3. CASE Execute(w)
      <3>1. result'[w] \in Verified /\ wpc'[w] = "record" /\ wpc[w] = "execute"
        BY <2>3 DEF Execute, Goto, Verified
      <3>2. QED
        BY <3>1, <2>3, <1>2 DEF Execute, Recorded, storeVars
    <2>4. CASE Record(w)
      <3>1. /\ cur[w] \in Outputs /\ job[w] \in Jobs /\ result[w] \in Verified
            /\ wpc[w] = "record" /\ wpc'[w] = "progress"
        BY <2>4, <1>2 DEF Record, Goto, Recorded
      <3>2. \A o \in Outputs : have'[w][o] # "none" => items'[job[w]][o] # "none"
        BY <3>1, <2>4, <1>2 DEF Record, CompleteItem, Recorded, Verified
      <3>3. QED
        BY <3>1, <3>2, <2>4 DEF Record, Recorded
    <2>5. CASE Discard(w)
      BY <2>5 DEF Discard, Goto, Recorded
    <2>6. CASE Start(w) \/ ExecuteRaises(w) \/ Progress(w) \/ Finish(w)
      BY <2>6, <1>3 DEF Start, ExecuteRaises, Progress, Finish, Goto
    <2>7. CASE Pick(w) \/ LeaveLoop(w) \/ Collect(w) \/ Bundle(w) \/ BundleRaises(w)
      BY <2>7, <1>3 DEF Pick, LeaveLoop, Collect, Bundle, BundleRaises, Goto
    <2>8. QED
      BY <1>6, <2>1, <2>2, <2>3, <2>4, <2>5, <2>6, <2>7 DEF WorkerStep
  <1>7. ASSUME NEW c \in Clients, ClientStep(c)
        PROVE  UNCHANGED workVars
    BY <1>7 DEF ClientStep, Submit, Enqueue, RetryPlan, CancelRead, SubmitRetry, RefuseRetry,
       CancelSave
  <1>8. CASE Crash
    BY <1>8 DEF Crash, Recorded
  <1>9. CASE Recover \/ (\E j \in Jobs, o \in Outputs : Damage(j, o)) \/ UNCHANGED vars
    BY <1>9, <1>4 DEF Recover, Damage, vars, workVars
  <1>10. QED
    BY <1>4, <1>5, <1>6, <1>7, <1>8, <1>9 DEF Next

\* A step changes the record of a job in one of three ways: a new job is inserted and its client
\* is to enqueue it, a cancel flags it, or the worker that runs it saves it.
LEMMA RecordChanges ==
    ASSUME Inv, [Next]_vars, NEW j \in Jobs, jobs'[j] # jobs[j]
    PROVE  \/ ~Exists(j) /\ \E c \in Clients : cpc'[c] = "enqueue" /\ target'[c] = j
           \/ jobs'[j].cancel /\ \E c \in Clients : cpc[c] = "cancel"
           \/ \E w \in Workers : WorkerStep(w) /\ wpc[w] \in Busy /\ job[w] = j
  <1> USE DEF Inv, TypeOK, StoreTypeOK
  <1>1. ASSUME NEW c \in Clients, ClientStep(c)
        PROVE  \/ ~Exists(j) /\ cpc'[c] = "enqueue" /\ target'[c] = j
               \/ jobs'[j].cancel /\ cpc[c] = "cancel"
    <2>1. CASE CancelSave(c)
      <3>1. j = target[c] /\ jobs'[j] = Merged(j, [read[c] EXCEPT !.cancel = TRUE])
        BY <2>1 DEF CancelSave, SaveCancelled, Save
      <3>2. read[c] \in WeatherJobs
        OBVIOUS
      <3>3. QED
        BY <2>1, <3>1, <3>2 DEF CancelSave, Merged, WeatherJobs
    <2>2. CASE \E p \in Requests, k \in Keys \cup {None} : Submit(c, p, k)
      BY <2>2 DEF Submit, InsertJob, ReturnPrior, MustEnqueue, storeVars
    <2>3. CASE \E k \in Keys \cup {None} : SubmitRetry(c, k)
      BY <2>3 DEF SubmitRetry, InsertJob, ReturnPrior, MustEnqueue, storeVars
    <2>4. QED
      BY <1>1, <2>1, <2>2, <2>3 DEF ClientStep, Enqueue, RetryPlan, CancelRead, RefuseRetry, storeVars
  <1>2. ASSUME NEW w \in Workers, WorkerStep(w)
        PROVE  wpc[w] \in Busy /\ job[w] = j
    <2>1. Start(w) \/ Progress(w) \/ Finish(w)
      BY <1>2 DEF WorkerStep, Take, Load, Pick, LeaveLoop, Execute, ExecuteRaises, Record,
         Collect, Bundle, BundleRaises, Discard, CompleteItem, storeVars
    <2>2. wpc[w] \in Busy
      BY <2>1 DEF Start, Progress, Finish, Goto, Busy, WorkerStates
    <2>3. job[w] = j
      BY <2>1 DEF Start, Progress, Finish, SaveCopy, Save
    <2>4. QED
      BY <2>2, <2>3
  <1>3. QED
    BY <1>1, <1>2 DEF Next, Crash, Recover, Damage, DamageItem, storeVars, vars

\* A run that ends while nothing is lost has saved how its job ended.
LEMMA RunsEndStep ==
    ASSUME Inv, ItemsStand, RunsEnd, [Next]_vars, NoLoss'
    PROVE  RunsEnd'
  <1> SUFFICES ASSUME NEW w \in Workers, wpc'[w] = "discard"
               PROVE  ~Unfinished(job[w])' \/ jobs'[job'[w]].cancel
    BY DEF RunsEnd
  <1> USE DEF Inv, TypeOK, StoreTypeOK
  <1>1. CASE wpc[w] = "discard" /\ job'[w] = job[w]
    <2>1. job[w] \in Jobs /\ Exists(job[w])
      BY <1>1 DEF ActiveCovers, OnlySubmitted, Running
    <2>2. ~Unfinished(job[w]) \/ jobs[job[w]].cancel
      BY <1>1 DEF RunsEnd
    <2>3. CASE jobs'[job[w]] = jobs[job[w]]
      BY <1>1, <2>2, <2>3 DEF Unfinished
    <2>4. CASE jobs'[job[w]] # jobs[job[w]]
      <3>1. ~\E v \in Workers : wpc[v] \in Busy /\ job[v] = job[w]
        BY <1>1 DEF SingleRun, Running, Busy
      <3>2. QED
        BY <2>1, <2>4, <3>1, RecordChanges, <1>1
    <2>5. QED
      BY <2>3, <2>4
  <1>2. CASE WorkerStep(w)
    <2>1. CASE Take(w)
      BY <2>1 DEF Take, Unfinished, storeVars
    <2>2. CASE Finish(w)
      <3>1. job[w] \in Jobs /\ copy[w].state \in Terminal /\ job'[w] = job[w]
        BY <2>2 DEF Finish, Goto, WorkersKnow, Knows, Ended
      <3>2. jobs'[job[w]].state = copy[w].state
        <4>1. jobs'[job[w]] = Merged(job[w], copy[w]) /\ copy[w] \in WeatherJobs
          BY <2>2, <3>1 DEF Finish, SaveCopy, Save
        <4>2. QED
          BY <4>1 DEF Merged, WeatherJobs
      <3>3. QED
        BY <3>1, <3>2 DEF Unfinished, Terminal, Active
    <2>3. CASE BundleRaises(w)
      <3>1. ~Readable(w)
        BY <2>3, LossesStay
      <3>2. job[w] \in Jobs /\ wpc[w] \in InLoop
        BY <2>3 DEF BundleRaises, Goto, InLoop
      <3>3. Readable(w)
        BY <3>2 DEF Readable, Kept, ItemsStand, Recorded, ItemStates, HeldStates
      <3>4. QED
        BY <3>1, <3>3
    <2>4. QED
      BY <1>2, <2>1, <2>2, <2>3 DEF WorkerStep, Start, Load, Pick, LeaveLoop, Execute,
         ExecuteRaises, Record, Progress, Collect, Bundle, Discard, Goto
  <1>3. ASSUME NEW v \in Workers, v # w, WorkerStep(v)
        PROVE  wpc[w] = "discard" /\ job'[w] = job[w]
    BY <1>3 DEF WorkerStep, Take, Start, Load, Pick, LeaveLoop, Execute, ExecuteRaises, Record,
       Progress, Collect, Bundle, BundleRaises, Finish, Discard, Goto
  <1>4. ASSUME NEW c \in Clients, ClientStep(c)
        PROVE  wpc[w] = "discard" /\ job'[w] = job[w]
    BY <1>4 DEF ClientStep, Submit, Enqueue, RetryPlan, CancelRead, SubmitRetry, RefuseRetry,
       CancelSave, workVars
  <1>5. CASE Crash
    BY <1>5 DEF Crash
  <1>6. CASE Recover \/ (\E j \in Jobs, o \in Outputs : Damage(j, o)) \/ UNCHANGED vars
    BY <1>1, <1>6 DEF Recover, Damage, vars, workVars
  <1>7. QED
    BY <1>1, <1>2, <1>3, <1>4, <1>5, <1>6 DEF Next

\* An unfinished job stays covered: only Discard takes a job from the pool.
LEMMA CoveredStep ==
    ASSUME Inv, RunsEnd, [Next]_vars, up', NEW j \in Jobs, Unfinished(j)',
           up => (Unfinished(j) => Covered(j))
    PROVE  Covered(j)'
  <1> USE DEF Inv, TypeOK, StoreTypeOK
  <1>1. CASE ~up
    <2>1. Recover
      <3>1. ~\E c \in Clients : ClientStep(c)
        BY <1>1 DEF DownIsIdle, ClientStep, Submit, Enqueue, RetryPlan, CancelRead, SubmitRetry,
           RefuseRetry, CancelSave
      <3>2. ~\E w \in Workers : WorkerStep(w)
        BY <1>1 DEF DownIsIdle, WorkerStep, Take, Start, Load, Pick, LeaveLoop, Execute,
           ExecuteRaises, Record, Progress, Collect, Bundle, BundleRaises, Finish, Discard, Goto
      <3>3. QED
        BY <1>1, <3>1, <3>2 DEF Next, Crash, Damage, vars
    <2>2. QED
      BY <2>1 DEF Recover, UnfinishedJobs, Unfinished, Covered, storeVars
  <1>2. CASE up /\ jobs'[j] # jobs[j]
    <2>1. CASE \E w \in Workers : WorkerStep(w) /\ wpc[w] \in Busy /\ job[w] = j
      <3>1. PICK w \in Workers : WorkerStep(w) /\ wpc[w] \in Busy /\ job[w] = j
        BY <2>1
      <3>2. j \in active /\ ~Discard(w)
        BY <3>1 DEF ActiveCovers, Running, Busy, Discard, Goto
      <3>3. active' = active
        BY <3>1, <3>2 DEF WorkerStep, Take, Start, Load, Pick, LeaveLoop, Execute,
           ExecuteRaises, Record, Progress, Collect, Bundle, BundleRaises, Finish, poolVars
      <3>4. QED
        BY <3>2, <3>3 DEF Covered
    <2>2. QED
      BY <1>2, <2>1, RecordChanges DEF Covered
  <1>3. CASE up /\ jobs'[j] = jobs[j]
    <2>1. Covered(j)
      BY <1>3 DEF Unfinished
    <2>2. CASE jobs[j].cancel
      BY <1>3, <2>2 DEF Covered
    <2>3. ASSUME NEW c \in Clients, ClientStep(c)
          PROVE  Covered(j)'
      <3>1. CASE Enqueue(c)
        BY <2>1, <2>2, <3>1 DEF Enqueue, Returns, poolVars, Covered
      <3>2. CASE ~Enqueue(c)
        <4>1. active' = active /\ cpc[c] # "enqueue"
          BY <2>3, <3>2 DEF ClientStep, Submit, RetryPlan, CancelRead, SubmitRetry, RefuseRetry,
             CancelSave, poolVars
        <4>2. \A d \in Clients \ {c} : cpc'[d] = cpc[d] /\ target'[d] = target[d]
          BY <2>3 DEF ClientStep, Submit, Enqueue, RetryPlan, CancelRead, SubmitRetry, RefuseRetry,
             CancelSave, Returns, MustEnqueue
        <4>3. QED
          BY <2>1, <2>2, <4>1, <4>2 DEF Covered
      <3>3. QED
        BY <3>1, <3>2
    <2>4. ASSUME NEW w \in Workers, WorkerStep(w)
          PROVE  Covered(j)'
      <3>1. UNCHANGED <<cpc, target>>
        BY <2>4 DEF WorkerStep, Take, Start, Load, Pick, LeaveLoop, Execute, ExecuteRaises, Record,
           Progress, Collect, Bundle, BundleRaises, Finish, Discard, clientVars
      <3>2. CASE Discard(w) /\ job[w] = j
        BY <1>3, <2>2, <3>2 DEF Discard, Goto, RunsEnd, Unfinished
      <3>3. CASE ~(Discard(w) /\ job[w] = j)
        <4>1. j \in active => j \in active'
          BY <2>4, <3>3 DEF WorkerStep, Take, Start, Load, Pick, LeaveLoop, Execute, ExecuteRaises,
             Record, Progress, Collect, Bundle, BundleRaises, Finish, Discard, poolVars
        <4>2. QED
          BY <2>1, <2>2, <3>1, <4>1 DEF Covered
      <3>4. QED
        BY <3>2, <3>3
    <2>5. CASE Crash \/ Recover
      BY <1>3, <2>5 DEF Crash, Recover
    <2>6. CASE (\E i \in Jobs, o \in Outputs : Damage(i, o)) \/ UNCHANGED vars
      BY <1>3, <2>1, <2>6 DEF Damage, DamageItem, vars, poolVars, clientVars, Covered
    <2>7. QED
      BY <2>3, <2>4, <2>5, <2>6 DEF Next
  <1>4. QED
    BY <1>1, <1>2, <1>3

\* While the process serves, every unfinished job is in its pool or about to be put there by the
\* request that holds it, for any number of jobs, workers, clients and crashes, unless a cancel
\* reopened it or a loss ended its run (JobRunner.enqueue, _run, recover).
THEOREM NoJobIsOrphaned == Spec => []NoOrphan
  <1>1. Init => OrphanInv
    BY DEF Init, StoreInit, IdleWorkers, OrphanInv, ItemsStand, Recorded, RunsEnd, InLoop, NoItems,
       Damaged, NoJob, NewJob, Unfinished, Active
  <1>2. Inv /\ OrphanInv /\ [Next]_vars => OrphanInv'
    <2> SUFFICES ASSUME Inv, OrphanInv, [Next]_vars, NoLoss'
                 PROVE  /\ ItemsStand'
                        /\ RunsEnd'
                        /\ up' => \A j \in Jobs : Unfinished(j)' => Covered(j)'
      BY DEF OrphanInv
    <2>1. ItemsStand /\ RunsEnd /\ (up => \A j \in Jobs : Unfinished(j) => Covered(j))
      BY LossesStay DEF OrphanInv, Inv
    <2>2. ItemsStand'
      BY <2>1, ItemsGrow, RecordedStep DEF ItemsStand
    <2>3. QED
      BY <2>1, <2>2, RunsEndStep, CoveredStep
  <1>3. OrphanInv => NoOrphan
    BY DEF OrphanInv, NoLoss, NoOrphan, Covered
  <1>4. QED
    BY <1>1, <1>2, <1>3, Invariance, PTL DEF Spec
-----------------------------------------------------------------------------
(* What a run produced is kept.                                            *)

\* A worker holds every weather item its job recorded, and executes outputs it does not hold.
Holds(w) ==
    /\ wpc[w] \in InLoop => \A o \in Outputs : items[job[w]][o] = "weather" => have[w][o] = "weather"
    /\ wpc[w] \in {"execute", "record"} => have[w][cur[w]] = "none"

\* Items change by damage, and by the worker that records a result of the job it runs.
LEMMA ItemChanges ==
    ASSUME [Next]_vars, items' # items
    PROVE  \/ \E w \in Workers : Record(w)
           \/ \E j \in Jobs, o \in Outputs : Damage(j, o)
  <1>1. ASSUME NEW c \in Clients, ClientStep(c) PROVE UNCHANGED items
    BY <1>1 DEF ClientStep, Submit, Enqueue, RetryPlan, CancelRead, SubmitRetry, RefuseRetry,
       CancelSave, SaveCancelled, Save, InsertJob, ReturnPrior, storeVars
  <1>2. ASSUME NEW w \in Workers, WorkerStep(w) PROVE Record(w) \/ UNCHANGED items
    BY <1>2 DEF WorkerStep, Take, Start, Load, Pick, LeaveLoop, Execute, ExecuteRaises,
       Progress, Collect, Bundle, BundleRaises, Finish, Discard, SaveCopy, Save, storeVars
  <1>3. QED
    BY <1>1, <1>2 DEF Next, Crash, Recover, storeVars, vars

\* An item that becomes weather was recorded by the worker that runs its job.
LEMMA WeatherIsRecorded ==
    ASSUME Inv, [Next]_vars, NEW j \in Jobs, NEW o \in Outputs,
           items[j][o] # "weather", items'[j][o] = "weather"
    PROVE  \E w \in Workers : /\ Record(w) /\ job[w] = j /\ cur[w] = o
  <1> USE DEF Inv, TypeOK, StoreTypeOK
  <1>1. ~\E i \in Jobs, p \in Outputs : Damage(i, p)
    <2>1. SUFFICES ASSUME NEW i \in Jobs, NEW p \in Outputs, Damage(i, p) PROVE FALSE
      OBVIOUS
    <2>2. items' = [items EXCEPT ![i][p] = IF @ = "weather" THEN "broken" ELSE "spoiled"]
      BY <2>1 DEF Damage, DamageItem
    <2>3. QED
      BY <2>2
  <1>2. PICK w \in Workers : Record(w)
    BY <1>1, ItemChanges
  <1>3. items' = [items EXCEPT ![job[w]][cur[w]] = result[w]]
    BY <1>2 DEF Record, CompleteItem
  <1>4. QED
    BY <1>2, <1>3

\* Every step keeps what the workers know of the weather items of their jobs.
LEMMA HoldsStep ==
    ASSUME Inv, [Next]_vars, NEW w \in Workers, Holds(w)
    PROVE  Holds(w)'
  <1> USE DEF Inv, TypeOK, StoreTypeOK, InLoop, WorkerStates
  <1>1. ASSUME job'[w] = job[w], have'[w] = have[w], cur'[w] = cur[w], ~Record(w),
               wpc'[w] \in InLoop => wpc[w] \in InLoop,
               wpc'[w] \in {"execute", "record"} => wpc[w] \in {"execute", "record"}
        PROVE  Holds(w)'
    <2>1. ASSUME NEW o \in Outputs, wpc'[w] \in InLoop, items'[job[w]][o] = "weather"
          PROVE  have[w][o] = "weather"
      <3>1. job[w] \in Jobs /\ wpc[w] \in InLoop
        BY <1>1, <2>1
      <3>2. CASE items[job[w]][o] = "weather"
        BY <3>1, <3>2 DEF Holds
      <3>3. CASE items[job[w]][o] # "weather"
        <4>1. PICK v \in Workers : Record(v) /\ job[v] = job[w]
          BY <2>1, <3>1, <3>3, WeatherIsRecorded
        <4>2. v = w
          BY <3>1, <4>1 DEF Record, Goto, SingleRun, Running
        <4>3. QED
          BY <1>1, <4>1, <4>2
      <3>4. QED
        BY <3>2, <3>3
    <2>2. QED
      BY <1>1, <2>1 DEF Holds
  <1>2. CASE UNCHANGED workVars
    <2>1. ~Record(w)
      BY <1>2 DEF workVars, Record, Goto
    <2>2. QED
      BY <1>1, <1>2, <2>1 DEF workVars
  <1>3. ASSUME NEW v \in Workers, v # w, WorkerStep(v)
        PROVE  Holds(w)'
    <2>1. wpc'[w] = wpc[w] /\ job'[w] = job[w] /\ have'[w] = have[w] /\ cur'[w] = cur[w]
      BY <1>3 DEF WorkerStep, Take, Start, Load, Pick, LeaveLoop, Execute, ExecuteRaises, Record,
         Progress, Collect, Bundle, BundleRaises, Finish, Discard, Goto
    <2>2. ~Record(w)
      BY <2>1 DEF Record, Goto
    <2>3. QED
      BY <1>1, <2>1, <2>2
  <1>4. CASE WorkerStep(w)
    <2>1. CASE Take(w) \/ Discard(w)
      BY <2>1 DEF Take, Discard, Goto, Holds
    <2>2. CASE Load(w)
      BY <2>2 DEF Load, Goto, Holds, Verified, storeVars
    <2>3. CASE Pick(w)
      <3>1. PICK o \in Remaining(w) : cur'[w] = o
        BY <2>3 DEF Pick
      <3>2. have[w][cur'[w]] = "none"
        <4>1. job[w] \in Jobs /\ o \in rows[job[w]].plan.outputs /\ o \notin Kept(w)
          BY <2>3, <3>1 DEF Pick, Goto, Remaining
        <4>2. o \in Outputs
          BY <4>1 DEF Rows, Plans
        <4>3. QED
          BY <3>1, <4>1, <4>2 DEF Kept
      <3>3. QED
        BY <3>2, <2>3 DEF Pick, Goto, Holds, storeVars
    <2>4. CASE Record(w)
      <3>1. cur[w] \in Outputs /\ job[w] \in Jobs /\ wpc[w] = "record" /\ wpc'[w] = "progress"
        BY <2>4 DEF Record, Goto
      <3>2. QED
        BY <3>1, <2>4 DEF Record, CompleteItem, Holds
    <2>5. CASE Start(w) \/ Execute(w) \/ LeaveLoop(w) \/ Collect(w) \/ Bundle(w)
      <3>1. ~Record(w)
        BY <2>5 DEF Start, Execute, LeaveLoop, Collect, Bundle, Record, Goto
      <3>2. QED
        BY <2>5, <3>1, <1>1 DEF Start, Execute, LeaveLoop, Collect, Bundle, Goto
    <2>6. CASE ExecuteRaises(w) \/ BundleRaises(w) \/ Finish(w)
      <3>1. ~Record(w)
        BY <2>6 DEF ExecuteRaises, BundleRaises, Finish, Record, Goto
      <3>2. QED
        BY <2>6, <3>1, <1>1 DEF ExecuteRaises, BundleRaises, Finish, Goto
    <2>7. CASE Progress(w)
      BY <2>7 DEF Progress, Goto, SaveCopy, Save, Holds
    <2>8. QED
      BY <1>4, <2>1, <2>2, <2>3, <2>4, <2>5, <2>6, <2>7 DEF WorkerStep
  <1>5. ASSUME NEW c \in Clients, ClientStep(c)
        PROVE  UNCHANGED workVars
    BY <1>5 DEF ClientStep, Submit, Enqueue, RetryPlan, CancelRead, SubmitRetry, RefuseRetry,
       CancelSave
  <1>6. CASE Crash
    BY <1>6 DEF Crash, Holds
  <1>7. CASE Recover \/ (\E j \in Jobs, o \in Outputs : Damage(j, o)) \/ UNCHANGED vars
    BY <1>7, <1>2 DEF Recover, Damage, vars, workVars
  <1>8. QED
    BY <1>2, <1>3, <1>4, <1>5, <1>6, <1>7 DEF Next

\* "Failed items do not cause successful items to disappear": no step of any run, retry, cancel
\* or restart replaces a recorded weather item; only damage from outside loses its file.
THEOREM ProducedIsKept == Spec => ProducedKept
  <1> DEFINE HoldInv == \A w \in Workers : Holds(w)
  <1>1. Init => HoldInv
    BY DEF Init, IdleWorkers, Holds, InLoop
  <1>2. Inv /\ HoldInv /\ [Next]_vars => HoldInv'
    BY HoldsStep
  <1>3. Inv /\ HoldInv /\ [Next]_vars =>
           [\A j \in Jobs, o \in Outputs :
               items[j][o] = "weather" => items'[j][o] \in {"weather", "broken"}]_vars
    <2> SUFFICES ASSUME Inv, HoldInv, [Next]_vars, NEW j \in Jobs, NEW o \in Outputs,
                        items[j][o] = "weather"
                 PROVE  items'[j][o] \in {"weather", "broken"}
      OBVIOUS
    <2> USE DEF Inv, TypeOK, StoreTypeOK
    <2>1. CASE items' = items
      BY <2>1
    <2>2. ASSUME NEW w \in Workers, Record(w) PROVE items'[j][o] = "weather"
      <3>1. /\ items' = [items EXCEPT ![job[w]][cur[w]] = result[w]]
            /\ wpc[w] = "record" /\ cur[w] \in Outputs /\ job[w] \in Jobs
        BY <2>2 DEF Record, CompleteItem, Goto
      <3>2. ~(job[w] = j /\ cur[w] = o)
        BY <3>1 DEF Holds, InLoop
      <3>3. QED
        BY <3>1, <3>2
    <2>3. ASSUME NEW i \in Jobs, NEW p \in Outputs, Damage(i, p)
          PROVE  items'[j][o] \in {"weather", "broken"}
      BY <2>3 DEF Damage, DamageItem
    <2>4. QED
      BY <2>1, <2>2, <2>3, ItemChanges
  <1>4. QED
    BY <1>1, <1>2, <1>3, Invariance, PTL DEF Spec, ProducedKept
-----------------------------------------------------------------------------
(* A finished record tells the truth.                                      *)

\* The record r of job j, once terminal, agrees with its bundle and with the plan.
Honest(j, r) ==
    /\ r.bundle.made
    /\ r.completed = Cardinality(r.bundle.weather)
    /\ r.state = "completed" =>
          /\ r.bundle.weather = rows[j].plan.outputs
          /\ r.errors = {} /\ ~r.bundle.cut /\ ~rows[j].plan.flawed
    /\ r.state = "failed" => r.bundle.weather = {}
    /\ r.state = "partially_completed" => r.bundle.weather # {}
    /\ r.state # "cancelled" => r.completed + r.failed = Total(j)

Backed(j, S) == \A o \in S : o \in rows[j].plan.outputs /\ items[j][o] \in {"weather", "broken"}

\* A finished job's record is honest and backed; an unfinished one has no bundle.
Settled(j) ==
    /\ Unfinished(j) => jobs[j].bundle = NoBundle
    /\ Finished(j) => /\ Honest(j, jobs[j])
                      /\ jobs[j].state = "cancelled" => jobs[j].cancel
                      /\ Backed(j, jobs[j].bundle.weather)

\* A run has a bundle only when it is about to save it.
Reports(w) ==
    /\ wpc[w] \in Busy \ {"finish"} => copy[w].bundle = NoBundle
    /\ wpc[w] = "finish" => /\ Honest(job[w], copy[w])
                            /\ copy[w].bundle.weather = Produced(w)

\* A cancel writes back a record without a bundle.
ReadsBare(c) == cpc[c] = "cancel" => read[c].bundle = NoBundle

RecordInv ==
    /\ \A j \in Jobs : Settled(j)
    /\ \A w \in Workers : Reports(w)
    /\ \A c \in Clients : ReadsBare(c)

\* The counts of a run that was not cancelled add up to its plan.
LEMMA BundleIsHonest ==
    ASSUME Inv, NEW w \in Workers, Bundle(w), Ended(w)'
    PROVE  Honest(job[w], Bundled(w)) /\ Bundled(w).bundle.weather = Produced(w)
  <1> USE DEF Inv, TypeOK, StoreTypeOK
  <1> DEFINE planned == rows[job[w]].plan.outputs
             made == Cardinality(Produced(w))
             short == IF made < Total(job[w]) THEN Total(job[w]) - made ELSE 0
             cancelled == jobs[job[w]].cancel
             r == Bundled(w)
  <1>1. job[w] \in Jobs /\ wpc[w] = "bundle" /\ copy[w] \in WeatherJobs
    BY DEF Bundle, Goto
  <1>2. Produced(w) \subseteq planned /\ planned \subseteq Outputs
    BY <1>1 DEF WorkersKnow, Knows, InLoop, Produced, Rows, Plans
  <1>3. made \in Nat /\ Total(job[w]) \in Nat /\ made <= Total(job[w])
    <2>1. IsFiniteSet(planned)
      BY <1>2, OutputCounts
    <2>2. QED
      BY <1>2, <2>1, OutputCounts, FS_Subset DEF Total
  <1>4. made + short = Total(job[w])
    BY <1>3
  <1>5. /\ r.bundle = [made |-> TRUE, weather |-> Produced(w), cut |-> copy[w].cut]
        /\ r.completed = made
        /\ ~cancelled => r.failed = short
        /\ r.state = Outcome(w, cancelled, short)
        /\ r.errors = copy[w].errors
    BY <1>1 DEF Bundled, WeatherJobs
  <1>6. cancelled \in BOOLEAN
    BY <1>1 DEF WeatherJobs
  <1>7. r.state = "completed" => Produced(w) = planned
    <2>1. copy'[w] = r /\ job'[w] = job[w] /\ rows' = rows /\ have' = have
      BY DEF Bundle, storeVars
    <2>2. QED
      BY <2>1 DEF Ended, Produced
  <1>8. /\ cancelled => r.state = "cancelled"
        /\ r.state = "completed" => Faultless(w)
        /\ r.state = "failed" => Produced(w) = {}
        /\ r.state = "partially_completed" => Produced(w) # {}
    BY <1>5, <1>6 DEF Outcome
  <1> HIDE DEF r, short, made
  <1>9. r.state # "cancelled" => r.completed + r.failed = Total(job[w])
    BY <1>4, <1>5, <1>8
  <1>10. QED
    BY <1>5, <1>7, <1>8, <1>9 DEF Honest, Faultless, r, made

\* A run's report stays honest until it is saved.
LEMMA ReportsStep ==
    ASSUME Inv, RecordInv, [Next]_vars, NEW w \in Workers
    PROVE  Reports(w)'
  <1> USE DEF Inv, TypeOK, StoreTypeOK
  <1>1. Reports(w) /\ Knows(w) /\ Inv'
    BY InvStep DEF RecordInv, WorkersKnow
  <1>2. ASSUME wpc[w] # "idle" PROVE job[w] \in Jobs /\ rows'[job[w]] = rows[job[w]]
    BY <1>2, TableGrows DEF Grows, ActiveCovers, Running, OnlySubmitted
  <1>3. ASSUME wpc'[w] = wpc[w], job'[w] = job[w], copy'[w] = copy[w], have'[w] = have[w]
        PROVE  Reports(w)'
    <2>1. CASE wpc[w] = "finish"
      BY <1>1, <1>2, <1>3, <2>1 DEF Reports, Honest, Total, Produced, Busy
    <2>2. CASE wpc[w] # "finish"
      BY <1>1, <1>3, <2>2 DEF Reports
    <2>3. QED
      BY <2>1, <2>2
  <1>4. ASSUME NEW v \in Workers, v # w, WorkerStep(v)
        PROVE  Reports(w)'
    <2>1. wpc'[w] = wpc[w] /\ job'[w] = job[w] /\ copy'[w] = copy[w] /\ have'[w] = have[w]
      BY <1>4 DEF WorkerStep, Take, Start, Load, Pick, LeaveLoop, Execute, ExecuteRaises, Record,
         Progress, Collect, Bundle, BundleRaises, Finish, Discard, SaveCopy, Goto
    <2>2. QED
      BY <1>3, <2>1
  <1>5. CASE WorkerStep(w)
    <2>1. CASE Take(w)
      <3>1. Head(queue) \in Jobs
        BY <2>1, HeadTailProperties DEF Take
      <3>2. QED
        BY <2>1, <3>1 DEF Take, Reports, RecordInv, Settled, Busy
    <2>2. CASE Start(w) \/ Progress(w)
      <3>1. copy[w].bundle = NoBundle
        BY <2>2, <1>1 DEF Start, Progress, Goto, Reports, Busy, WorkerStates
      <3>2. copy[w] \in WeatherJobs
        OBVIOUS
      <3>3. copy'[w].bundle = NoBundle
        <4>1. \A rec \in WeatherJobs : Merged(job[w], rec).bundle = rec.bundle
          BY DEF Merged, WeatherJobs
        <4>2. CASE Start(w)
          <5>1. copy'[w] = Merged(job[w], [copy[w] EXCEPT !.state = "running"])
            BY <4>2 DEF Start, SaveCopy
          <5>2. /\ [copy[w] EXCEPT !.state = "running"] \in WeatherJobs
                /\ [copy[w] EXCEPT !.state = "running"].bundle = copy[w].bundle
            BY <3>2 DEF WeatherJobs, JobStates, Active
          <5>3. QED
            BY <3>1, <4>1, <5>1, <5>2
        <4>3. CASE Progress(w)
          <5>1. copy'[w] = Merged(job[w], Counted(w))
            BY <4>3 DEF Progress, SaveCopy
          <5>2. Counted(w) \in WeatherJobs
            BY <4>3, CountedType DEF Progress, Goto
          <5>3. Counted(w).bundle = copy[w].bundle
            BY <3>2 DEF Counted, WeatherJobs
          <5>4. QED
            BY <3>1, <4>1, <5>1, <5>2, <5>3
        <4>4. QED
          BY <2>2, <4>2, <4>3
      <3>4. QED
        BY <2>2, <3>3 DEF Start, Progress, Goto, Reports
    <2>3. CASE ExecuteRaises(w) \/ Collect(w)
      <3>1. copy[w].bundle = NoBundle /\ copy[w] \in WeatherJobs
        BY <2>3, <1>1 DEF ExecuteRaises, Collect, Goto, Reports, Busy, WorkerStates
      <3>2. copy'[w].bundle = NoBundle
        <4>1. CASE ExecuteRaises(w)
          <5>1. copy'[w] = [copy[w] EXCEPT !.errors = @ \cup {cur[w]}]
            BY <4>1 DEF ExecuteRaises
          <5>2. QED
            BY <3>1, <5>1 DEF WeatherJobs
        <4>2. CASE Collect(w)
          <5>1. copy'[w] = Collected(w)
            BY <4>2 DEF Collect
          <5>2. QED
            BY <3>1, <5>1 DEF Collected, WeatherJobs
        <4>3. QED
          BY <2>3, <4>1, <4>2
      <3>3. QED
        BY <2>3, <3>2 DEF ExecuteRaises, Collect, Goto, Reports
    <2>4. CASE Bundle(w)
      <3>1. copy'[w] = Bundled(w) /\ wpc'[w] = "finish" /\ job'[w] = job[w] /\ have' = have
            /\ rows' = rows
        BY <2>4 DEF Bundle, Goto, storeVars
      <3>2. Ended(w)'
        BY <1>1, <3>1 DEF WorkersKnow, Knows
      <3>3. QED
        BY <2>4, <3>1, <3>2, BundleIsHonest DEF Reports, Honest, Total, Produced, Busy
    <2>5. CASE Load(w) \/ Pick(w) \/ LeaveLoop(w) \/ Execute(w) \/ Record(w)
      BY <2>5, <1>1 DEF Load, Pick, LeaveLoop, Execute, Record, Goto, Reports, Busy, WorkerStates
    <2>6. CASE BundleRaises(w) \/ Finish(w) \/ Discard(w)
      BY <2>6 DEF BundleRaises, Finish, Discard, Goto, Reports, Busy
    <2>7. QED
      BY <1>5, <2>1, <2>2, <2>3, <2>4, <2>5, <2>6 DEF WorkerStep
  <1>6. ASSUME NEW c \in Clients, ClientStep(c)
        PROVE  UNCHANGED workVars
    BY <1>6 DEF ClientStep, Submit, Enqueue, RetryPlan, CancelRead, SubmitRetry, RefuseRetry,
       CancelSave
  <1>7. CASE Crash
    BY <1>7 DEF Crash, Reports, Busy
  <1>8. CASE Recover \/ (\E j \in Jobs, o \in Outputs : Damage(j, o)) \/ UNCHANGED vars
    BY <1>8, <1>3 DEF Recover, Damage, vars, workVars
  <1>9. QED
    BY <1>3, <1>4, <1>5, <1>6, <1>7, <1>8 DEF Next, workVars

\* What a cancel has read has no bundle.
LEMMA ReadsBareStep ==
    ASSUME Inv, RecordInv, [Next]_vars, NEW c \in Clients
    PROVE  ReadsBare(c)'
  <1>1. ReadsBare(c)
    BY DEF RecordInv
  <1>2. ASSUME NEW d \in Clients, ClientStep(d)
        PROVE  ReadsBare(c)'
    <2>1. CASE \E j \in Jobs : CancelRead(d, j)
      BY <1>1, <2>1 DEF CancelRead, ReadsBare, RecordInv, Settled, Inv, TypeOK
    <2>2. CASE ~\E j \in Jobs : CancelRead(d, j)
      BY <1>1, <1>2, <2>2 DEF ClientStep, Submit, Enqueue, RetryPlan, SubmitRetry, RefuseRetry,
         CancelSave, Returns, MustEnqueue, ReadsBare, Inv, TypeOK
    <2>3. QED
      BY <2>1, <2>2
  <1>3. ASSUME NEW w \in Workers, WorkerStep(w)
        PROVE  UNCHANGED clientVars
    BY <1>3 DEF WorkerStep, Take, Start, Load, Pick, LeaveLoop, Execute, ExecuteRaises, Record,
       Progress, Collect, Bundle, BundleRaises, Finish, Discard
  <1>4. QED
    BY <1>1, <1>2, <1>3 DEF Next, Crash, Recover, Damage, vars, clientVars, ReadsBare

\* Every step leaves finished records honest: only Finish finishes a job, and only the worker
\* that runs a job, which is then unfinished, changes what its bundle rests on.
LEMMA SettledStep ==
    ASSUME Inv, RecordInv, [Next]_vars, NEW j \in Jobs
    PROVE  Settled(j)'
  <1> USE DEF Inv, TypeOK, StoreTypeOK
  <1>1. Settled(j)
    BY DEF RecordInv
  <1>2. CASE jobs'[j] = jobs[j]
    <2>1. CASE Finished(j)
      <3>1. rows'[j] = rows[j]
        BY <2>1, TableGrows DEF Grows, Exists, Finished, Terminal
      <3>2. \A o \in Outputs : items[j][o] \in {"weather", "broken"}
                               => items'[j][o] \in {"weather", "broken"}
        <4>1. ASSUME NEW w \in Workers, Record(w) PROVE items'[j] = items[j]
          <5>1. job[w] # j
            BY <2>1, <4>1 DEF Record, Goto, WorkersKnow, Knows, Busy, WorkerStates, Unfinished,
               Finished, Active, Terminal
          <5>2. QED
            BY <4>1, <5>1 DEF Record, CompleteItem
        <4>2. ASSUME NEW i \in Jobs, NEW p \in Outputs, Damage(i, p)
              PROVE  \A o \in Outputs : items[j][o] \in {"weather", "broken"}
                                        => items'[j][o] \in {"weather", "broken"}
          BY <4>2 DEF Damage, DamageItem, Verified
        <4>3. QED
          BY <4>1, <4>2, ItemChanges
      <3>3. jobs[j].bundle.weather \subseteq Outputs
        BY DEF WeatherJobs, Bundles
      <3>4. Honest(j, jobs[j])' /\ Backed(j, jobs[j].bundle.weather)'
        BY <1>1, <1>2, <2>1, <3>1, <3>2, <3>3 DEF Settled, Honest, Backed, Total
      <3>5. QED
        BY <1>1, <1>2, <2>1, <3>4 DEF Settled, Finished, Unfinished, Active, Terminal
    <2>2. CASE ~Finished(j)
      BY <1>1, <1>2, <2>2 DEF Settled, Finished, Unfinished
    <2>3. QED
      BY <2>1, <2>2
  <1>3. ASSUME NEW c \in Clients, ClientStep(c), jobs'[j] # jobs[j]
        PROVE  Settled(j)'
    <2>1. CASE CancelSave(c)
      <3>1. j = target[c] /\ jobs'[j] = Merged(j, [read[c] EXCEPT !.cancel = TRUE])
        BY <1>3, <2>1 DEF CancelSave, SaveCancelled, Save
      <3>2. read[c] \in WeatherJobs /\ read[c].state \in Active /\ read[c].bundle = NoBundle
        BY <2>1 DEF CancelSave, ReadsUnfinished, RecordInv, ReadsBare
      <3>3. jobs'[j].state \in Active /\ jobs'[j].bundle = NoBundle
        BY <3>1, <3>2 DEF Merged, WeatherJobs
      <3>4. QED
        BY <3>3 DEF Settled, Finished, Active, Terminal
    <2>2. CASE ~CancelSave(c)
      <3>1. jobs'[j] = NewJob
        BY <1>3, <2>2 DEF ClientStep, Submit, Enqueue, RetryPlan, CancelRead, SubmitRetry,
           RefuseRetry, InsertJob, ReturnPrior, storeVars
      <3>2. QED
        BY <3>1 DEF NewJob, Settled, Finished, Terminal
    <2>3. QED
      BY <2>1, <2>2
  <1>4. ASSUME NEW w \in Workers, WorkerStep(w), jobs'[j] # jobs[j]
        PROVE  Settled(j)'
    <2>1. Start(w) \/ Progress(w) \/ Finish(w)
      BY <1>4 DEF WorkerStep, Take, Load, Pick, LeaveLoop, Execute, ExecuteRaises, Record,
         Collect, Bundle, BundleRaises, Discard, CompleteItem, storeVars
    <2>2. job[w] = j /\ copy[w] \in WeatherJobs /\ UNCHANGED <<rows, items>>
      BY <1>4, <2>1 DEF Start, Progress, Finish, SaveCopy, Save
    <2>3. CASE Start(w)
      <3>1. jobs'[j] = Merged(j, [copy[w] EXCEPT !.state = "running"])
        BY <2>2, <2>3 DEF Start, SaveCopy, Save
      <3>2. copy[w].bundle = NoBundle
        BY <2>3 DEF Start, Goto, RecordInv, Reports, Busy, WorkerStates
      <3>3. jobs'[j].state = "running" /\ jobs'[j].bundle = NoBundle
        BY <2>2, <3>1, <3>2 DEF Merged, WeatherJobs
      <3>4. QED
        BY <3>3 DEF Settled, Finished, Terminal
    <2>4. CASE Progress(w)
      <3>1. jobs'[j] = Merged(j, Counted(w)) /\ wpc[w] = "progress"
        BY <2>2, <2>4 DEF Progress, SaveCopy, Save, Goto
      <3>2. copy[w].bundle = NoBundle /\ copy[w].state = "running"
        BY <3>1 DEF RecordInv, Reports, Busy, WorkerStates, WorkersKnow, Knows
      <3>3. Counted(w).state = "running" /\ Counted(w).bundle = NoBundle
        BY <2>2, <3>2 DEF Counted, WeatherJobs
      <3>4. Counted(w) \in WeatherJobs
        BY <3>1, CountedType
      <3>5. jobs'[j].state = "running" /\ jobs'[j].bundle = NoBundle
        BY <3>1, <3>3, <3>4 DEF Merged, WeatherJobs
      <3>6. QED
        BY <3>5 DEF Settled, Finished, Terminal
    <2>5. CASE Finish(w)
      <3>1. jobs'[j] = Merged(j, copy[w]) /\ wpc[w] = "finish"
        BY <2>2, <2>5 DEF Finish, SaveCopy, Save, Goto
      <3>2. Honest(j, copy[w]) /\ copy[w].bundle.weather = Produced(w) /\ Ended(w)
        BY <2>2, <3>1 DEF RecordInv, Reports, WorkersKnow, Knows
      <3>3. jobs[j].cancel => jobs'[j].cancel
        BY <2>2, <3>1 DEF Merged, WeatherJobs
      <3>4. /\ jobs'[j].state = copy[w].state /\ jobs'[j].errors = copy[w].errors
            /\ jobs'[j].completed = copy[w].completed /\ jobs'[j].failed = copy[w].failed
            /\ jobs'[j].bundle = copy[w].bundle
        BY <2>2, <3>1 DEF Merged, WeatherJobs
      <3>5. Honest(j, jobs[j])'
        BY <2>2, <3>2, <3>4 DEF Honest, Total
      <3>6. Backed(j, Produced(w))
        BY <2>2, <3>1 DEF WorkersKnow, Knows, InLoop, Backed, Produced
      <3>7. Backed(j, jobs[j].bundle.weather)'
        BY <2>2, <3>2, <3>4, <3>6 DEF Backed
      <3>8. jobs'[j].state \in Terminal /\ (jobs'[j].state = "cancelled" => jobs'[j].cancel)
        BY <2>2, <3>2, <3>3, <3>4 DEF Ended
      <3>9. QED
        BY <3>5, <3>7, <3>8 DEF Settled, Unfinished, Active, Terminal
    <2>6. QED
      BY <2>1, <2>3, <2>4, <2>5
  <1>5. QED
    BY <1>2, <1>3, <1>4 DEF Next, Crash, Recover, Damage, DamageItem, storeVars, vars

\* What a client reads of a finished job is true, for any interleaving of runs, cancels, retries,
\* damages and restarts: its state and counts are those of its bundle, and what the bundle lists
\* was produced by the job and is still recorded (JobRunner.run, JobStore).
THEOREM FinishedRecordsAreTrue == Spec => []ResultsAreTrue
  <1>1. Init => RecordInv
    BY DEF Init, StoreInit, IdleWorkers, IdleClients, RecordInv, Settled, Reports, ReadsBare, Busy,
       NoJob, NewJob, Unfinished, Finished, Active, Terminal
  <1>2. Inv /\ RecordInv /\ [Next]_vars => RecordInv'
    BY SettledStep, ReportsStep, ReadsBareStep DEF RecordInv
  <1>3. Inv /\ RecordInv => ResultsAreTrue
    <2> SUFFICES ASSUME Inv, RecordInv, NEW j \in Jobs
                 PROVE  /\ Finished(j) => /\ Honest(j, jobs[j])
                                          /\ jobs[j].state = "cancelled" => jobs[j].cancel
                        /\ Backed(j, jobs[j].bundle.weather)
      BY DEF ResultsAreTrue, TerminalIsTruthful, BundleIsBacked, Honest, Backed
    <2>1. Settled(j)
      BY DEF RecordInv
    <2>2. CASE Finished(j)
      BY <2>1, <2>2 DEF Settled
    <2>3. CASE ~Finished(j)
      <3>1. jobs[j].bundle = NoBundle
        <4>1. jobs[j].state \in JobStates
          BY DEF Inv, TypeOK, StoreTypeOK, WeatherJobs
        <4>2. CASE Unfinished(j)
          BY <2>1, <4>2 DEF Settled
        <4>3. CASE ~Exists(j)
          BY <4>3 DEF Inv, OnlySubmitted, NoJob, NewJob
        <4>4. QED
          BY <2>3, <4>1, <4>2, <4>3 DEF Exists, JobStates, Unfinished, Finished
      <3>2. QED
        BY <2>3, <3>1 DEF NoBundle, Backed
    <2>4. QED
      BY <2>2, <2>3
  <1>4. QED
    BY <1>1, <1>2, <1>3, Invariance, PTL DEF Spec
-----------------------------------------------------------------------------
(* A retry stays apart from what its parent produced.                      *)

\* Job j is over and produced none of these outputs.
Barren(j, outputs) == j \in Jobs /\ Finished(j) /\ \A o \in outputs : items[j][o] # "weather"

\* As long as nobody asks for a cancellation: a stale cancel takes a finished job back to an
\* unfinished one, which the next start of the process runs once more.
RetryInv ==
    spent["cancel"] = 0 =>
        /\ \A c \in Clients : cpc[c] # "cancel"
        /\ \A c \in Clients : cpc[c] = "retry" => Barren(target[c], retry[c].outputs)
        /\ \A j \in Jobs : rows[j].parent # None => Barren(rows[j].parent, rows[j].plan.outputs)

\* A job that is over is not run again, so what it did not produce it never will.
LEMMA BarrenStays ==
    ASSUME Inv, [Next]_vars, \A c \in Clients : cpc[c] # "cancel",
           NEW j, NEW outputs \in SUBSET Outputs, Barren(j, outputs)
    PROVE  Barren(j, outputs)'
  <1>1. j \in Jobs /\ Finished(j)
    BY DEF Barren
  <1>2. ~\E w \in Workers : wpc[w] \in Busy /\ job[w] = j
    BY <1>1 DEF Inv, WorkersKnow, Knows, Unfinished, Finished, Active, Terminal
  <1>3. jobs'[j] = jobs[j]
    BY <1>1, <1>2, RecordChanges DEF Exists, Finished, Terminal
  <1>4. ASSUME NEW o \in outputs, items'[j][o] = "weather"
        PROVE  FALSE
    <2>1. items[j][o] # "weather"
      BY DEF Barren
    <2>2. PICK w \in Workers : Record(w) /\ job[w] = j
      BY <1>1, <1>4, <2>1, WeatherIsRecorded
    <2>3. QED
      BY <1>2, <2>2 DEF Record, Goto, Busy, WorkerStates
  <1>5. QED
    BY <1>1, <1>3, <1>4 DEF Barren, Finished

\* Cancel requests are counted for good.
LEMMA CancelsCount ==
    ASSUME TypeOK, [Next]_vars, spent'["cancel"] = 0
    PROVE  /\ spent["cancel"] = 0
           /\ ~\E c \in Clients, j \in Jobs : CancelRead(c, j)
  <1> USE DEF TypeOK, Events
  <1>1. CASE \E c \in Clients : ClientStep(c)
    BY <1>1 DEF ClientStep, Submit, Enqueue, RetryPlan, CancelRead, SubmitRetry, RefuseRetry, CancelSave
  <1>2. CASE \E w \in Workers : WorkerStep(w)
    <2>1. spent' \in {spent, [spent EXCEPT !["fault"] = @ + 1]}
      BY <1>2 DEF WorkerStep, Take, Start, Load, Pick, LeaveLoop, Execute, ExecuteRaises, Record,
         Progress, Collect, Bundle, BundleRaises, Finish, Discard
    <2>2. spent'["cancel"] = spent["cancel"]
      BY <2>1
    <2>3. QED
      BY <2>2 DEF CancelRead
  <1>3. CASE Crash \/ Recover \/ UNCHANGED vars
    BY <1>3 DEF Crash, Recover, vars, CancelRead
  <1>4. CASE \E j \in Jobs, o \in Outputs : Damage(j, o)
    BY <1>4 DEF Damage, CancelRead
  <1>5. QED
    BY <1>1, <1>2, <1>3, <1>4 DEF Next

\* What a step does to the rows and to the clients that are to retry.
LEMMA RetryChanges ==
    ASSUME Inv, [Next]_vars, ~\E c \in Clients, j \in Jobs : CancelRead(c, j)
    PROVE  /\ \A c \in Clients :
                 \/ cpc'[c] \notin {"cancel", "retry"}
                 \/ UNCHANGED <<cpc[c], target[c], retry[c]>>
                 \/ \E j \in Jobs : /\ cpc'[c] = "retry" /\ target'[c] = j /\ Finished(j)
                                    /\ retry'[c].outputs = Missing(j) /\ UNCHANGED storeVars
           /\ \A j \in Jobs :
                 \/ rows'[j] = rows[j]
                 \/ rows'[j].parent = None
                 \/ \E c \in Clients : cpc[c] = "retry" /\ rows'[j].parent = target[c]
                                       /\ rows'[j].plan = retry[c]
  <1> USE DEF Inv, TypeOK, StoreTypeOK
  <1> DEFINE Asking(c) ==
                 \/ cpc'[c] \notin {"cancel", "retry"}
                 \/ UNCHANGED <<cpc[c], target[c], retry[c]>>
                 \/ \E j \in Jobs : /\ cpc'[c] = "retry" /\ target'[c] = j /\ Finished(j)
                                    /\ retry'[c].outputs = Missing(j) /\ UNCHANGED storeVars
             Row(j) ==
                 \/ rows'[j] = rows[j]
                 \/ rows'[j].parent = None
                 \/ \E c \in Clients : cpc[c] = "retry" /\ rows'[j].parent = target[c]
                                       /\ rows'[j].plan = retry[c]
  <1>1. ASSUME NEW c \in Clients, ClientStep(c)
        PROVE  (\A d \in Clients : Asking(d)) /\ \A j \in Jobs : Row(j)
    <2>1. CASE \E p \in Requests, k \in Keys \cup {None} : Submit(c, p, k)
      BY <2>1 DEF Submit, InsertJob, ReturnPrior, MustEnqueue, storeVars
    <2>2. CASE \E k \in Keys \cup {None} : SubmitRetry(c, k)
      <3>1. PICK k \in Keys \cup {None}, j \in Jobs :
               /\ InsertJob(j, retry[c], k, target[c]) \/ ReturnPrior(j, retry[c], k)
               /\ MustEnqueue(c, j) /\ cpc[c] = "retry"
        BY <2>2 DEF SubmitRetry
      <3>2. \A d \in Clients : Asking(d)
        BY <3>1 DEF MustEnqueue
      <3>3. CASE ReturnPrior(j, retry[c], k)
        BY <3>2, <3>3 DEF ReturnPrior, storeVars
      <3>4. CASE InsertJob(j, retry[c], k, target[c])
        <4>1. rows' = [rows EXCEPT ![j] = [plan |-> retry[c], key |-> k, parent |-> target[c]]]
          BY <3>4 DEF InsertJob
        <4>2. \A i \in Jobs : i # j => rows'[i] = rows[i]
          BY <4>1
        <4>3. rows'[j].plan = retry[c] /\ rows'[j].parent = target[c]
          BY <4>1
        <4>4. QED
          BY <3>1, <3>2, <4>2, <4>3
      <3>5. QED
        BY <3>1, <3>3, <3>4
    <2>3. CASE \E k \in Keys \cup {None} : RefuseRetry(c, k)
      BY <2>3 DEF RefuseRetry, Returns, storeVars
    <2>4. CASE Enqueue(c) \/ CancelSave(c)
      BY <2>4 DEF Enqueue, CancelSave, SaveCancelled, Save, Returns, storeVars
    <2>5. CASE \E j \in Jobs : RetryPlan(c, j)
      BY <2>5 DEF RetryPlan, storeVars
    <2>6. QED
      BY <1>1, <2>1, <2>2, <2>3, <2>4, <2>5 DEF ClientStep
  <1>2. ASSUME NEW w \in Workers, WorkerStep(w)
        PROVE  UNCHANGED clientVars /\ UNCHANGED rows
    BY <1>2 DEF WorkerStep, Take, Start, Load, Pick, LeaveLoop, Execute, ExecuteRaises, Record,
       Progress, Collect, Bundle, BundleRaises, Finish, Discard, SaveCopy, Save, CompleteItem, storeVars
  <1>3. CASE UNCHANGED clientVars /\ UNCHANGED rows
    BY <1>3 DEF clientVars
  <1>4. CASE Crash
    BY <1>4 DEF Crash, storeVars
  <1>5. CASE Recover \/ (\E j \in Jobs, o \in Outputs : Damage(j, o)) \/ UNCHANGED vars
    BY <1>3, <1>5 DEF Recover, Damage, DamageItem, storeVars, vars, clientVars
  <1>6. QED
    BY <1>1, <1>2, <1>3, <1>4, <1>5 DEF Next

LEMMA RetryStep == Inv /\ RetryInv /\ [Next]_vars => RetryInv'
  <1> SUFFICES ASSUME Inv, RetryInv, [Next]_vars, spent'["cancel"] = 0
               PROVE  /\ \A c \in Clients : cpc'[c] # "cancel"
                      /\ \A c \in Clients : cpc'[c] = "retry" => Barren(target[c], retry[c].outputs)'
                      /\ \A j \in Jobs : rows'[j].parent # None
                                        => Barren(rows[j].parent, rows[j].plan.outputs)'
    BY DEF RetryInv
  <1>1. /\ \A c \in Clients : cpc[c] # "cancel"
        /\ \A c \in Clients : cpc[c] = "retry" => Barren(target[c], retry[c].outputs)
        /\ \A j \in Jobs : rows[j].parent # None => Barren(rows[j].parent, rows[j].plan.outputs)
        /\ ~\E c \in Clients, j \in Jobs : CancelRead(c, j)
    BY CancelsCount DEF RetryInv, Inv
  <1>2. /\ \A c \in Clients : retry[c].outputs \in SUBSET Outputs
        /\ \A j \in Jobs : rows[j].plan.outputs \in SUBSET Outputs
    BY DEF Inv, TypeOK, StoreTypeOK, Rows, Plans
  <1>3. ASSUME NEW c \in Clients
        PROVE  cpc'[c] # "cancel" /\ (cpc'[c] = "retry" => Barren(target[c], retry[c].outputs)')
    <2>1. CASE UNCHANGED <<cpc[c], target[c], retry[c]>>
      <3>1. cpc[c] = "retry" => Barren(target[c], retry[c].outputs)'
        <4>1. \A j : Barren(j, retry[c].outputs) => Barren(j, retry[c].outputs)'
          BY <1>1, <1>2, <2>1, BarrenStays
        <4>2. QED
          BY <1>1, <2>1, <4>1 DEF Barren
      <3>2. QED
        BY <1>1, <2>1, <3>1
    <2>2. ASSUME NEW j \in Jobs, cpc'[c] = "retry", target'[c] = j, Finished(j),
                 retry'[c].outputs = Missing(j), UNCHANGED storeVars
          PROVE  Barren(target[c], retry[c].outputs)'
      BY <2>2 DEF Barren, Missing, Finished, storeVars
    <2>3. QED
      BY <1>1, <2>1, <2>2, RetryChanges
  <1>4. ASSUME NEW j \in Jobs, rows'[j].parent # None
        PROVE  Barren(rows[j].parent, rows[j].plan.outputs)'
    <2>1. ASSUME NEW i, NEW outputs \in SUBSET Outputs, Barren(i, outputs),
                 rows'[j].parent = i, rows'[j].plan.outputs = outputs
          PROVE  Barren(rows[j].parent, rows[j].plan.outputs)'
      <3>1. Barren(i, outputs)'
        BY <1>1, <2>1, BarrenStays
      <3>2. QED
        BY <2>1, <3>1 DEF Barren
    <2>2. CASE rows'[j] = rows[j]
      BY <1>1, <1>2, <1>4, <2>1, <2>2
    <2>3. ASSUME NEW c \in Clients, cpc[c] = "retry", rows'[j].parent = target[c], rows'[j].plan = retry[c]
          PROVE  Barren(rows[j].parent, rows[j].plan.outputs)'
      BY <1>1, <1>2, <2>1, <2>3
    <2>4. QED
      BY <1>1, <1>4, <2>2, <2>3, RetryChanges
  <1>5. QED
    BY <1>3, <1>4

\* Until somebody cancels a job, a retry and its parent never produce the same output, whatever
\* crashes, restarts and further retries come between (JobRunner.retry_plan).
THEOREM RetriesAreDisjoint == Spec => [](spent["cancel"] = 0 => RetryIsDisjoint)
  <1>1. Init => RetryInv
    <2> SUFFICES ASSUME Init PROVE RetryInv
      OBVIOUS
    <2>1. \A c \in Clients : cpc[c] = "idle"
      BY DEF Init, IdleClients
    <2>2. \A j \in Jobs : rows[j].parent = None
      BY DEF Init, StoreInit, NoRow
    <2>3. QED
      BY <2>1, <2>2 DEF RetryInv
  <1>2. Inv /\ RetryInv /\ [Next]_vars => RetryInv'
    BY RetryStep
  <1>3. RetryInv => (spent["cancel"] = 0 => RetryIsDisjoint)
    BY DEF RetryInv, RetryIsDisjoint, Barren
  <1>4. QED
    BY <1>1, <1>2, <1>3, Invariance, PTL DEF Spec
=============================================================================
