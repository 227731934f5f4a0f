----------------------------- MODULE JobRunner -----------------------------
(***************************************************************************)
(* The durable job runner (openepw/jobs/worker.py) over the job store: one *)
(* server process, its request threads ("clients"), its bounded thread     *)
(* pool ("workers") and the crash and restart of the process.              *)
(*                                                                         *)
(* A worker's run(job_id) is split where it touches the store, because     *)
(* request threads run between any two of those touches:                   *)
(*   Take -> Start -> Load -> (Pick -> Execute -> Record -> Progress)*     *)
(*        -> Collect -> Bundle -> Finish -> Discard                        *)
(* The record job = store.get(job_id) that run keeps for its whole life is *)
(* copy[w]; it is what every later save writes back.                       *)
(***************************************************************************)
EXTENDS JobStore, Sequences

CONSTANTS Workers,      \* threads of the pool (config.workers)
          Clients,      \* request threads: REST, MCP and agent turns
          Requests,     \* the plans callers submit
          MaxCrashes,   \* bound on crashes of the process
          MaxCancels,   \* bound on cancel requests
          MaxDamages,   \* bound on items whose files are damaged
          MaxFaults     \* bound on failures to write the final bundle

ASSUME RunnerAssumption ==
    /\ None \notin Workers \cup Clients
    /\ {MaxCrashes, MaxCancels, MaxDamages, MaxFaults} \subseteq Nat
    /\ Requests \subseteq Plans

VARIABLES up,      \* is the process serving?
          active,  \* JobRunner.active: ids queued or running in this process
          queue,   \* the executor's FIFO work queue
          wpc,     \* where each worker is in run()
          job,     \* the job each worker runs
          copy,    \* each worker's local WeatherJob
          have,    \* each worker's `completed` dict
          tried,   \* outputs this run attempted
          cur,     \* the output being executed
          result,  \* what service.execute returned for it
          cpc,     \* where each request thread is
          target,  \* the job it acts on
          read,    \* the record its cancel() read
          retry,   \* the subplan its retry_failed() built
          spent    \* how often each bounded event happened

poolVars == <<active, queue>>
workVars == <<wpc, job, copy, have, tried, cur, result>>
clientVars == <<cpc, target, read, retry>>
vars == <<rows, jobs, items, up, active, queue, wpc, job, copy, have, tried, cur, result,
          cpc, target, read, retry, spent>>
-----------------------------------------------------------------------------
WorkerStates == {"idle", "start", "load", "next", "execute", "record", "progress",
                 "collect", "bundle", "finish", "discard"}
ClientStates == {"idle", "enqueue", "cancel", "retry"}
Events == {"crash", "cancel", "damage", "fault"}
NoPlan == NoRow.plan

TypeOK ==
    /\ StoreTypeOK
    /\ up \in BOOLEAN
    /\ active \subseteq Jobs
    /\ queue \in Seq(Jobs)
    /\ wpc \in [Workers -> WorkerStates]
    /\ job \in [Workers -> Jobs \cup {None}]
    /\ copy \in [Workers -> WeatherJobs]
    /\ have \in [Workers -> [Outputs -> HeldStates]]
    /\ tried \in [Workers -> SUBSET Outputs]
    /\ cur \in [Workers -> Outputs \cup {None}]
    /\ result \in [Workers -> HeldStates]
    /\ cpc \in [Clients -> ClientStates]
    /\ target \in [Clients -> Jobs \cup {None}]
    /\ read \in [Clients -> WeatherJobs]
    /\ retry \in [Clients -> Plans]
    /\ spent \in [Events -> Nat]
    /\ \A w \in Workers :
          /\ wpc[w] # "idle" => job[w] \in Jobs
          /\ wpc[w] \in {"execute", "record", "progress"} => cur[w] \in Outputs
    /\ \A c \in Clients : cpc[c] # "idle" => target[c] \in Jobs

IdleWorkers ==
    /\ wpc = [w \in Workers |-> "idle"]
    /\ job = [w \in Workers |-> None]
    /\ copy = [w \in Workers |-> NoJob]
    /\ have = [w \in Workers |-> NoItems]
    /\ tried = [w \in Workers |-> {}]
    /\ cur = [w \in Workers |-> None]
    /\ result = [w \in Workers |-> "none"]

IdleClients ==
    /\ cpc = [c \in Clients |-> "idle"]
    /\ target = [c \in Clients |-> None]
    /\ read = [c \in Clients |-> NoJob]
    /\ retry = [c \in Clients |-> NoPlan]

Init ==
    /\ StoreInit
    /\ up = TRUE
    /\ active = {}
    /\ queue = <<>>
    /\ IdleWorkers
    /\ IdleClients
    /\ spent = [e \in Events |-> 0]
-----------------------------------------------------------------------------
(* Request threads: JobRunner.submit, retry_failed, and JobStore.cancel.   *)

\* A client is done with its request: its locals go out of scope.
Returns(c) ==
    /\ cpc' = [cpc EXCEPT ![c] = "idle"]
    /\ target' = [target EXCEPT ![c] = None]
    /\ read' = [read EXCEPT ![c] = NoJob]
    /\ retry' = [retry EXCEPT ![c] = NoPlan]

\* store.submit has returned job j; enqueue(j) is still to come.
MustEnqueue(c, j) ==
    /\ cpc' = [cpc EXCEPT ![c] = "enqueue"]
    /\ target' = [target EXCEPT ![c] = j]
    /\ retry' = [retry EXCEPT ![c] = NoPlan]
    /\ UNCHANGED read

Submit(c, p, k) ==
    /\ up /\ cpc[c] = "idle"
    /\ \E j \in Jobs : /\ InsertJob(j, p, k, None) \/ ReturnPrior(j, p, k)
                       /\ MustEnqueue(c, j)
    /\ UNCHANGED <<up, poolVars, workVars, spent>>

\* enqueue: nothing to do when this process already holds the job, else hand it to the pool
\* (faulty: hand it over in any case).
EnqueueAlways(c) ==
    /\ cpc[c] = "enqueue"
    /\ active' = active \cup {target[c]}
    /\ queue' = Append(queue, target[c])
    /\ Returns(c)
    /\ UNCHANGED <<storeVars, up, workVars, spent>>
Enqueue(c) ==
    /\ cpc[c] = "enqueue"
    /\ LET j == target[c] IN
          \/ j \in active /\ UNCHANGED poolVars
          \/ /\ j \notin active
             /\ active' = active \cup {j}
             /\ queue' = Append(queue, j)
    /\ Returns(c)
    /\ UNCHANGED <<storeVars, up, workVars, spent>>

\* retry_plan: the outputs of a finished job without a verified weather artifact.
Missing(j) == {o \in rows[j].plan.outputs : items[j][o] # "weather"}
RetryOpen(c, j) ==   \* faulty: does not wait for the job to finish
    /\ up /\ cpc[c] = "idle"
    /\ Exists(j) /\ Missing(j) # {}
    /\ cpc' = [cpc EXCEPT ![c] = "retry"]
    /\ target' = [target EXCEPT ![c] = j]
    /\ retry' = [retry EXCEPT ![c] = [outputs |-> Missing(j), flawed |-> FALSE]]
    /\ UNCHANGED <<storeVars, up, poolVars, workVars, read, spent>>
RetryPlan(c, j) ==
    /\ up /\ cpc[c] = "idle"
    /\ Finished(j)
    /\ Missing(j) # {}
    /\ cpc' = [cpc EXCEPT ![c] = "retry"]
    /\ target' = [target EXCEPT ![c] = j]
    /\ retry' = [retry EXCEPT ![c] = [outputs |-> Missing(j), flawed |-> FALSE]]
    /\ UNCHANGED <<storeVars, up, poolVars, workVars, read, spent>>

\* retry_failed then submits that subplan, linked to the job it retries.
SubmitRetry(c, k) ==
    /\ cpc[c] = "retry"
    /\ \E j \in Jobs : /\ \/ InsertJob(j, retry[c], k, target[c])
                          \/ ReturnPrior(j, retry[c], k)
                       /\ MustEnqueue(c, j)
    /\ UNCHANGED <<up, poolVars, workVars, spent>>

\* Either submission is refused with IDEMPOTENCY_CONFLICT: the key names another plan.
RefuseRetry(c, k) ==
    /\ cpc[c] = "retry"
    /\ \E j \in Prior(k) : ~SamePlan(j, retry[c])
    /\ Returns(c)
    /\ UNCHANGED <<storeVars, up, poolVars, workVars, spent>>

\* JobStore.cancel reads the record; a finished job is left alone.
CancelRead(c, j) ==
    /\ up /\ cpc[c] = "idle"
    /\ spent["cancel"] < MaxCancels
    /\ Unfinished(j)
    /\ cpc' = [cpc EXCEPT ![c] = "cancel"]
    /\ target' = [target EXCEPT ![c] = j]
    /\ read' = [read EXCEPT ![c] = jobs[j]]
    /\ spent' = [spent EXCEPT !["cancel"] = @ + 1]
    /\ UNCHANGED <<storeVars, up, poolVars, workVars, retry>>

\* ... and writes back what it read, flagged, whatever the worker saved meanwhile.
CancelSave(c) ==
    /\ cpc[c] = "cancel"
    /\ SaveCancelled(target[c], read[c])
    /\ Returns(c)
    /\ UNCHANGED <<up, poolVars, workVars, spent>>
-----------------------------------------------------------------------------
(* Workers: JobRunner._run and JobRunner.run.                              *)

Goto(w, from, to) == wpc[w] = from /\ wpc' = [wpc EXCEPT ![w] = to]

\* The worker's save: the local record takes over the flag the table held.
SaveCopy(w, rec) ==
    /\ Save(job[w], rec)
    /\ copy' = [copy EXCEPT ![w] = Merged(job[w], rec)]

\* run: read the record; a job that is already finished is left as it is (faulty: it is run
\* again).
TakeAny(w) ==
    /\ wpc[w] = "idle" /\ queue # <<>>
    /\ queue' = Tail(queue)
    /\ job' = [job EXCEPT ![w] = Head(queue)]
    /\ wpc' = [wpc EXCEPT ![w] = "start"]
    /\ copy' = [copy EXCEPT ![w] = jobs[Head(queue)]]
    /\ UNCHANGED <<storeVars, up, active, have, tried, cur, result, clientVars, spent>>
Take(w) ==
    /\ wpc[w] = "idle" /\ queue # <<>>
    /\ queue' = Tail(queue)
    /\ job' = [job EXCEPT ![w] = Head(queue)]
    /\ IF Unfinished(Head(queue))
       THEN /\ wpc' = [wpc EXCEPT ![w] = "start"]
            /\ copy' = [copy EXCEPT ![w] = jobs[Head(queue)]]
       ELSE wpc' = [wpc EXCEPT ![w] = "discard"] /\ UNCHANGED copy
    /\ UNCHANGED <<storeVars, up, active, have, tried, cur, result, clientVars, spent>>

Start(w) ==
    /\ Goto(w, "start", "load")
    /\ SaveCopy(w, [copy[w] EXCEPT !.state = "running"])
    /\ UNCHANGED <<up, poolVars, job, have, tried, cur, result, clientVars, spent>>

\* Reuse the items whose artifacts all verify; the others are executed again (faulty: a
\* resumed run starts afresh).
LoadNothing(w) ==
    /\ Goto(w, "load", "next")
    /\ have' = [have EXCEPT ![w] = NoItems]
    /\ tried' = [tried EXCEPT ![w] = {}]
    /\ UNCHANGED <<storeVars, up, poolVars, job, copy, cur, result, clientVars, spent>>
Load(w) ==
    /\ Goto(w, "load", "next")
    /\ have' = [have EXCEPT ![w] = [o \in Outputs |->
                   IF items[job[w]][o] \in Verified THEN items[job[w]][o] ELSE "none"]]
    /\ tried' = [tried EXCEPT ![w] = {}]
    /\ UNCHANGED <<storeVars, up, poolVars, job, copy, cur, result, clientVars, spent>>

Kept(w) == {o \in Outputs : have[w][o] # "none"}
Produced(w) == {o \in Outputs : have[w][o] = "weather"}
Remaining(w) == rows[job[w]].plan.outputs \ (Kept(w) \cup tried[w])

\* The next output of the plan, in plan order, unless the job is cancelled.
Pick(w) ==
    /\ Goto(w, "next", "execute")
    /\ ~jobs[job[w]].cancel
    /\ \E o \in Remaining(w) : /\ \A p \in Remaining(w) : o <= p
                               /\ cur' = [cur EXCEPT ![w] = o]
    /\ UNCHANGED <<storeVars, up, poolVars, job, copy, have, tried, result, clientVars, spent>>

LeaveLoop(w) ==
    /\ Goto(w, "next", "collect")
    /\ jobs[job[w]].cancel \/ Remaining(w) = {}
    /\ UNCHANGED <<storeVars, up, poolVars, job, copy, have, tried, cur, result, clientVars, spent>>

\* service.execute of the one-output subplan: a bundle with weather, one without, one cut
\* short because it polled the cancellation flag ...
Execute(w) ==
    /\ Goto(w, "execute", "record")
    /\ \E r \in {"weather", "empty"} \cup (IF jobs[job[w]].cancel THEN {"cut"} ELSE {}) :
          result' = [result EXCEPT ![w] = r]
    /\ UNCHANGED <<storeVars, up, poolVars, job, copy, have, tried, cur, clientVars, spent>>

\* ... or an exception, which becomes an error of the job (kept in the local record).
ExecuteRaises(w) ==
    /\ Goto(w, "execute", "progress")
    /\ copy' = [copy EXCEPT ![w].errors = @ \cup {cur[w]}]
    /\ UNCHANGED <<storeVars, up, poolVars, job, have, tried, cur, result, clientVars, spent>>

Record(w) ==
    /\ Goto(w, "record", "progress")
    /\ CompleteItem(job[w], cur[w], result[w])
    /\ have' = [have EXCEPT ![w][cur[w]] = result[w]]
    /\ result' = [result EXCEPT ![w] = "none"]
    /\ UNCHANGED <<up, poolVars, job, copy, tried, cur, clientVars, spent>>

\* Persist the running counts: attempted = reused items + outputs tried in this run.
Attempted(w) == Kept(w) \cup tried[w] \cup {cur[w]}
Counted(w) == [copy[w] EXCEPT !.completed = Cardinality(Produced(w)),
                              !.failed = Cardinality(Attempted(w) \ Produced(w))]
Progress(w) ==
    /\ Goto(w, "progress", "next")
    /\ tried' = [tried EXCEPT ![w] = @ \cup {cur[w]}]
    /\ SaveCopy(w, Counted(w))
    /\ cur' = [cur EXCEPT ![w] = None]
    /\ UNCHANGED <<up, poolVars, job, have, result, clientVars, spent>>

\* After the loop: gather the issues; the flag is read once more for the CANCELLED issue.
Collected(w) == [copy[w] EXCEPT
    !.errors = @ \cup {o \in Outputs : have[w][o] = "empty"},
    !.cut = jobs[job[w]].cancel \/ \E o \in Outputs : have[w][o] = "cut"]
Collect(w) ==
    /\ Goto(w, "collect", "bundle")
    /\ copy' = [copy EXCEPT ![w] = Collected(w)]
    /\ UNCHANGED <<storeVars, up, poolVars, job, have, tried, cur, result, clientVars, spent>>

Readable(w) == \A o \in Kept(w) : items[job[w]][o] \in Verified

\* The state of a finished run (faulty: the errors that were raised are forgotten).
Uncut(w) == ~copy[w].cut /\ ~rows[job[w]].plan.flawed
Faultless(w) == copy[w].errors = {} /\ ~copy[w].cut /\ ~rows[job[w]].plan.flawed
Outcome(w, cancelled, short) ==
    CASE cancelled -> "cancelled"
      [] ~cancelled /\ Faultless(w) /\ short = 0 -> "completed"
      [] OTHER -> IF Produced(w) = {} THEN "failed" ELSE "partially_completed"

\* Write the job's manifest and bundle, read the flag a third time, decide the state.
Bundled(w) ==
    LET cancelled == jobs[job[w]].cancel
        made == Cardinality(Produced(w))
        short == IF made < Total(job[w]) THEN Total(job[w]) - made ELSE 0
    IN [copy[w] EXCEPT
          !.bundle = [made |-> TRUE, weather |-> Produced(w), cut |-> copy[w].cut],
          !.completed = made,
          !.failed = IF cancelled THEN Cardinality(Kept(w) \ Produced(w)) ELSE short,
          !.state = Outcome(w, cancelled, short)]
Bundle(w) ==
    /\ Goto(w, "bundle", "finish")
    /\ Readable(w)
    /\ copy' = [copy EXCEPT ![w] = Bundled(w)]
    /\ UNCHANGED <<storeVars, up, poolVars, job, have, tried, cur, result, clientVars, spent>>

\* An exception outside the per-output try (an unreadable manifest, a failed write) ends run;
\* nothing is saved, _run only drops the job from `active`.
BundleRaises(w) ==
    /\ Goto(w, "bundle", "discard")
    /\ \/ ~Readable(w) /\ UNCHANGED spent
       \/ /\ spent["fault"] < MaxFaults
          /\ spent' = [spent EXCEPT !["fault"] = @ + 1]
    /\ UNCHANGED <<storeVars, up, poolVars, job, copy, have, tried, cur, result, clientVars>>

Finish(w) ==
    /\ Goto(w, "finish", "discard")
    /\ SaveCopy(w, copy[w])
    /\ UNCHANGED <<up, poolVars, job, have, tried, cur, result, clientVars, spent>>

\* The finally of _run; the run's locals go out of scope.
Discard(w) ==
    /\ Goto(w, "discard", "idle")
    /\ active' = active \ {job[w]}
    /\ job' = [job EXCEPT ![w] = None]
    /\ copy' = [copy EXCEPT ![w] = NoJob]
    /\ have' = [have EXCEPT ![w] = NoItems]
    /\ tried' = [tried EXCEPT ![w] = {}]
    /\ cur' = [cur EXCEPT ![w] = None]
    /\ result' = [result EXCEPT ![w] = "none"]
    /\ UNCHANGED <<storeVars, up, queue, clientVars, spent>>
-----------------------------------------------------------------------------
(* The process and its surroundings.                                       *)

\* The process dies: the table survives, everything else is forgotten.
Crash ==
    /\ up /\ spent["crash"] < MaxCrashes
    /\ spent' = [spent EXCEPT !["crash"] = @ + 1]
    /\ up' = FALSE
    /\ active' = {} /\ queue' = <<>>
    /\ wpc' = [w \in Workers |-> "idle"]
    /\ job' = [w \in Workers |-> None]
    /\ copy' = [w \in Workers |-> NoJob]
    /\ have' = [w \in Workers |-> NoItems]
    /\ tried' = [w \in Workers |-> {}]
    /\ cur' = [w \in Workers |-> None]
    /\ result' = [w \in Workers |-> "none"]
    /\ cpc' = [c \in Clients |-> "idle"]
    /\ target' = [c \in Clients |-> None]
    /\ read' = [c \in Clients |-> NoJob]
    /\ retry' = [c \in Clients |-> NoPlan]
    /\ UNCHANGED storeVars

\* JobRunner.recover at startup, before any request is served.
Recover ==
    /\ ~up
    /\ up' = TRUE
    /\ active' = UnfinishedJobs
    /\ \E n \in 0..Cardinality(Jobs) : queue' \in [1..n -> active']
    /\ \A j \in active' : \E i \in DOMAIN queue' : queue'[i] = j
    /\ \A i, k \in DOMAIN queue' : queue'[i] = queue'[k] => i = k
    /\ UNCHANGED <<storeVars, workVars, clientVars, spent>>

Damage(j, o) ==
    /\ spent["damage"] < MaxDamages
    /\ spent' = [spent EXCEPT !["damage"] = @ + 1]
    /\ DamageItem(j, o)
    /\ UNCHANGED <<up, poolVars, workVars, clientVars>>
-----------------------------------------------------------------------------
ClientStep(c) ==
    \/ \E p \in Requests, k \in Keys \cup {None} : Submit(c, p, k)
    \/ Enqueue(c)
    \/ \E j \in Jobs : RetryPlan(c, j) \/ CancelRead(c, j)
    \/ \E k \in Keys \cup {None} : SubmitRetry(c, k) \/ RefuseRetry(c, k)
    \/ CancelSave(c)

WorkerStep(w) ==
    \/ Take(w) \/ Start(w) \/ Load(w) \/ Pick(w) \/ LeaveLoop(w)
    \/ Execute(w) \/ ExecuteRaises(w) \/ Record(w) \/ Progress(w)
    \/ Collect(w) \/ Bundle(w) \/ BundleRaises(w) \/ Finish(w) \/ Discard(w)

Next ==
    \/ \E c \in Clients : ClientStep(c)
    \/ \E w \in Workers : WorkerStep(w)
    \/ Crash \/ Recover
    \/ \E j \in Jobs, o \in Outputs : Damage(j, o)

Spec == Init /\ [][Next]_vars

\* The pool runs its threads, a request thread that obtained a job enqueues it, and a process
\* that died is started again.
Fairness ==
    /\ \A w \in Workers : WF_vars(WorkerStep(w))
    /\ \A c \in Clients : WF_vars(Enqueue(c))
    /\ WF_vars(Recover)

FairSpec == Spec /\ Fairness
-----------------------------------------------------------------------------
(* Properties.                                                             *)

Running(w) == wpc[w] # "idle"
Queued == {queue[i] : i \in DOMAIN queue}

\* One run per job: `active` keeps the pool from ever holding a job twice, waiting or running,
\* so that no two workers write the same record and the same items (JobRunner.enqueue, _run).
SingleRun ==
    /\ \A w, v \in Workers : Running(w) /\ Running(v) /\ job[w] = job[v] => w = v
    /\ \A w \in Workers : Running(w) => job[w] \notin Queued
    /\ \A i, k \in DOMAIN queue : queue[i] = queue[k] => i = k

\* An idempotency key never names two jobs, however submissions, retries and restarts
\* interleave (JobStore.submit).
KeyNamesOneJob ==
    \A i, j \in Jobs : Exists(i) /\ Exists(j) /\ rows[i].key = rows[j].key /\ rows[i].key # None
                       => i = j

\* No orphan: while the process serves, an unfinished job is in its pool or about to be put
\* there by the request thread that holds it; otherwise it would stay queued or running until
\* the next restart.  Two ways out are known and excluded by name: the lost update of
\* JobStore.cancel (CancelKeepsResults) and a run that ended in BundleRaises (EveryJobFinishes).
NoOrphan ==
    up /\ spent["fault"] = 0 /\ spent["damage"] = 0 =>
        \A j \in Jobs : Unfinished(j) =>
             \/ j \in active
             \/ \E c \in Clients : cpc[c] = "enqueue" /\ target[c] = j
             \/ jobs[j].cancel

\* Part of ResultsAreTrue.  A finished record tells the truth about the run: "completed" means every
\* output of the plan is in the bundle and nothing is reported; "failed" that none is; a cancelled
\* job was asked to stop; the counts are those of the bundle (JobRunner.run, lines 244 to 258).
TerminalIsTruthful ==
    \A j \in Jobs : Finished(j) =>
       LET r == jobs[j] IN
          /\ r.bundle.made
          /\ r.completed = Cardinality(r.bundle.weather)
          /\ r.state = "completed" =>
                /\ r.bundle.weather = rows[j].plan.outputs
                /\ r.errors = {} /\ ~r.bundle.cut /\ ~rows[j].plan.flawed
          /\ r.state = "failed" => r.bundle.weather = {}
          /\ r.state = "partially_completed" => r.bundle.weather # {}
          /\ r.state = "cancelled" => r.cancel
          /\ r.state # "cancelled" => r.completed + r.failed = Total(j)

\* Part of ResultsAreTrue.  What a bundle lists was produced by this job, and its item row still
\* stands: an item row is never lost while a bundle refers to it (restart, reuse, re-execution).
BundleIsBacked ==
    \A j \in Jobs : \A o \in jobs[j].bundle.weather :
        o \in rows[j].plan.outputs /\ items[j][o] \in {"weather", "broken"}

\* What a client reads of a finished job is true: its state and counts, and what its bundle lists.
ResultsAreTrue == TerminalIsTruthful /\ BundleIsBacked

\* A retry asks only for outputs its parent did not produce, and stays disjoint from them for
\* ever: no output is produced by a job and by its retry (JobRunner.retry_plan).
RetryIsDisjoint ==
    \A j \in Jobs : rows[j].parent # None =>
        \A o \in rows[j].plan.outputs : items[rows[j].parent][o] # "weather"

\* "Failed items do not cause successful items to disappear" (ARCHITECTURE.md): a recorded
\* weather item changes only by damage from outside.
ProducedKept ==
    [][\A j \in Jobs, o \in Outputs :
          items[j][o] = "weather" => items'[j][o] \in {"weather", "broken"}]_vars

\* A requested cancellation is never forgotten, whichever stale record a worker or another
\* cancel writes back, and across restarts (JobStore.save).
CancelSticks == [][\A j \in Jobs : jobs[j].cancel => jobs'[j].cancel]_vars

\* Polling a job until it is terminal and then reading its bundle (docs/usage.md) is sound only
\* if a finished record stays as it is.
CancelKeepsResults == [][\A j \in Jobs : Finished(j) => jobs'[j] = jobs[j]]_vars

\* The service implements JobContract: records and items are all that a poll sees, and a
\* recorded weather item counts as produced until a new run of it replaces it.
ProducedItems == [j \in Jobs |-> {o \in Outputs : items[j][o] \in {"weather", "broken"}}]
Contract == INSTANCE JobContract WITH
    stage <- [j \in Jobs |-> jobs[j].state],
    planned <- [j \in Jobs |-> rows[j].plan.outputs],
    produced <- ProducedItems,
    requested <- [j \in Jobs |-> jobs[j].cancel]
ImplementsContract == Contract!Spec

\* Every submitted job reaches a terminal state, across crashes of the process.
EveryJobFinishes == \A j \in Jobs : Exists(j) ~> Finished(j)
-----------------------------------------------------------------------------
(* The inductive invariant the proofs use: why the properties above hold.  *)

\* A process that is down has no threads and an empty pool.
DownIsIdle ==
    ~up => /\ \A w \in Workers : wpc[w] = "idle"
           /\ \A c \in Clients : cpc[c] = "idle"
           /\ queue = <<>>

\* `active` covers whatever the pool holds, waiting or running.
ActiveCovers ==
    /\ \A w \in Workers : Running(w) => job[w] \in active
    /\ Queued \subseteq active

\* Only submitted jobs have a plan, items, a place in the pool or a client acting on them.
OnlySubmitted ==
    /\ \A j \in Jobs : ~Exists(j) => jobs[j] = NoJob /\ items[j] = NoItems
    /\ \A j \in active : Exists(j)
    /\ \A c \in Clients : cpc[c] # "idle" => Exists(target[c])
    /\ \A j \in Jobs, o \in Outputs : items[j][o] # "none" => o \in rows[j].plan.outputs

\* A cancel writes back a record it read while the job was unfinished.
ReadsUnfinished == \A c \in Clients : cpc[c] = "cancel" => read[c].state \in Active

Busy == WorkerStates \ {"idle", "discard"}
InLoop == {"next", "execute", "record", "progress", "collect", "bundle", "finish"}

\* What a worker knows about the job it runs.
Ended(w) ==
    LET s == copy[w].state
        planned == rows[job[w]].plan.outputs
    IN /\ s \in Terminal
       /\ s = "completed" => Produced(w) = planned
       /\ s = "partially_completed" => Produced(w) # {}
       /\ s = "cancelled" => jobs[job[w]].cancel

Knows(w) ==
    /\ wpc[w] \in Busy => Unfinished(job[w]) /\ (copy[w].cancel => jobs[job[w]].cancel)
    /\ wpc[w] \in Busy \ {"start", "finish"} => copy[w].state = "running"
    /\ wpc[w] \in {"execute", "record", "progress"} => cur[w] \in rows[job[w]].plan.outputs
    /\ wpc[w] \in InLoop => \A o \in Outputs :
          /\ have[w][o] # "none" => o \in rows[job[w]].plan.outputs
          /\ have[w][o] = "weather" => items[job[w]][o] \in {"weather", "broken"}
    /\ wpc[w] = "finish" => Ended(w)

WorkersKnow == \A w \in Workers : Knows(w)

Inv ==
    /\ TypeOK
    /\ DownIsIdle /\ ActiveCovers /\ SingleRun
    /\ OnlySubmitted /\ ReadsUnfinished /\ WorkersKnow
=============================================================================
