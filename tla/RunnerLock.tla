----------------------------- MODULE RunnerLock -----------------------------
(***************************************************************************)
(* One data root, several processes, several job runners in each: who may  *)
(* execute jobs (openepw/jobs/lock.py, JobRunner.recover, submit and close *)
(* in openepw/jobs/worker.py).                                             *)
(*                                                                         *)
(* A process takes the root's file lock once and counts the runners that   *)
(* share it; the operating system drops the lock of a process that dies.   *)
(* acquire and release run under the module's guard, so each is one step.  *)
(* A runner's pool is the set of jobs it has queued or running.            *)
(***************************************************************************)
EXTENDS Naturals, FiniteSets

CONSTANTS Processes, Runners,   \* operating system processes, JobRunner objects
          Home,                 \* the process each runner lives in
          Jobs, Free            \* jobs; the lock file of nobody

ASSUME LockAssumption ==
    /\ Home \in [Runners -> Processes]
    /\ IsFiniteSet(Runners)
    /\ Free \notin Processes

VARIABLES held,         \* _held: how many runners of each process share its lock
          flock,        \* the process the file is locked by
          phase,        \* where each runner is in its life
          pool,         \* the jobs each runner's pool holds
          todo,         \* unfinished jobs in the store
          seen          \* jobs that were ever submitted

lockVars == <<held, flock, phase, pool, todo, seen>>
-----------------------------------------------------------------------------
\* A runner exists; holds the root; has resumed; is shutting its pool down; is closed; was refused.
RunnerPhases == {"new", "locked", "serving", "closing", "closed", "refused"}
Holding == {"locked", "serving", "closing"}

Owners(p) == {r \in Runners : Home[r] = p /\ phase[r] \in Holding}

LockTypeOK ==
    /\ held \in [Processes -> Nat]
    /\ flock \in Processes \cup {Free}
    /\ phase \in [Runners -> RunnerPhases]
    /\ pool \in [Runners -> SUBSET Jobs]
    /\ todo \in SUBSET Jobs
    /\ seen \in SUBSET Jobs

LockInit ==
    /\ held = [p \in Processes |-> 0]
    /\ flock = Free
    /\ phase = [r \in Runners |-> "new"]
    /\ pool = [r \in Runners |-> {}]
    /\ todo = {}
    /\ seen = {}
-----------------------------------------------------------------------------
Becomes(r, to) == phase' = [phase EXCEPT ![r] = to]

\* acquire_runner_lock: share the process's lock, or lock the file.
Acquire(r) ==
    /\ phase[r] = "new"
    /\ \/ held[Home[r]] > 0 /\ UNCHANGED flock
       \/ held[Home[r]] = 0 /\ flock = Free /\ flock' = Home[r]
    /\ held' = [held EXCEPT ![Home[r]] = @ + 1]
    /\ Becomes(r, "locked")
    /\ UNCHANGED <<pool, todo, seen>>

\* ... or be refused with DATA_ROOT_BUSY: another process has it.
Refuse(r) ==
    /\ phase[r] = "new"
    /\ held[Home[r]] = 0 /\ flock # Free
    /\ Becomes(r, "refused")
    /\ UNCHANGED <<held, flock, pool, todo, seen>>

\* The rest of recover: every unfinished job goes to the pool.
Resume(r) ==
    /\ phase[r] = "locked"
    /\ pool' = [pool EXCEPT ![r] = todo]
    /\ Becomes(r, "serving")
    /\ UNCHANGED <<held, flock, todo, seen>>

Submit(r, j) ==
    /\ phase[r] = "serving" /\ j \notin seen
    /\ seen' = seen \cup {j} /\ todo' = todo \cup {j}
    /\ pool' = [pool EXCEPT ![r] = @ \cup {j}]
    /\ UNCHANGED <<held, flock, phase>>

\* A request that is still being served once the pool shuts down: the job is stored, the pool
\* refuses it.
SubmitLate(r, j) ==
    /\ phase[r] \in {"closing", "closed"} /\ j \notin seen
    /\ seen' = seen \cup {j} /\ todo' = todo \cup {j}
    /\ UNCHANGED <<held, flock, phase, pool>>

Run(r, j) ==
    /\ j \in pool[r]
    /\ pool' = [pool EXCEPT ![r] = @ \ {j}]
    /\ todo' = todo \ {j}
    /\ UNCHANGED <<held, flock, phase, seen>>

\* close: the pool takes no more work ...
Close(r) ==
    /\ phase[r] \in {"locked", "serving"}
    /\ Becomes(r, "closing")
    /\ UNCHANGED <<held, flock, pool, todo, seen>>

\* ... shutdown(wait=True) waits for what it holds, and only then is the root released
\* (faulty: it does not wait).
ReleaseAtOnce(r) ==
    /\ phase[r] = "closing"
    /\ held' = [held EXCEPT ![Home[r]] = @ - 1]
    /\ flock' = IF held[Home[r]] = 1 THEN Free ELSE flock
    /\ Becomes(r, "closed")
    /\ UNCHANGED <<pool, todo, seen>>
Release(r) ==
    /\ phase[r] = "closing" /\ pool[r] = {}
    /\ held' = [held EXCEPT ![Home[r]] = @ - 1]
    /\ flock' = IF held[Home[r]] = 1 THEN Free ELSE flock
    /\ Becomes(r, "closed")
    /\ UNCHANGED <<pool, todo, seen>>

\* A process dies, or exits with all its runners at rest, and is started again.
Restart(p) ==
    /\ \E r \in Runners : Home[r] = p /\ phase[r] # "new"
    /\ held' = [held EXCEPT ![p] = 0]
    /\ flock' = IF flock = p THEN Free ELSE flock
    /\ phase' = [r \in Runners |-> IF Home[r] = p THEN "new" ELSE phase[r]]
    /\ pool' = [r \in Runners |-> IF Home[r] = p THEN {} ELSE pool[r]]
    /\ UNCHANGED <<todo, seen>>

RunnerStep(r) ==
    \/ Acquire(r) \/ Refuse(r) \/ Resume(r) \/ Close(r) \/ Release(r)
    \/ \E j \in Jobs : Submit(r, j) \/ SubmitLate(r, j) \/ Run(r, j)

LockNext == (\E r \in Runners : RunnerStep(r)) \/ (\E p \in Processes : Restart(p))

LockSpec == LockInit /\ [][LockNext]_lockVars
-----------------------------------------------------------------------------
\* Jobs of a data root are in the pools of one process at a time, also while a runner waits
\* for its pool to drain and when several runners of a process close in any order.
OneProcessWorks ==
    \A r, s \in Runners : pool[r] # {} /\ pool[s] # {} => Home[r] = Home[s]

\* A process holds the file exactly as long as one of its runners does: the root is neither
\* lost to a runner that is still using it nor kept once the last one has closed.
HeldWhileOwned == \A p \in Processes : flock = p <=> Owners(p) # {}

\* The count is the number of runners that share the lock.
Counted == \A p \in Processes : held[p] = Cardinality(Owners(p))

\* A runner works only while it holds the root.
WorksWhileHolding == \A r \in Runners : pool[r] # {} => phase[r] \in Holding

LockInv == LockTypeOK /\ Counted /\ HeldWhileOwned /\ WorksWhileHolding
=============================================================================
