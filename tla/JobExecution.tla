---------------------------- MODULE JobExecution ----------------------------
(***************************************************************************)
(* One run of a weather job, output by output: the loop of JobRunner.run   *)
(* (openepw/jobs/worker.py) around WeatherService.execute                  *)
(* (openepw/service.py), with the native fetch tasks that outputs share    *)
(* and the batch rows that finalize_batch_rows (openepw/planning/batch.py) *)
(* derives from what happened.                                             *)
(*                                                                         *)
(* Another thread may cancel the job at any moment; the run polls the flag *)
(* before each output and before each task.                                *)
(***************************************************************************)
EXTENDS Naturals, FiniteSets

CONSTANTS Outputs, Tasks,   \* numbered in plan order
          Needs,            \* output.task_ids
          Provisional,      \* tasks whose source may change until it is final
          NoOutput

ASSUME ExecutionAssumption ==
    /\ Outputs \subseteq Nat /\ Tasks \subseteq Nat
    /\ IsFiniteSet(Outputs) /\ IsFiniteSet(Tasks)
    /\ Needs \in [Outputs -> (SUBSET Tasks) \ {{}}]
    /\ Provisional \subseteq Tasks
    /\ NoOutput \notin Outputs

VARIABLES ahead,       \* outputs the loop has still to visit
          pending,    \* pending_tasks: how many of them need each task
          results,    \* task_results: fetched results kept for later outputs
          shared,     \* shared_tasks, passed on as cacheable_task_ids
          stage, cur, \* where the run is; the output it executes
          left, got,  \* execute: tasks to visit, results at hand
          made,       \* outputs with a weather artifact
          blamed, faulted,    \* tasks and outputs an error issue names
          cancelled, cut,     \* the job's flag; CANCELLED is among the issues
          rows,       \* manifest.batch_rows
          attempted, failed,  \* history: outputs visited; outputs that failed on their own
          fetches     \* history: successful fetches of each task in this run

loopVars == <<ahead, pending, results, shared>>
execVars == <<cur, left, got>>
issueVars == <<made, blamed, faulted, cut>>
pastVars == <<attempted, failed, fetches>>
execAllVars == <<loopVars, stage, execVars, issueVars, cancelled, rows, pastVars>>
-----------------------------------------------------------------------------
ExecPhases == {"next", "tasks", "emit", "progress", "finish", "done"}
Statuses == {"planned", "succeeded", "failed", "cancelled"}

ExecTypeOK ==
    /\ ahead \in SUBSET Outputs
    /\ pending \in [Tasks -> Nat]
    /\ results \in SUBSET Tasks /\ shared \in SUBSET Tasks
    /\ stage \in ExecPhases
    /\ cur \in Outputs \cup {NoOutput}
    /\ left \in SUBSET Tasks /\ got \in SUBSET Tasks
    /\ made \in SUBSET Outputs
    /\ blamed \in SUBSET Tasks /\ faulted \in SUBSET Outputs
    /\ cancelled \in BOOLEAN /\ cut \in BOOLEAN
    /\ rows \in [Outputs -> Statuses]
    /\ attempted \in SUBSET Outputs /\ failed \in SUBSET Outputs
    /\ fetches \in [Tasks -> Nat]
    /\ stage \in {"tasks", "emit", "progress"} => cur \in ahead

\* How many of the outputs O need task t.
Demand(O, t) == Cardinality({o \in O : t \in Needs[o]})

\* Results worth keeping: more than one output needs them and they are final (faulty: all of
\* those; only those three outputs need).
SharedTwice(O) == {t \in Tasks \ Provisional : Demand(O, t) > 2}
Shared(O) == {t \in Tasks \ Provisional : Demand(O, t) > 1}

\* A run begins; items that a run before it recorded are kept (Reused), with weather or with
\* the issues that explain why there is none, and not visited again.
ExecInit ==
    /\ \E Reused \in SUBSET Outputs :
          /\ ahead = Outputs \ Reused
          /\ made \in SUBSET Reused
          /\ attempted = Reused /\ failed = Reused \ made
    /\ blamed \in SUBSET UNION {Needs[o] : o \in failed}
    /\ faulted = {o \in failed : Needs[o] \cap blamed = {}}
    /\ pending = [t \in Tasks |-> Demand(ahead, t)]
    /\ shared = Shared(ahead)
    /\ results = {}
    /\ stage = "next" /\ cur = NoOutput /\ left = {} /\ got = {}
    /\ cut = FALSE /\ cancelled = FALSE
    /\ rows = [o \in Outputs |-> "planned"]
    /\ fetches = [t \in Tasks |-> 0]
-----------------------------------------------------------------------------
First(S) == CHOOSE x \in S : \A y \in S : x <= y

\* JobStore.cancel, by any other thread.
Cancel ==
    /\ stage # "done" /\ ~cancelled /\ cancelled' = TRUE
    /\ UNCHANGED <<loopVars, stage, execVars, issueVars, rows, pastVars>>

Pick ==
    /\ stage = "next" /\ ~cancelled /\ ahead # {}
    /\ stage' = "tasks" /\ cur' = First(ahead)
    /\ left' = Needs[First(ahead)] /\ got' = {}
    /\ attempted' = attempted \cup {First(ahead)}
    /\ UNCHANGED <<loopVars, issueVars, cancelled, rows, failed, fetches>>

Leave ==
    /\ stage = "next" /\ (cancelled \/ ahead = {})
    /\ stage' = "finish"
    /\ UNCHANGED <<loopVars, execVars, issueVars, cancelled, rows, pastVars>>

\* execute polls the flag before each task: CANCELLED, and no further task.
CutShort ==
    /\ stage = "tasks" /\ left # {} /\ cancelled
    /\ cut' = TRUE /\ left' = {} /\ stage' = "emit"
    /\ UNCHANGED <<loopVars, cur, got, made, blamed, faulted, cancelled, rows, pastVars>>

Visit(t) ==
    /\ stage = "tasks" /\ left # {} /\ ~cancelled /\ t = First(left)
    /\ left' = left \ {t}
    /\ stage' = IF left = {t} THEN "emit" ELSE "tasks"
    /\ UNCHANGED <<ahead, pending, shared, cur, made, faulted, cut, cancelled, rows, attempted>>

\* A result of an earlier output is at hand.
Reuse(t) ==
    /\ t \in results \ Provisional
    /\ Visit(t) /\ got' = got \cup {t}
    /\ UNCHANGED <<results, blamed, failed, fetches>>

\* The provider is asked; a result worth keeping is kept.
Fetch(t) ==
    /\ t \notin results \ Provisional
    /\ Visit(t) /\ got' = got \cup {t}
    /\ results' = results \cup ({t} \cap shared)
    /\ fetches' = [fetches EXCEPT ![t] = @ + 1]
    /\ UNCHANGED <<blamed, failed>>

\* ... or raises: an issue that names the task.
FetchFails(t) ==
    /\ t \notin results \ Provisional
    /\ Visit(t)
    /\ blamed' = blamed \cup {t} /\ failed' = failed \cup {cur}
    /\ UNCHANGED <<results, got, fetches>>

\* Anything else it raises ends execute: an issue that names the output.
Raises ==
    /\ stage = "tasks" /\ stage' = "progress"
    /\ faulted' = faulted \cup {cur} /\ failed' = failed \cup {cur}
    /\ UNCHANGED <<loopVars, execVars, made, blamed, cut, cancelled, rows, attempted, fetches>>

\* Every result is there: combine, check, convert, write.
Emit ==
    /\ stage = "emit" /\ Needs[cur] \subseteq got
    /\ stage' = "progress"
    /\ made' = made \cup {cur}
    /\ UNCHANGED <<loopVars, execVars, blamed, faulted, cut, cancelled, rows, pastVars>>

\* Quality control or conversion refuses the output: an issue that names it.
EmitFails ==
    /\ stage = "emit" /\ Needs[cur] \subseteq got
    /\ stage' = "progress"
    /\ faulted' = faulted \cup {cur} /\ failed' = failed \cup {cur}
    /\ UNCHANGED <<loopVars, execVars, made, blamed, cut, cancelled, rows, attempted, fetches>>

\* A result is missing: the output is left out.
Omit ==
    /\ stage = "emit" /\ ~(Needs[cur] \subseteq got)
    /\ stage' = "progress"
    /\ UNCHANGED <<loopVars, execVars, issueVars, cancelled, rows, pastVars>>

\* The output no longer needs its tasks; results nobody needs any more are dropped.
Freed == [t \in Tasks |-> IF t \in Needs[cur] THEN pending[t] - 1 ELSE pending[t]]
Progress ==
    /\ stage = "progress" /\ stage' = "next"
    /\ ahead' = ahead \ {cur} /\ cur' = NoOutput
    /\ pending' = Freed
    /\ results' = {t \in results : t \in Needs[cur] => Freed[t] > 0}
    /\ UNCHANGED <<shared, left, got, issueVars, cancelled, rows, pastVars>>

\* finalize_batch_rows: an issue is related to a row that it or one of its tasks names
\* (faulty: only issues that name the output).
RelatedByOutput(o) == o \in faulted
Related(o) == o \in faulted \/ Needs[o] \cap blamed # {}
Row(o, wasCut) ==
    CASE o \in made -> "succeeded"
      [] o \notin made /\ wasCut /\ ~Related(o) -> "cancelled"
      [] OTHER -> "failed"

Finish ==
    /\ stage = "finish" /\ stage' = "done"
    /\ cut' = (cut \/ cancelled)
    /\ rows' = [o \in Outputs |-> Row(o, cut')]
    /\ UNCHANGED <<loopVars, execVars, made, blamed, faulted, cancelled, pastVars>>

ExecNext ==
    \/ Cancel \/ Pick \/ Leave \/ CutShort
    \/ \E t \in Tasks : Reuse(t) \/ Fetch(t) \/ FetchFails(t)
    \/ Raises \/ Emit \/ EmitFails \/ Omit \/ Progress \/ Finish

ExecSpec == ExecInit /\ [][ExecNext]_execAllVars
-----------------------------------------------------------------------------
\* "shared native requests are fetched once within a job": whatever fails or is tried again in
\* between, a final source that answered is not asked a second time by this run.
FetchedOnce == \A t \in Tasks \ Provisional : fetches[t] <= 1

\* pending_tasks is the demand of the outputs still to come.
PendingIsDemand == \A t \in Tasks : pending[t] = Demand(ahead, t)

\* No result outlives the last output that needs it: the memory a job holds is bounded by what
\* it still has to do.
HeldWhileNeeded == \A t \in results : \E o \in ahead : t \in Needs[o]

\* A row says "cancelled" only of an output that the cancellation stopped: an output that
\* failed on its own is reported as failed, also when the job is cancelled later.
FailuresAreShown == stage = "done" => \A o \in failed \ made : rows[o] = "failed"
=============================================================================
