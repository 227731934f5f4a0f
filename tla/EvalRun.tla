------------------------------- MODULE EvalRun -------------------------------
(***************************************************************************)
(* `openepw eval` (agent/evals): the tasks of a selection are tried one    *)
(* after the other with one budgeted model, a trial that met a transient   *)
(* failure of the model is tried once more, every trial is written down    *)
(* when it ends, and the summary of the run is compared with the latest    *)
(* earlier run of the same tasks.  Live runs call the model over the       *)
(* network; scripted ones replay steps, for the tasks that have a script;  *)
(* guided ones have no model.                                              *)
(***************************************************************************)
EXTENDS Integers, Sequences, SequencesExt, FiniteSets, FiniteSetsExt

CONSTANTS Trials,        \* trials of each task in a live run; a sequence, so tasks are 1, 2, ...
          Scripted,      \* tasks with a script
          Selections,    \* sets of tasks a run may select
          Limits,        \* max_cost_usd of a live run
          Margin,        \* a model within Margin of its limit has spent it (2 %)
          Projection,    \* allowance asked for before a call; no more than Margin, as it is
                         \* (0.002 to 0.004 USD) with a limit of 0.20 USD or more
          Cases,         \* bounds of a behaviour: [runs, faults, calls, costs]: calls of a trial, what one costs
          None

VARIABLES runs,          \* the folders: [tasks, kind, limit, records, done, cut, base, diff]; done: it has a summary
          now,           \* the trial under way: [todo, again, calls, cost, fell]; None outside run_suite
          spent,         \* OpenAIModel.usage of the current run
          exit,          \* what the last command returned
          case

vars == <<runs, now, spent, exit, case>>
Tasks == DOMAIN Trials
Transient == {"transport", "provider"}
Run == runs[Len(runs)]
-----------------------------------------------------------------------------
\* run_suite's loops: a task with no script is passed over in a scripted run.
\* Only live runs try a task more than once.
TrialsOf(t, kind) == [n \in 1 .. (IF kind = "live" THEN Trials[t] ELSE 1) |-> [task |-> t, trial |-> n]]
Plan(tasks, kind) ==
    LET chosen == SetToSortSeq(IF kind = "scripted" THEN tasks \cap Scripted ELSE tasks, <) IN
    FlattenSeq([n \in DOMAIN chosen |-> TrialsOf(chosen[n], kind)])

\* over_budget (faulty: only when nothing is left).
OverLate == Run.kind = "live" /\ spent >= Run.limit
OverBudget == Run.kind = "live" /\ spent >= Run.limit - Margin

\* task_summary: trials that were not counted are apart.
Counted(records, t) == SelectSeq(records, LAMBDA r : r.task = t /\ r.status # "provider_error")
Passed(records, t) == Len(SelectSeq(records, LAMBDA r : r.task = t /\ r.status = "pass"))
TasksIn(records) == {records[n].task : n \in DOMAIN records}
TaskSummary(records, t) ==
    LET trials == Len(Counted(records, t))
        passed == Passed(records, t) IN
    [trials |-> trials, passed |-> passed, all |-> trials > 0 /\ passed = trials,
     status |-> IF trials = 0 THEN "provider_error" ELSE IF passed = trials THEN "pass"
                ELSE IF passed = 0 THEN "fail" ELSE "flaky"]
Summary(records) == [t \in TasksIn(records) |-> TaskSummary(records, t)]

\* compare.
Compare(before, after) ==
    LET judged == {t \in DOMAIN after \cap DOMAIN before : after[t].status # "provider_error"} IN
    [newly |-> {t \in judged : after[t].status = "fail" /\ before[t].all},
     still |-> {t \in judged : after[t].status = "fail" /\ ~before[t].all},
     fixed |-> {t \in judged : after[t].all /\ ~before[t].all},
     flaky |-> {t \in DOMAIN after : after[t].status = "flaky"},
     added |-> DOMAIN after \ DOMAIN before, removed |-> DOMAIN before \ DOMAIN after]

\* latest_run: the newest earlier run with a summary of the same tasks and model.
Like(n) == runs[n].done /\ runs[n].tasks = Run.tasks /\ runs[n].kind = Run.kind
Latest ==
    LET like == {n \in 1 .. Len(runs) - 1 : Like(n)} IN IF like = {} THEN 0 ELSE Max(like)
-----------------------------------------------------------------------------
Init == runs = <<>> /\ now = None /\ spent = 0 /\ exit = None /\ case \in Cases

Trial(todo, again) == [todo |-> todo, again |-> again, calls |-> 0, cost |-> 0, fell |-> "nothing"]
Begin(tasks, kind, limit) ==
    /\ now = None /\ Len(runs) < case.runs
    /\ runs' = Append(runs, [tasks |-> tasks, kind |-> kind, limit |-> limit, records |-> <<>>,
                             done |-> FALSE, cut |-> FALSE, base |-> 0, diff |-> None])
    /\ now' = Trial(Plan(tasks, kind), None) /\ spent' = 0 /\ exit' = None
    /\ UNCHANGED case

Fault == case.faults > 0 /\ case' = [case EXCEPT !.faults = @ - 1]
InTrial == now # None /\ now.todo # <<>>

\* run_suite after an attempt: a provider error is tried again once, unless the budget is spent;
\* else the record is kept and written, and a spent budget ends the run.
Written(status, met, cost) ==
    [task |-> Head(now.todo).task, trial |-> Head(now.todo).trial, status |-> status, met |-> met,
     cost |-> cost, again |-> now.again]
Settle(status, met, cost) ==
    IF status = "provider_error" /\ now.again = None /\ ~OverBudget
    THEN now' = Trial(now.todo, met) /\ UNCHANGED runs
    ELSE /\ runs' = [runs EXCEPT ![Len(runs)].records = Append(@, Written(status, met, cost)),
                                 ![Len(runs)].cut = OverBudget]
         /\ now' = Trial(IF OverBudget THEN <<>> ELSE Tail(now.todo), None)

\* OpenAIModel.respond: an allowance is asked for before every call.
MayCall == spent + Projection < Run.limit
Asks == InTrial /\ Run.kind = "live" /\ now.fell = "nothing"
Charge(cost) == spent' = spent + cost
Respond ==
    /\ Asks /\ MayCall /\ now.calls < case.calls
    /\ \E cost \in case.costs :
          Charge(cost) /\ now' = [now EXCEPT !.calls = @ + 1, !.cost = @ + cost]
    /\ UNCHANGED <<runs, exit, case>>

\* No reply: guided mode takes over for the rest of the conversation.
Falls(cause) == now' = [now EXCEPT !.fell = cause]
Starve ==
    /\ Asks /\ ~MayCall
    /\ Falls("budget")
    /\ UNCHANGED <<runs, spent, exit, case>>
Break ==
    /\ Asks /\ MayCall /\ Fault
    /\ \E cause \in Transient \cup {"client"} : Falls(cause)
    /\ UNCHANGED <<runs, spent, exit>>

\* A reply that cannot be used is charged once its usage was read, but no record tells of it.
Spoil ==
    /\ Asks /\ MayCall /\ Fault
    /\ \E cost \in case.costs \cup {0} : Charge(cost)
    /\ Falls("reply")
    /\ UNCHANGED <<runs, exit>>

\* The conversation ends and is graded: no_model_fallback fails one that fell, and provider_error
\* reads the cause.  Or it raises, and error_record knows neither cause nor cost.
StatusOf(cause) == IF cause \in Transient THEN "provider_error" ELSE "fail"
Grade ==
    /\ InTrial
    /\ \E status \in IF now.fell = "nothing" THEN {"pass", "fail"} ELSE {StatusOf(now.fell)} :
          Settle(status, now.fell, now.cost)
    /\ UNCHANGED <<spent, exit, case>>
Raise ==
    /\ InTrial /\ Fault
    /\ Settle("fail", "error", 0)
    /\ UNCHANGED <<spent, exit>>

\* main_run after run_suite: the summary, the comparison and the exit code.
Close ==
    /\ now # None /\ now.todo = <<>>
    /\ now' = None
    /\ IF Run.records = <<>> THEN exit' = 2 /\ UNCHANGED runs
       ELSE LET after == Summary(Run.records)
                base == Latest IN
            /\ runs' = [runs EXCEPT ![Len(runs)].done = TRUE, ![Len(runs)].base = base,
                   ![Len(runs)].diff = IF base = 0 THEN None ELSE Compare(Summary(runs[base].records), after)]
            /\ exit' = IF /\ \E t \in DOMAIN after : after[t].trials > 0
                          /\ \A t \in DOMAIN after : after[t].passed = after[t].trials THEN 0 ELSE 1
    /\ UNCHANGED <<spent, case>>

\* The process ends within the run: its trials are written, but no summary.
Die ==
    /\ now # None /\ Fault
    /\ now' = None
    /\ UNCHANGED <<runs, spent, exit>>

Next ==
    \/ Respond \/ Spoil \/ Starve \/ Break \/ Grade \/ Raise \/ Close \/ Die
    \/ \E tasks \in Selections, kind \in {"live", "scripted", "guided"} :
          \E limit \in IF kind = "live" THEN Limits ELSE {0} : Begin(tasks, kind, limit)
Spec == Init /\ [][Next]_vars
-----------------------------------------------------------------------------
Pairs(records) == [n \in DOMAIN records |-> [task |-> records[n].task, trial |-> records[n].trial]]
Closed == {n \in DOMAIN runs : runs[n].done}

\* "Every applicable task, each for its number of trials" (run_suite): the records are those
\* trials, each once and in order, up to the one under way, or to where the budget ended the run.
TrialsAreKept ==
    \A n \in DOMAIN runs :
        LET planned == Plan(runs[n].tasks, runs[n].kind) IN
        /\ IsPrefix(Pairs(runs[n].records), planned)
        /\ n \in Closed /\ ~runs[n].cut => Len(runs[n].records) = Len(planned)

\* A failure of the model's provider "says nothing about the agent": it is tried twice and never
\* counts as a failure; the stop of the budget can only fail the last trial of a run.
FailuresAreTheAgents ==
    \A n \in DOMAIN runs : \A k \in DOMAIN runs[n].records :
        LET r == runs[n].records[k] IN
        /\ r.status = "provider_error" <=> r.met \in Transient
        /\ r.status = "provider_error" => r.again # None \/ (runs[n].cut /\ k = Len(runs[n].records))
        /\ r.met = "budget" => k = Len(runs[n].records) /\ runs[n].cut

\* A run passes its cap by no more than one call costs beyond the allowance asked for it, and
\* its records never tell more than was spent, nor less where no trial broke.
SpendIsCapped ==
    runs # <<>> /\ Run.kind = "live" =>
        LET told == FoldLeft(LAMBDA sum, r : sum + r.cost, 0, Run.records) IN
        /\ spent <= Run.limit + Max(case.costs) - Projection
        /\ told <= spent
        /\ (now = None /\ Run.done /\ \A k \in DOMAIN Run.records :
                 Run.records[k].again = None /\ Run.records[k].met \notin {"error", "reply"}) => told = spent

\* A comparison is with a run of the same tasks, and tells of a task just what the trials of both
\* show; tasks come and go only with runs the budget ended.
ComparisonIsTrue ==
    \A n \in Closed : runs[n].diff # None =>
        LET old == runs[runs[n].base]
            new == runs[n]
            Ran(run, t) == {k \in DOMAIN run.records : run.records[k].task = t /\ run.records[k].met \notin Transient}
            Good(run, t) == {k \in Ran(run, t) : run.records[k].status = "pass"} IN
        /\ old.tasks = new.tasks /\ old.kind = new.kind
        /\ \A t \in new.tasks :
              /\ t \in new.diff.newly <=> Ran(new, t) # {} /\ Good(new, t) = {} /\ Ran(old, t) # {} /\ Good(old, t) = Ran(old, t)
              /\ t \in new.diff.fixed => Good(new, t) # {} /\ Good(new, t) = Ran(new, t) /\ (Ran(old, t) = {} \/ Good(old, t) # Ran(old, t))
              /\ t \in new.diff.flaky <=> Good(new, t) \notin {{}, Ran(new, t)}
        /\ new.diff.added # {} => old.cut
        /\ new.diff.removed # {} => new.cut

\* 0: some trial passed, and all that passed are all that counted.
ExitIsTrue ==
    exit = 0 => /\ \E k \in DOMAIN Run.records : Run.records[k].status = "pass"
                /\ \A k \in DOMAIN Run.records : Run.records[k].status # "fail"

EvalHolds == TrialsAreKept /\ FailuresAreTheAgents /\ SpendIsCapped /\ ComparisonIsTrue /\ ExitIsTrue
=============================================================================
