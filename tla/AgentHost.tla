---------------------------- MODULE AgentHost ----------------------------
(* The web host of the agent chat (agent/web.py) with the steps of a session  *)
(* that plan, run and follow weather jobs (agent/host.py, agent/session.py,   *)
(* agent/outputs.py, agent/guided.py).                                        *)
(*                                                                            *)
(* A person's input becomes a turn on a pool thread, one at a time per        *)
(* session.  A turn works on a copy of the session's record and saves it when *)
(* a form opens and when it ends.  Run submits the plans of the open review   *)
(* one by one: the host puts the plan's hash in the book of approvals that    *)
(* all sessions share, the server asks, and the answer takes the hash out.    *)
(* One thread follows the running jobs of idle sessions.  The process may die *)
(* and start again: sessions, snapshots, job records and the table of started *)
(* jobs are durable, turns, approvals and the followed sessions are not.      *)
(*                                                                            *)
(* A job is named by what its idempotency key is made of: session, plan and   *)
(* how many retries led to it.                                                *)
EXTENDS Integers, FiniteSets, Sequences

CONSTANTS
    Sessions,
    Owner,          \* the person each session belongs to
    Plans,          \* plan hashes: digests of what is planned, equal for equal requests
    Product,        \* product and datasets of a plan: the model replaces plans by it
    PlanLists,      \* the lists of plans the requests of a session may lead to
    Kinds,          \* kinds of input people send
    Limit,          \* running jobs allowed per person
    RetryLimit,     \* RETRY_LIMIT of agent/outputs.py
    MaxInputs, MaxFaults, MaxCrashes    \* bounds: inputs, failing tool calls, deaths

ASSUME HostAssumption ==
    /\ IsFiniteSet(Sessions) /\ IsFiniteSet(Plans)
    /\ \A s \in Sessions : PlanLists[s] \subseteq Seq(Plans)
    /\ RetryLimit \in Nat /\ MaxCrashes \in Nat

VARIABLES
    saved,          \* the durable record of each session
    snaps,          \* its snapshots, oldest first
    live,           \* the copy the current turn works on
    turn,           \* what the turn of a session is doing
    approvals,      \* ApprovalBook._pending
    jobs,           \* state of every job in the job store
    owned,          \* WebStore.jobs: jobs counted against their owner
    following,      \* AgentHost._following
    follower,       \* the thread that follows jobs
    inbox,          \* Run and Retry requests between the check of the limit and the queue
    inputs, faults, crashes

request == <<saved, snaps, live>>
vars == <<saved, snaps, live, turn, approvals, jobs, owned, following, follower, inbox,
          inputs, faults, crashes>>
---------------------------------------------------------------------------
Jobs == Sessions \X Plans \X (0 .. RetryLimit)
Gates == {"none", "request", "review_plan", "review_request", "next_steps", "review_retry"}
NoForm == [gate |-> "none", rev |-> 0, plans |-> <<>>, jobs |-> {}]
Idle == [pc |-> "idle", kind |-> "none", rev |-> 0, todo |-> <<>>]
Asleep == [pc |-> "asleep", todo |-> {}, at |-> {}, read |-> "none"]

Hashes(ps) == {ps[i].hash : i \in DOMAIN ps}
HashList(ps) == [i \in DOMAIN ps |-> ps[i].hash]
Unstarted(ps) == {i \in DOMAIN ps : ~ps[i].job}
Entry(p) == [hash |-> p, job |-> FALSE]

\* The list of some places of a list, in its order.
InOrder(S) == {q \in [1 .. Cardinality(S) -> S] : \A i, k \in DOMAIN q : i < k => q[i] < q[k]}
Parent(j) == <<j[1], j[2], j[3] - 1>>
Retry(j) == <<j[1], j[2], j[3] + 1>>
Busy(s) == turn[s].pc # "idle"
Pending(f) == f.jobs \ f.finished
Closed(f) == [f EXCEPT !.form = NoForm]

\* Facts.retryable_jobs that have retries left.
RetryJobs(f) == {j \in f.failed : j[3] < RetryLimit /\ Retry(j) \notin f.retries}

\* The record of a new session after its first turn: the place form is open.
Fresh ==
    [rev |-> 1, form |-> [NoForm EXCEPT !.gate = "request", !.rev = 1], stage |-> "request",
     asked |-> FALSE, plans |-> <<>>, jobs |-> {}, finished |-> {}, failed |-> {},
     retries |-> {}, started |-> {}]

Init ==
    /\ saved = [s \in Sessions |-> Fresh]
    /\ snaps = [s \in Sessions |-> <<Fresh>>]
    /\ live = saved
    /\ turn = [s \in Sessions |-> Idle]
    /\ approvals = {}
    /\ jobs = [j \in Jobs |-> "none"]
    /\ owned = {}
    /\ following = {}
    /\ follower = Asleep
    /\ inbox = {}
    /\ inputs = 0 /\ faults = 0 /\ crashes = 0
---------------------------------------------------------------------------
(* Effects on a session's record. *)

\* open_form: a new revision, saved and kept for Back.
Opened(f, gate, ps, js) ==
    [f EXCEPT !.rev = @ + 1,
              !.form = [gate |-> gate, rev |-> f.rev + 1, plans |-> ps, jobs |-> js]]

Show(s, f, gate, ps, js) ==
    LET g == Opened(f, gate, ps, js) IN
    /\ live' = [live EXCEPT ![s] = g]
    /\ saved' = [saved EXCEPT ![s] = g]
    /\ snaps' = [snaps EXCEPT ![s] = Append(@, g)]

Keep(s, f) ==
    /\ live' = [live EXCEPT ![s] = f]
    /\ UNCHANGED <<saved, snaps>>

\* A tool call of the turn fails.
Fault == faults < MaxFaults /\ faults' = faults + 1
NoFault == UNCHANGED faults

\* Facts.new_request: the finished jobs and the started plans stay known.
NewRequest(f) ==
    [f EXCEPT !.stage = "request", !.asked = FALSE, !.plans = <<>>, !.jobs = {}]

\* GuidedPolicy.advance from the record f.
Advance(s, f) ==
    \/ /\ f.stage = "results" /\ NoFault
       /\ IF Pending(f) = {} THEN Show(s, f, "next_steps", <<>>, {}) ELSE Keep(s, Closed(f))
    \/ /\ f.stage = "request" /\ ~f.asked /\ NoFault
       /\ Show(s, f, "request", <<>>, {})
    \/ /\ f.stage = "request" /\ f.asked /\ f.plans = <<>>
       /\ \/ \E ps \in PlanLists[s] :
                LET made == [i \in DOMAIN ps |-> Entry(ps[i])]
                IN  NoFault /\ Show(s, [f EXCEPT !.plans = made], "review_plan", made, {})
          \/ Fault /\ Keep(s, f)
    \/ /\ f.stage = "request" /\ f.asked /\ f.plans # <<>> /\ NoFault
       /\ IF f.jobs # {} /\ Unstarted(f.plans) = {} THEN Keep(s, Closed(f))
          ELSE IF f.form.gate = "review_plan" /\ f.form.plans = f.plans THEN Keep(s, f)
          ELSE Show(s, f, "review_plan", f.plans, {})

\* An answer is accepted only for the form that is open.
Current(s, gate) == turn[s].rev = saved[s].form.rev /\ saved[s].form.gate = gate

\* host.release: a plan one of whose jobs was started is not changed.
Released(f) == \A i \in DOMAIN f.plans : ~f.plans[i].job

\* Mutant of ShowsCurrentPlans: any open review will do.
ShowsPlans(f) == f.form.gate = "review_plan"

\* host.shows_current_plans.
ShowsCurrentPlans(f) == f.form.gate = "review_plan" /\ HashList(f.form.plans) = HashList(f.plans)
---------------------------------------------------------------------------
(* Inputs: AgentHost.submit. *)

Running(o) == {j \in owned : Owner[j[1]] = o /\ jobs[j] = "running"}
Starting(s, kind) ==
    IF kind = "run" THEN Cardinality(Unstarted(saved[s].plans)) ELSE Cardinality(saved[s].form.jobs)

\* _check_running_jobs: only the Run or Retry button of the form that is open is checked.
WithinLimit(s, kind) ==
    saved[s].form.gate = (IF kind = "run" THEN "review_plan" ELSE "review_retry")
        => Cardinality(Running(Owner[s])) + Starting(s, kind) <= Limit

\* Inputs that answer a form name it by its revision: the open one or one shown earlier.
Answers == {"fill", "change", "approve", "retryform", "run", "retry"}
Revisions(s) == {saved[s].form.rev, 0}

\* The Run or Retry button passes the check.
Ask(s) ==
    /\ inputs < MaxInputs
    /\ \E kind \in Kinds \cap {"run", "retry"}, rev \in Revisions(s) :
          /\ WithinLimit(s, kind)
          /\ inbox' = inbox \cup {[s |-> s, kind |-> kind, rev |-> rev]}
    /\ inputs' = inputs + 1
    /\ UNCHANGED <<request, turn, approvals, jobs, owned, following, follower, faults, crashes>>

\* _submit: refused while the session is busy.
Queue ==
    \E r \in inbox :
        /\ inbox' = inbox \ {r}
        /\ turn' = IF Busy(r.s) THEN turn
                   ELSE [turn EXCEPT ![r.s] = [Idle EXCEPT !.pc = "act", !.kind = r.kind, !.rev = r.rev]]
        /\ UNCHANGED <<request, approvals, jobs, owned, following, follower, inputs, faults, crashes>>

\* Every other input, "run" typed as text among them: nothing is checked between the request
\* and the queue.
Send(s) ==
    /\ inputs < MaxInputs /\ ~Busy(s)
    /\ \E kind \in Kinds \ {"run", "retry"} : \E rev \in IF kind \in Answers THEN Revisions(s) ELSE {0} :
          turn' = [turn EXCEPT ![s] = [Idle EXCEPT !.pc = "act", !.kind = kind, !.rev = rev]]
    /\ inputs' = inputs + 1
    /\ UNCHANGED <<request, approvals, jobs, owned, following, follower, inbox, faults, crashes>>
---------------------------------------------------------------------------
(* Turns: AgentSession's handlers of one input. *)

Goto(s, pc) == turn' = [turn EXCEPT ![s].pc = pc]
Outside == UNCHANGED <<approvals, jobs, owned, following, follower, inbox, inputs, crashes>>

\* The turn of this kind of input begins, on the saved record.
Acts(s, kind) == turn[s].pc = "act" /\ turn[s].kind = kind /\ Outside

Refused(s) == Keep(s, saved[s]) /\ NoFault

\* The place, products and years are answered; planning follows.
Fill(s) ==
    /\ Acts(s, "fill") /\ Goto(s, "save")
    /\ IF Current(s, "request")
       THEN Advance(s, [saved[s] EXCEPT !.asked = TRUE, !.plans = <<>>])
       ELSE Refused(s)

\* A correction typed on the plan review: the review stays open until the next form.
Revise(s) ==
    /\ Acts(s, "revise") /\ Goto(s, "save")
    /\ IF saved[s].form.gate = "review_plan" /\ Released(saved[s])
       THEN Advance(s, [saved[s] EXCEPT !.plans = <<>>])
       ELSE Refused(s)

\* The Change option of the plan review: change_part.
Change(s) ==
    /\ Acts(s, "change") /\ Goto(s, "save")
    /\ IF Current(s, "review_plan") /\ Released(saved[s])
       THEN LET f == Closed([saved[s] EXCEPT !.plans = <<>>]) IN
            \/ NoFault /\ Show(s, f, "request", <<>>, {})
            \/ Fault /\ Keep(s, f)
       ELSE Refused(s)

New(s) ==
    /\ Acts(s, "new") /\ Goto(s, "save")
    /\ Advance(s, Closed(NewRequest(saved[s])))

\* AgentSession.back: results stay, and no started job is crossed.
\* Mutant of Crosses: a new request has cleared the jobs.
CrossesJobs(f, g) == f.jobs # g.jobs
Crosses(f, g) == f.jobs # g.jobs \/ f.started # g.started

Back(s) ==
    /\ Acts(s, "back") /\ Goto(s, "record") /\ NoFault
    /\ LET n == Len(snaps[s]) IN
       IF n < 2 \/ Crosses(snaps[s][n - 1], saved[s]) THEN Keep(s, saved[s])
       ELSE LET f == snaps[s][n - 1]
                g == [f EXCEPT !.finished = saved[s].finished, !.failed = saved[s].failed,
                               !.retries = saved[s].retries, !.rev = saved[s].rev + 1,
                               !.form.rev = IF f.form = NoForm THEN 0 ELSE saved[s].rev + 1]
            IN  /\ live' = [live EXCEPT ![s] = g]
                /\ saved' = [saved EXCEPT ![s] = g]
                /\ snaps' = [snaps EXCEPT ![s] = SubSeq(@, 1, n - 1)]

\* The request summary, opened at any time, and its approval.
Summary(s) ==
    /\ Acts(s, "summary") /\ Goto(s, "save") /\ NoFault
    /\ Show(s, saved[s], "review_request", <<>>, {})

Approve(s) ==
    /\ Acts(s, "approve") /\ Goto(s, "save")
    /\ IF Current(s, "review_request") THEN Advance(s, saved[s]) ELSE Refused(s)

\* In agent mode a message makes the model plan; the open review stays as it is.
Model(s) ==
    /\ Acts(s, "model") /\ Goto(s, "save") /\ NoFault
    /\ IF saved[s].asked
       THEN \E ps \in PlanLists[s] : \E p \in {ps[i] : i \in DOMAIN ps} :
            \E q \in InOrder({i \in DOMAIN saved[s].plans : Product[saved[s].plans[i].hash] # Product[p]}) :
                Keep(s, [saved[s] EXCEPT !.plans = Append([i \in DOMAIN q |-> @[q[i]]], Entry(p))])
       ELSE Keep(s, saved[s])

\* The button answers the form that is open; a typed "run" any plan review.
OnReview(s) ==
    IF turn[s].kind = "typed" THEN saved[s].form.gate = "review_plan" ELSE Current(s, "review_plan")

\* run_plans up to its loop: a review that is not current is shown again.
Run(s) ==
    /\ Acts(s, "run") \/ Acts(s, "typed")
    /\ LET f == saved[s] IN
       IF ~OnReview(s) THEN Refused(s) /\ Goto(s, "save")
       ELSE IF ~ShowsCurrentPlans(f) THEN Advance(s, f) /\ Goto(s, "save")
       ELSE /\ Refused(s)
            /\ \E q \in InOrder(Unstarted(f.plans)) :
                  turn' = [turn EXCEPT ![s].pc = "next",
                               ![s].todo = [i \in DOMAIN q |-> <<s, f.plans[q[i]].hash, 0>>]]

\* retry_form, from the next steps.
RetryForm(s) ==
    /\ Acts(s, "retryform") /\ Goto(s, "save")
    /\ LET f == saved[s] IN
       IF ~Current(s, "next_steps") THEN Refused(s)
       ELSE IF f.stage = "results" /\ Pending(f) = {} /\ RetryJobs(f) # {}
       THEN NoFault /\ Show(s, f, "review_retry", <<>>, RetryJobs(f))
       ELSE Advance(s, f)

\* run_retry up to its loop, over the jobs of the form in some order.
RetryRun(s) ==
    /\ Acts(s, "retry")
    /\ LET f == saved[s]
           retryable == RetryJobs(f) IN
       IF ~Current(s, "review_retry") THEN Refused(s) /\ Goto(s, "save")
       ELSE IF f.form.jobs # retryable \/ Pending(f) # {}
       THEN /\ Goto(s, "save")
            /\ IF f.stage = "results" /\ Pending(f) = {} /\ retryable # {}
               THEN NoFault /\ Show(s, f, "review_retry", <<>>, retryable)
               ELSE Refused(s)
       ELSE /\ Refused(s)
            /\ \E order \in [1 .. Cardinality(retryable) -> retryable] :
                  /\ \A j \in retryable : \E i \in DOMAIN order : order[i] = j
                  /\ turn' = [turn EXCEPT ![s].pc = "next",
                                  ![s].todo = [i \in DOMAIN order |-> Retry(order[i])]]
---------------------------------------------------------------------------
(* The loops of run_plans and run_retry: one submission after another. *)

Retries(s) == turn[s].kind = "retry"
Job(s) == Head(turn[s].todo)
Hash(s) == Job(s)[2]
Elsewhere == UNCHANGED <<owned, following, follower, inbox, inputs, crashes>>

\* The host approves the hash; a retry asks for the job's plan first.
Approves(s) ==
    /\ turn[s].pc = "next" /\ turn[s].todo # <<>>
    /\ \/ NoFault /\ approvals' = approvals \cup {Hash(s)} /\ Goto(s, "ask")
       \/ Retries(s) /\ Fault /\ UNCHANGED approvals /\ Goto(s, "save")
    /\ UNCHANGED <<request, jobs>> /\ Elsewhere

\* confirm_submission: the server asks, the approval is consumed or the plan declined.
Confirm(s) ==
    /\ turn[s].pc = "ask"
    /\ \/ /\ NoFault /\ approvals' = approvals \ {Hash(s)}
          /\ Goto(s, IF Hash(s) \in approvals THEN "submit" ELSE "failed")
       \/ Fault /\ UNCHANGED approvals /\ Goto(s, "failed")
    /\ UNCHANGED <<request, jobs>> /\ Elsewhere

\* JobRunner.submit or retry_failed under the session's key: an earlier job is returned.
Submit(s) ==
    /\ turn[s].pc = "submit"
    /\ \/ NoFault /\ jobs' = [jobs EXCEPT ![Job(s)] = IF @ = "none" THEN "running" ELSE @]
                  /\ Goto(s, "settle")
       \/ Fault /\ UNCHANGED jobs /\ Goto(s, "failed")
    /\ UNCHANGED <<request, approvals>> /\ Elsewhere

\* Mutant of Recorded: the started plan is not remembered.
RecordedUnnamed(f, j) ==
    [f EXCEPT !.jobs = @ \cup {j}, !.retries = IF j[3] = 0 THEN @ ELSE @ \cup {j},
              !.plans = [i \in DOMAIN @ |->
                  IF @[i].hash = j[2] THEN [@[i] EXCEPT !.job = TRUE] ELSE @[i]]]

\* The job is recorded in the facts; the approval, if still there, is dropped.
Recorded(f, j) ==
    IF j[3] = 0
    THEN [f EXCEPT !.jobs = @ \cup {j}, !.started = @ \cup {j[2]},
                   !.plans = [i \in DOMAIN @ |->
                       IF @[i].hash = j[2] THEN [@[i] EXCEPT !.job = TRUE] ELSE @[i]]]
    ELSE [f EXCEPT !.jobs = @ \cup {j}, !.retries = @ \cup {j}]

Settle(s) ==
    /\ turn[s].pc = "settle" /\ NoFault
    /\ Keep(s, Recorded(live[s], Job(s)))
    /\ approvals' = approvals \ {Hash(s)}
    /\ turn' = [turn EXCEPT ![s].pc = "next", ![s].todo = Tail(@)]
    /\ UNCHANGED jobs /\ Elsewhere

\* Mutant of Fails: the approval is dropped only when the submission succeeds.
FailsKeeping(s) ==
    /\ turn[s].pc = "failed"
    /\ IF Retries(s)
       THEN /\ Keep(s, live[s]) /\ NoFault
            /\ turn' = [turn EXCEPT ![s].pc = "next", ![s].todo = Tail(@)]
       ELSE /\ Goto(s, "save")
            /\ IF live[s].jobs # {} THEN Advance(s, live[s]) ELSE Keep(s, live[s]) /\ NoFault
    /\ UNCHANGED <<approvals, jobs>> /\ Elsewhere

\* A failed submission ends a Run, after showing what was started; a Retry goes on.
Fails(s) ==
    /\ turn[s].pc = "failed"
    /\ approvals' = approvals \ {Hash(s)}
    /\ IF Retries(s)
       THEN /\ Keep(s, live[s]) /\ NoFault
            /\ turn' = [turn EXCEPT ![s].pc = "next", ![s].todo = Tail(@)]
       ELSE /\ Goto(s, "save")
            /\ IF live[s].jobs # {} THEN Advance(s, live[s]) ELSE Keep(s, live[s]) /\ NoFault
    /\ UNCHANGED jobs /\ Elsewhere

\* Everything is submitted: the form closes.
Submitted(s) ==
    /\ turn[s].pc = "next" /\ turn[s].todo = <<>>
    /\ Keep(s, Closed(live[s])) /\ NoFault /\ Goto(s, "save")
    /\ UNCHANGED <<approvals, jobs>> /\ Elsewhere
---------------------------------------------------------------------------
(* Following jobs: check_jobs, and the end of every turn. *)

Check(s) ==
    /\ Acts(s, "check") /\ Refused(s)
    /\ IF Pending(saved[s]) = {} THEN Goto(s, "save")
       ELSE \E order \in [1 .. Cardinality(Pending(saved[s])) -> Pending(saved[s])] :
              /\ \A j \in Pending(saved[s]) : \E i \in DOMAIN order : order[i] = j
              /\ turn' = [turn EXCEPT ![s].pc = "inspect", ![s].todo = order]

\* _inspect and _finished, one job; a failing inspection ends the turn.
Inspect(s) ==
    /\ turn[s].pc = "inspect" /\ turn[s].todo # <<>>
    /\ LET j == Job(s) IN
       \/ /\ NoFault /\ turn' = [turn EXCEPT ![s].todo = Tail(@)]
          /\ Keep(s, IF jobs[j] = "running" THEN live[s]
                     ELSE [live[s] EXCEPT !.finished = @ \cup {j},
                              !.failed = IF jobs[j] = "failed" THEN @ \cup {j} ELSE @])
       \/ Fault /\ Keep(s, live[s]) /\ Goto(s, "save")
    /\ UNCHANGED <<approvals, jobs>> /\ Elsewhere

\* The last job is finished: the results step.
JobsDone(s) ==
    /\ turn[s].pc = "inspect" /\ turn[s].todo = <<>> /\ Goto(s, "save")
    /\ IF Pending(live[s]) = {}
       THEN Advance(s, Closed([live[s] EXCEPT !.stage = "results"]))
       ELSE Keep(s, live[s]) /\ NoFault
    /\ UNCHANGED <<approvals, jobs>> /\ Elsewhere

\* _guard saves the record at the end of the work.
Save(s) ==
    /\ turn[s].pc = "save" /\ Goto(s, "record")
    /\ saved' = [saved EXCEPT ![s] = live[s]]
    /\ UNCHANGED <<snaps, live, approvals, jobs, faults>> /\ Elsewhere

\* Mutant of Record: started jobs are followed only when someone opens the session.
RecordUnfollowed(s) ==
    /\ turn[s].pc = "record"
    /\ owned' = owned \cup live[s].jobs
    /\ following' = following
    /\ turn' = [turn EXCEPT ![s] = Idle]
    /\ follower' = IF turn[s].kind = "check" THEN [follower EXCEPT !.pc = "next", !.at = {}] ELSE follower
    /\ UNCHANGED <<request, approvals, jobs, inbox, inputs, faults, crashes>>

\* The end of _run and _turn: jobs are counted and followed, the session is free.
Record(s) ==
    /\ turn[s].pc = "record"
    /\ owned' = owned \cup live[s].jobs
    /\ following' = IF Pending(live[s]) = {} THEN following ELSE following \cup {s}
    /\ turn' = [turn EXCEPT ![s] = Idle]
    /\ follower' = IF turn[s].kind = "check" THEN [follower EXCEPT !.pc = "next", !.at = {}] ELSE follower
    /\ UNCHANGED <<request, approvals, jobs, inbox, inputs, faults, crashes>>
---------------------------------------------------------------------------
(* The following thread: AgentHost.follow_once. *)

Alone == UNCHANGED <<request, approvals, jobs, owned, inbox, inputs, faults, crashes>>

\* The followed sessions that are idle are collected under the mutex.
Wake ==
    LET waiting == {s \in following : ~Busy(s)} IN
    /\ follower.pc = "asleep" /\ waiting # {}
    /\ follower' = [follower EXCEPT !.pc = "next", !.todo = waiting]
    /\ UNCHANGED <<turn, following>> /\ Alone

\* One session's record is loaded; what it said decides the next step.
Load ==
    /\ follower.pc = "next" /\ follower.todo # {}
    /\ \E s \in follower.todo :
          follower' = [pc |-> "decide", todo |-> follower.todo \ {s}, at |-> {s},
                       read |-> IF Pending(saved[s]) = {} THEN "finished"
                                ELSE IF saved[s].form # NoForm THEN "form" ELSE "waiting"]
    /\ UNCHANGED <<turn, following>> /\ Alone

\* Finished sessions are forgotten, a session without a form is checked unless it is busy.
Decide ==
    /\ follower.pc = "decide"
    /\ LET due == {s \in follower.at : follower.read = "waiting" /\ ~Busy(s)} IN
       /\ turn' = [s \in Sessions |->
                      IF s \in due THEN [Idle EXCEPT !.pc = "act", !.kind = "check"] ELSE turn[s]]
       /\ following' = IF follower.read = "finished" THEN following \ follower.at ELSE following
       /\ follower' = [follower EXCEPT !.pc = IF due = {} THEN "next" ELSE "wait", !.at = {}]
    /\ Alone

Rest ==
    /\ follower.pc = "next" /\ follower.todo = {}
    /\ follower' = Asleep
    /\ UNCHANGED <<turn, following>> /\ Alone

\* Someone opens the session's page: its running jobs are followed.
Open(s) ==
    /\ Pending(saved[s]) # {} /\ s \notin following
    /\ following' = following \cup {s}
    /\ UNCHANGED <<turn, follower>> /\ Alone

\* The job runner finishes a job.
Finish(j) ==
    /\ jobs[j] = "running"
    /\ \E state \in {"done", "failed"} : jobs' = [jobs EXCEPT ![j] = state]
    /\ UNCHANGED <<request, turn, approvals, owned, following, follower, inbox, inputs, faults, crashes>>

\* The process dies and starts again.
Crash ==
    /\ crashes < MaxCrashes
    /\ crashes' = crashes + 1
    /\ live' = saved
    /\ turn' = [s \in Sessions |-> Idle]
    /\ approvals' = {} /\ following' = {} /\ follower' = Asleep /\ inbox' = {}
    /\ UNCHANGED <<saved, snaps, jobs, owned, inputs, faults>>
---------------------------------------------------------------------------
Input(s) ==
    Fill(s) \/ Revise(s) \/ Change(s) \/ New(s) \/ Back(s) \/ Summary(s) \/ Approve(s)
    \/ Model(s) \/ Run(s) \/ RetryForm(s) \/ RetryRun(s) \/ Check(s)

Loop(s) ==
    Approves(s) \/ Confirm(s) \/ Submit(s) \/ Settle(s) \/ Fails(s) \/ Submitted(s)
    \/ Inspect(s) \/ JobsDone(s) \/ Save(s) \/ Record(s)

Turn(s) == Input(s) \/ Loop(s)
Following == Wake \/ Load \/ Decide \/ Rest

Next ==
    \/ \E s \in Sessions : Ask(s) \/ Send(s) \/ Turn(s) \/ Open(s)
    \/ \E j \in Jobs : Finish(j)
    \/ Queue \/ Following \/ Crash

Spec == Init /\ [][Next]_vars

\* Pool threads and the following thread run on, and jobs finish (JobRunner).
FairSpec ==
    /\ Spec
    /\ \A s \in Sessions : WF_vars(Turn(s))
    /\ \A j \in Jobs : WF_vars(Finish(j))
    /\ WF_vars(Following)
---------------------------------------------------------------------------
(* Properties. *)

FormType ==
    [gate : Gates, rev : Nat, plans : Seq([hash : Plans, job : BOOLEAN]), jobs : SUBSET Jobs]
FactsType ==
    [rev : Nat, form : FormType, stage : {"request", "results"}, asked : BOOLEAN,
     plans : Seq([hash : Plans, job : BOOLEAN]), jobs : SUBSET Jobs, finished : SUBSET Jobs,
     failed : SUBSET Jobs, retries : SUBSET Jobs, started : SUBSET Plans]
TurnType ==
    [pc : {"idle", "act", "next", "ask", "submit", "settle", "failed", "inspect", "save", "record"},
     kind : Kinds \cup {"none", "check"}, rev : Nat, todo : Seq(Jobs)]
FollowerType ==
    [pc : {"asleep", "next", "decide", "wait"}, todo : SUBSET Sessions, at : SUBSET Sessions,
     read : {"none", "finished", "form", "waiting"}]
TypeOK ==
    /\ saved \in [Sessions -> FactsType] /\ live \in [Sessions -> FactsType]
    /\ snaps \in [Sessions -> Seq(FactsType)] /\ turn \in [Sessions -> TurnType]
    /\ approvals \subseteq Plans /\ owned \subseteq Jobs /\ following \subseteq Sessions
    /\ jobs \in [Jobs -> {"none", "running", "done", "failed"}]
    /\ inbox \subseteq [s : Sessions, kind : Kinds \cap {"run", "retry"}, rev : Nat]
    /\ follower \in FollowerType /\ crashes \in Nat

\* A started job is one the person saw: Run starts only plans of the review that is
\* open, Retry only failed jobs of the form that is open (host.py:361, outputs.py:174).
RunsWhatWasShown ==
    [][ \A j \in Jobs : jobs[j] = "none" /\ jobs'[j] # "none" =>
          LET form == saved[j[1]].form IN
          IF j[3] = 0 THEN form.gate = "review_plan" /\ j[2] \in Hashes(form.plans)
          ELSE form.gate = "review_retry" /\ Parent(j) \in form.jobs ]_vars

\* "Never leave it pending if the server did not ask" (host.py:398, outputs.py:191): no approval
\* in the book that all sessions share outlives the submissions it was given for, whichever of
\* them fail, overlap for the same plan, or died.
NoApprovalIsLeft ==
    \A p \in approvals : \E s \in Sessions :
        turn[s].pc \in {"ask", "submit", "settle", "failed"} /\ Hash(s) = p

\* "Each approved plan hash answers exactly one submission confirmation" (mcp_port.py:45): a
\* session that waits for the server's question finds its person's approval in the book.  It does not
\* hold when two sessions run one plan (README.md, section 5).
ApprovalsAnswered == \A s \in Sessions : turn[s].pc = "ask" => Hash(s) \in approvals

\* While the process lives, every job that was started is known to its session:
\* among its started plans or retries, or about to be recorded (host.py:400-405).
JobsRemembered ==
    \A j \in Jobs : jobs[j] # "none" =>
        LET s == j[1] IN
        \/ turn[s].pc = "settle" /\ Job(s) = j
        \/ IF j[3] = 0 THEN j[2] \in live[s].started ELSE j \in live[s].retries

\* Back never crosses a started job: what it restores knows every job of the session
\* (session.py:422, docs/agent/README.md:90).
BackNeverCrosses ==
    [][ \A s \in Sessions : Len(snaps'[s]) < Len(snaps[s]) =>
          \A j \in Jobs : j[1] = s /\ j[3] = 0 /\ jobs[j] # "none"
              => j[2] \in saved'[s].started ]_vars

\* "Weather jobs running at once per person, checked at Run" (docs/agent/README.md:215): no
\* person has more jobs running than the profile allows (web.py:298).  It does not hold for a run that
\* is typed, nor for two sessions of one person (README.md, section 5).
JobLimitKept ==
    \A o \in {Owner[s] : s \in Sessions} :
        Cardinality({j \in Jobs : jobs[j] = "running" /\ Owner[j[1]] = o}) <= Limit

\* Every session comes back to a form: what was run is reported in the end (session.py:381).
\* After the process died that needs someone to open the session.
EveryRunIsReported ==
    \A s \in Sessions : []<>(saved[s].form # NoForm \/ (crashes > 0 /\ s \notin following))
===========================================================================
