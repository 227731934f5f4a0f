------------------------------ MODULE McpServer ------------------------------
(***************************************************************************)
(* The MCP server (openepw/mcp) over the plan store and the durable jobs.  *)
(* A tool runs in one step of the event loop, but for the two that await   *)
(* the person's confirmation: a submission and a retry are suspended there *)
(* (Ask), the client answers by its own rule (Answer), and only then the   *)
(* server reads the jobs again and submits (Confirmed).  Meanwhile other   *)
(* connections call tools, jobs run, and the process may restart.  A       *)
(* cancelled job goes on until its run looks at the flag.  The read and    *)
(* the write of a cancellation are one step here; what happens between     *)
(* them is the matter of JobRunner.                                        *)
(***************************************************************************)
EXTENDS Integers, Sequences, FiniteSets, FiniteSetsExt

CONSTANTS Conns,
          Cases,      \* where a behaviour starts: [client, kept, jobs, calls, faults]; a client is a "host", a
                      \* "stdio" port, asks its "own" person, or is "bare" and cannot ask
          Planned,    \* what service.plan may return: [kind, outs, notes, heavy]
          Given,      \* whole plans a client may pass to weather_fetch
          Keys,       \* idempotency keys
          PageSize,   \* rows of one page, and of a summary of a plan (50)
          TextRows,   \* rows a text names (ROWS)
          MaxYes,     \* bound on approvals of a plan
          None

VARIABLES client,     \* the kind of each connection's client, which stays
          kept,       \* plan_store: a plan is its own hash
          jobs,       \* submitted jobs, oldest first
          enqueued,   \* JobRunner.active of this process
          recovered,  \* did a session recover the jobs in this process?
          book,       \* ApprovalBook._pending of the host; StdioMCPPort.approved
          call,       \* per connection, the submission that waits for its confirmation
          reply,      \* the answer this step gave; None for none
          yes,        \* history: per kind of client and plan, how often a person approved it
          calls, faults  \* calls of tools and faults still to come

vars == <<client, kept, jobs, enqueued, recovered, book, call, reply, yes, calls, faults>>

Subplan(p, outs) == [p EXCEPT !.outs = outs, !.notes = FALSE]
AllPlans == Planned \cup Given \cup UNION {{Subplan(p, o) : o \in SUBSET p.outs} : p \in Planned \cup Given}
Terminal == {"cancelled", "ended"}
Over(j) == jobs[j].state \in Terminal
-----------------------------------------------------------------------------
\* The outputs of a plan in order, a page of them, and what the summary of the plan says.
Rows(p) == [i \in 1..Cardinality(p.outs) |-> CHOOSE o \in p.outs : Cardinality({q \in p.outs : q <= o}) = i]
Cut(s, offset, limit) == SubSeq(s, offset + 1, Min({offset + limit, Len(s)}))
Page(p, offset, limit) == Cut(Rows(p), offset, limit)
Truncated(p) == Cardinality(p.outs) > PageSize

\* summarize: the identifiers first, then a few rows; a stub of identifiers when it fails.
Summary(d) == <<d.ident>> \o Cut([i \in 1..d.size |-> "row"], 0, TextRows)
Stub(d) == <<"fields", d.ident>>
Text(d) == IF d.odd THEN Stub(d) ELSE Summary(d)

Data(ident, size, odd) == [ident |-> ident, size |-> size, odd |-> odd]
Good(tool, d) == [tool |-> tool, code |-> "ok", leaks |-> FALSE, data |-> d, text |-> Text(d)]

\* A failure: its class and code (None for none), and whether its own text holds input.
Failure(class, code) == [class |-> class, code |-> code]
Refused(code) == Failure("openepw", code)

\* tool_error: the code of the program's own errors, a fixed one for all others.
ToolError(f) ==
    CASE f.class = "openepw" -> [json |-> TRUE, code |-> f.code, leaks |-> FALSE]
      [] f.class \in {"validation", "value"} -> [json |-> TRUE, code |-> "INVALID_REQUEST", leaks |-> FALSE]
      [] f.class = "other" -> [json |-> TRUE, code |-> "INTERNAL_ERROR", leaks |-> FALSE]

\* call_tool: what the SDK wrapped is unwrapped and mapped; an unknown tool has no cause.
Told(f) == IF f.class = "unknown" THEN [json |-> FALSE, code |-> None, leaks |-> FALSE] ELSE ToolError(f)

\* parse_failure, at the client.
Bad(tool, f) ==
    LET t == Told(f) IN
    [tool |-> tool, code |-> IF t.json THEN t.code ELSE "MCP_TOOL_ERROR", leaks |-> t.leaks, data |-> None, text |-> None]
Answers(r) == reply' = r
Fails(tool, code) == Answers(Bad(tool, Refused(code)))
Silent == reply' = None
-----------------------------------------------------------------------------
Init ==
    /\ \E s \in Cases : client = s.client /\ kept = s.kept /\ jobs = s.jobs /\ calls = s.calls /\ faults = s.faults
    /\ enqueued = {} /\ recovered = FALSE
    /\ book = [c \in Conns |-> {}]
    /\ call = [c \in Conns |-> None] /\ reply = None
    /\ yes = [c \in Conns |-> [p \in AllPlans |-> 0]]

\* A session enters the server's lifespan: the first one of the process recovers the jobs.
Enter ==
    /\ ~recovered
    /\ recovered' = TRUE
    /\ enqueued' = {j \in DOMAIN jobs : ~Over(j)}
    /\ UNCHANGED <<kept, jobs, book, call, yes, calls, faults>> /\ Silent

Calls(c) == recovered /\ call[c] = None /\ calls > 0 /\ calls' = calls - 1
Only(c) == UNCHANGED <<enqueued, recovered, book, call, yes, faults>>

\* weather_plan: the plan is kept before its summary is measured.
Plan(c) ==
    /\ Calls(c)
    /\ \/ \E code \in {"FEATURE_SUSPENDED", "INVALID_REQUEST", "RESOURCE_LIMIT"} :
              Fails("plan", code) /\ UNCHANGED kept
       \/ \E p \in Planned :
              /\ kept' = kept \cup {p}
              /\ IF p.heavy THEN Fails("plan", "RESOURCE_LIMIT")
                 ELSE Answers(Good("plan", Data(p, Cardinality(p.outs), FALSE)))
    /\ UNCHANGED jobs /\ Only(c)

\* Tools that change nothing a submission rests on: an answer of any size, or any failure.
Look(c) ==
    /\ Calls(c)
    /\ \/ \E odd \in BOOLEAN : Answers(Good("look", Data(None, TextRows + 1, odd)))
       \/ \E class \in {"validation", "value", "other", "unknown"} : Answers(Bad("look", Failure(class, None)))
       \/ Fails("look", "RESOURCE_LIMIT")
    /\ UNCHANGED <<kept, jobs>> /\ Only(c)

\* job_cancel: a job that is not over is asked to stop, and goes on until it looks.
Cancel(c, j) ==
    /\ Calls(c)
    /\ jobs' = [jobs EXCEPT ![j].cancel = @ \/ ~Over(j)]
    /\ Answers(Good("job", Data(j, 0, FALSE)))
    /\ UNCHANGED kept /\ Only(c)

\* job_inspect: a finished job's rows are read from its manifest, which must be whole.
InspectJob(c, j) ==
    /\ Calls(c)
    /\ IF Over(j) /\ ~jobs[j].whole THEN Fails("job", "INVALID_ARTIFACT")
       ELSE Answers(Good("job", Data(j, Cardinality(jobs[j].done), FALSE)))
    /\ UNCHANGED <<kept, jobs>> /\ Only(c)

\* artifact_inspect of a weather file, which must match its checksum; the manifest and QC beside it
\* are told of when they are whole, and left out when they are not.
InspectArtifact(c, j) ==
    /\ Calls(c) /\ Over(j)
    /\ \E o \in jobs[j].plan.outs :
          IF o \in jobs[j].done THEN Answers(Good("artifact", Data(o, IF jobs[j].whole THEN 2 ELSE 0, FALSE)))
          ELSE Fails("artifact", "INVALID_ARTIFACT")
    /\ UNCHANGED <<kept, jobs>> /\ Only(c)

\* epw_upload and epw_register_path: a file is read and registered as a baseline (ArtifactStore).
Register(c) ==
    /\ Calls(c)
    /\ \/ \E code \in {"RESOURCE_LIMIT", "INVALID_BASELINE", "ACCESS_DENIED"} : Fails("register", code)
       \/ Answers(Good("register", Data(None, 0, FALSE)))
    /\ UNCHANGED <<kept, jobs>> /\ Only(c)
-----------------------------------------------------------------------------
\* What a retry would make: the outputs with no file that resolves.
Unmet(j) == jobs[j].plan.outs \ jobs[j].done
RetryRefused(j) ==
    IF jobs[j].plan.kind = "future" THEN "FEATURE_SUSPENDED"
    ELSE IF ~Over(j) THEN "INVALID_REQUEST"
    ELSE IF Unmet(j) = {} THEN "NOTHING_TO_RETRY"
    ELSE None

SubmitRefused(p) ==
    IF p.kind = "future" THEN "FEATURE_SUSPENDED" ELSE IF p.outs = {} THEN "NO_EXECUTABLE_OUTPUTS" ELSE None

\* confirm_submission: a client that cannot ask the person is refused, others are asked.
Asks(c, waiting) ==
    IF client[c] = "bare" THEN Fails("submit", "APPROVAL_REQUIRED") /\ UNCHANGED call
    ELSE call' = [call EXCEPT ![c] = waiting] /\ Silent
Waiting(p, of, k) == [hash |-> p, of |-> of, key |-> k, answer |-> None]
Checked(c, refused, waiting) ==
    IF refused # None THEN Fails("submit", refused) /\ UNCHANGED call ELSE Asks(c, waiting)

\* weather_submit of a kept plan.
Submit(c, p, k) ==
    /\ Calls(c)
    /\ IF p \notin kept THEN p \in Planned /\ Fails("submit", "PLAN_NOT_FOUND") /\ UNCHANGED call
       ELSE Checked(c, SubmitRefused(p), Waiting(p, None, k))
    /\ UNCHANGED <<kept, jobs, enqueued, recovered, book, yes, faults>>

\* weather_fetch of a whole plan, whose hash is verified; a weather plan is kept.
Fetch(c, p, k) ==
    /\ Calls(c)
    /\ \/ Fails("submit", "INVALID_REQUEST") /\ UNCHANGED <<kept, call>>
       \/ /\ kept' = kept \cup (IF p.kind = "weather" THEN {p} ELSE {})
          /\ Checked(c, SubmitRefused(p), Waiting(p, None, k))
    /\ UNCHANGED <<jobs, enqueued, recovered, book, yes, faults>>

\* job_retry_failed: the question names the plan of the job that is retried.
Retry(c, j, k) ==
    /\ Calls(c)
    /\ Checked(c, RetryRefused(j), Waiting(jobs[j].plan, j, k))
    /\ UNCHANGED <<kept, jobs, enqueued, recovered, book, yes, faults>>
-----------------------------------------------------------------------------
\* The person approves a plan in a review; the host puts it in the book of its client.
Approve(c, p) ==
    /\ client[c] \in {"host", "stdio"} /\ yes[c][p] < MaxYes
    /\ p \in kept \/ \E j \in DOMAIN jobs : jobs[j].plan = p
    /\ book' = [book EXCEPT ![c] = @ \cup {p}]
    /\ yes' = [yes EXCEPT ![c][p] = @ + 1]
    /\ UNCHANGED <<kept, jobs, enqueued, recovered, call, calls, faults>> /\ Silent

\* ApprovalBook.consume (faulty: it answers without forgetting).
ConsumeNone(c, p) == book[c]
Consume(c, p) == IF client[c] = "host" THEN book[c] \ {p} ELSE book[c]

Asked(c) == call[c] # None /\ call[c].answer = None
Says(c, answer) == call' = [call EXCEPT ![c].answer = answer]

\* approval_callback: yes to what is in the book; other clients ask their person.
Answer(c) ==
    /\ Asked(c) /\ client[c] \in {"host", "stdio"}
    /\ Says(c, call[c].hash \in book[c])
    /\ book' = [book EXCEPT ![c] = Consume(c, call[c].hash)]
    /\ UNCHANGED <<kept, jobs, enqueued, recovered, yes, calls, faults>> /\ Silent
Decide(c) ==
    /\ Asked(c) /\ client[c] = "own" /\ yes[c][call[c].hash] < MaxYes
    /\ \/ Says(c, TRUE) /\ yes' = [yes EXCEPT ![c][call[c].hash] = @ + 1]
       \/ Says(c, FALSE) /\ UNCHANGED yes
    /\ UNCHANGED <<kept, jobs, enqueued, recovered, book, calls, faults>> /\ Silent

Declined(c) ==
    /\ call[c] # None /\ call[c].answer = FALSE
    /\ Fails("submit", "APPROVAL_DECLINED")
    /\ call' = [call EXCEPT ![c] = None]
    /\ UNCHANGED <<kept, jobs, enqueued, recovered, book, yes, calls, faults>>

\* runner.submit and retry_failed, which looks at the job again.
Runs(w) == IF w.of = None THEN w.hash ELSE Subplan(jobs[w.of].plan, Unmet(w.of))
Prior(w) == {j \in DOMAIN jobs : w.key # None /\ jobs[j].key = w.key}
Job(c, w) == [plan |-> Runs(w), key |-> w.key, of |-> w.of, by |-> c, said |-> w.hash,
              state |-> "open", cancel |-> FALSE, at |-> None, done |-> {}, whole |-> TRUE]

Confirmed(c) ==
    /\ call[c] # None /\ call[c].answer = TRUE
    /\ LET w == call[c]
           refused == IF w.of = None THEN None ELSE RetryRefused(w.of) IN
       \/ /\ refused # None
          /\ Fails("submit", refused) /\ UNCHANGED <<jobs, enqueued>>
       \/ \E j \in Prior(w) :
             /\ refused = None /\ UNCHANGED <<jobs, enqueued>>
             /\ IF jobs[j].plan # Runs(w) THEN Fails("submit", "IDEMPOTENCY_CONFLICT")
                ELSE Answers(Good("submit", Data(j, 0, FALSE)))
       \/ /\ refused = None /\ Prior(w) = {}
          /\ jobs' = Append(jobs, Job(c, w))
          /\ enqueued' = enqueued \cup {Len(jobs) + 1}
          /\ Answers(Good("submit", Data(Len(jobs) + 1, 0, FALSE)))
    /\ call' = [call EXCEPT ![c] = None]
    /\ UNCHANGED <<kept, recovered, book, yes, calls, faults>>
-----------------------------------------------------------------------------
\* The connection goes away while its call waits: the call is cancelled without an answer.
Vanish(c) ==
    /\ call[c] # None /\ faults > 0 /\ faults' = faults - 1
    /\ call' = [call EXCEPT ![c] = None]
    /\ UNCHANGED <<kept, jobs, enqueued, recovered, book, yes, calls>> /\ Silent

\* The process and its clients' sessions end; plans and jobs are on disk.
Restart ==
    /\ faults > 0 /\ faults' = faults - 1
    /\ recovered' = FALSE /\ enqueued' = {}
    /\ book' = [c \in Conns |-> {}]
    /\ call' = [c \in Conns |-> None] /\ Silent
    /\ jobs' = [j \in DOMAIN jobs |-> [jobs[j] EXCEPT !.at = None]]
    /\ UNCHANGED <<kept, yes, calls>>

\* A run looks whether it was asked to stop before each output, makes the output or fails, and ends
\* with what was made: cancelled if it was asked by then.
Begin(j, o) ==
    /\ j \in enqueued /\ ~jobs[j].cancel
    /\ jobs[j].at = None /\ o \in Unmet(j)
    /\ jobs' = [jobs EXCEPT ![j].at = o]
    /\ UNCHANGED <<kept, enqueued, recovered, book, call, yes, calls, faults>> /\ Silent
Make(j) ==
    /\ j \in enqueued /\ jobs[j].at # None
    /\ jobs' = [jobs EXCEPT ![j].at = None, ![j].done = @ \cup {jobs[j].at}]
    /\ UNCHANGED <<kept, enqueued, recovered, book, call, yes, calls, faults>> /\ Silent
End(j) ==
    /\ j \in enqueued
    /\ jobs' = [jobs EXCEPT ![j].at = None, ![j].state = IF jobs[j].cancel THEN "cancelled" ELSE "ended"]
    /\ enqueued' = enqueued \ {j}
    /\ UNCHANGED <<kept, recovered, book, call, yes, calls, faults>> /\ Silent

\* A file of a job no longer matches its checksum: an output, or the manifest.
Damage(j) ==
    /\ faults > 0 /\ faults' = faults - 1
    /\ Over(j)
    /\ \/ \E o \in jobs[j].done : jobs' = [jobs EXCEPT ![j].done = @ \ {o}]
       \/ jobs[j].whole /\ jobs' = [jobs EXCEPT ![j].whole = FALSE]
    /\ UNCHANGED <<kept, enqueued, recovered, book, call, yes, calls>> /\ Silent

Next ==
    /\ UNCHANGED client
    /\ \/ Enter \/ Restart
       \/ \E c \in Conns :
             \/ Plan(c) \/ Look(c) \/ Register(c) \/ Answer(c) \/ Decide(c) \/ Declined(c) \/ Confirmed(c) \/ Vanish(c)
             \/ \E k \in Keys \cup {None} : (\E p \in DOMAIN yes[c] : Submit(c, p, k)) \/ \E p \in Given : Fetch(c, p, k)
             \/ \E p \in DOMAIN yes[c] : Approve(c, p)
             \/ \E j \in DOMAIN jobs :
                   Cancel(c, j) \/ InspectJob(c, j) \/ InspectArtifact(c, j) \/ \E k \in Keys \cup {None} : Retry(c, j, k)
       \/ \E j \in DOMAIN jobs : Damage(j) \/ Make(j) \/ End(j) \/ \E o \in jobs[j].plan.outs : Begin(j, o)
Spec == Init /\ [][Next]_vars
-----------------------------------------------------------------------------
\* "Submission needs the person's confirmation" (approval.py): a job runs weather of a plan that
\* was approved, or a part of it, and no more jobs run than approvals were given; a stdio
\* client, which keeps its approvals, at least one.
Consented ==
    /\ \A j \in DOMAIN jobs : jobs[j].by # None =>
          /\ jobs[j].plan.kind = "weather" /\ jobs[j].plan.outs # {}
          /\ jobs[j].plan.outs \subseteq jobs[j].said.outs
          /\ jobs[j].said = IF jobs[j].of = None THEN jobs[j].plan ELSE jobs[jobs[j].of].plan
          /\ yes[jobs[j].by][jobs[j].said] > 0
    /\ \A c \in Conns : client[c] # "stdio" => \A p \in DOMAIN yes[c] :
          Cardinality({j \in DOMAIN jobs : jobs[j].by = c /\ jobs[j].said = p}) <= yes[c][p]

\* A retry never makes again what its job has, however long the confirmation took and however
\* late a job that was asked to stop made it.
RetriesAreParts ==
    \A j \in DOMAIN jobs : jobs[j].of # None => jobs[j].plan.outs \cap jobs[jobs[j].of].done = {}

\* An answer tells the client what it needs to go on: the identifier of what was made, first or
\* in the stub; a failure's code, never MCP_TOOL_ERROR for an error of the program, no input.
AnswersServe ==
    reply # None =>
        /\ reply.code = "ok" => (\E i \in DOMAIN reply.text : reply.text[i] = reply.data.ident) /\ Len(reply.text) <= TextRows + 2
        /\ reply.code # "ok" => ~reply.leaks /\ (reply.code = "MCP_TOOL_ERROR" => reply.tool = "look")
        /\ reply.tool = "submit" /\ reply.code = "ok" => reply.data.ident \in DOMAIN jobs

\* Each page of a plan goes on where the one before it ended, to the last output, and "truncated"
\* says when one page is not all.
PagesCover ==
    \A p \in kept :
        /\ \A n \in 0..Len(Rows(p)) : Page(p, 0, n) \o Page(p, n, PageSize) = Page(p, 0, n + PageSize)
        /\ Page(p, 0, Len(Rows(p))) = Rows(p)
        /\ Truncated(p) <=> Page(p, 0, PageSize) # Rows(p)

\* Once a session is open, every unfinished job is with the runner.
NoneWaits == recovered => \A j \in DOMAIN jobs : ~Over(j) => j \in enqueued

McpHolds == Consented /\ RetriesAreParts /\ AnswersServe /\ PagesCover /\ NoneWaits
=============================================================================
