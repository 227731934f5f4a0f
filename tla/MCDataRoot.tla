----------------------------- MODULE MCDataRoot -----------------------------
(***************************************************************************)
(* A data root, for TLC: its artifact store, the lock that decides which   *)
(* process executes its jobs, and how such a job gets its weather - the    *)
(* loop over its outputs and their shared fetches (JobExecution), the      *)
(* recording and replay of one fetch's answers (Replay), one request to a  *)
(* provider (Http), the jobs of a plan of future weather (Future), and the *)
(* clients of the MCP server (Mcp).  What a part takes from another is an  *)
(* outcome here, so they share no state; `subject` is the one a behaviour  *)
(* is about, and the others stay as they start.                            *)
(***************************************************************************)
EXTENDS ArtifactStore, RunnerLock, JobExecution, Sequences, TLC

CONSTANTS t1, t2, d1, d2, b1, e1, e2, f1, f2,
          p1, p2, r1, r2, r3, j1, j2, g1, g2, Torn, Missing,
          Fetchers, Requests, Secret, MaxUpstream, MaxFetches, MaxTears,  \* of Replay
          Retries, MaxChunks, Waits,                                      \* of Http
          Supply, Grids, MaxFaults, MaxChanges, MaxCrashes, MaxRetries,   \* of Future
          Conns, Cases, Planned, Given, Keys, PageSize, TextRows, MaxYes  \* of Mcp

VARIABLES subject,
          upstream, bodies, checksums, step, hashed, answers, writes, raced, recordings, tears,
          method, host, conditional, attempt, chunks, request, outcome, sent, slept, statuses,
          asked, holdings, version, plan, chain, run, broken, spent,
          client, kept, submitted, enqueued, recovered, book, call, reply, yes, calls, mishaps

Replay == INSTANCE ResponseCache WITH pending <- writes, fetches <- recordings
Http == INSTANCE HttpClient WITH phase <- request
Future == INSTANCE FutureWeather WITH
    request <- asked, catalog <- holdings, jobs <- chain, damaged <- broken

Mcp == INSTANCE McpServer WITH jobs <- submitted, faults <- mishaps

Weather(outs, notes, heavy) == [kind |-> "weather", outs |-> outs, notes |-> notes, heavy |-> heavy]
OldPlan == [kind |-> "future", outs |-> {1}, notes |-> FALSE, heavy |-> FALSE]
OldJob == [plan |-> OldPlan, key |-> None, of |-> None, by |-> None, said |-> OldPlan,
           state |-> "ended", cancel |-> FALSE, at |-> None, done |-> {}, whole |-> TRUE]
McpCase(a, b, plans, olds, n, m) ==
    [client |-> g1 :> a @@ g2 :> b, kept |-> plans, jobs |-> olds, calls |-> n, faults |-> m]
McpCases ==
    {McpCase("host", "own", {}, <<>>, 3, 1), McpCase("stdio", "bare", {}, <<>>, 3, 1),
     McpCase("host", "bare", {OldPlan}, <<OldJob>>, 3, 1)}
TwoPlans == {Weather({1, 2}, TRUE, FALSE), Weather({1}, FALSE, TRUE)}
ThreePlans == {Weather({}, FALSE, FALSE), Weather({1}, FALSE, TRUE), OldPlan}

\* A plan has numbered outputs, and a model value is neither a record nor a number; a job that is
\* there at the start was made outside the server, and has ended.
Plans == [kind : {"weather", "future"}, outs : SUBSET Nat, notes : BOOLEAN, heavy : BOOLEAN]
McpJobs ==
    [plan : Mcp!AllPlans, key : Keys \cup {None}, of : Nat \cup {None}, by : Conns \cup {None}, said : Mcp!AllPlans,
     state : {"open", "cancelled", "ended"}, cancel : BOOLEAN, at : Nat \cup {None}, done : SUBSET Nat, whole : BOOLEAN]
McpWaits ==
    [hash : Mcp!AllPlans, of : Nat \cup {None}, key : Keys \cup {None}, answer : BOOLEAN \cup {None}]
Codes == {"ok", "MCP_TOOL_ERROR", "FEATURE_SUSPENDED", "NO_EXECUTABLE_OUTPUTS", "INVALID_REQUEST", "NOTHING_TO_RETRY"}
ASSUME McpAssumption ==
    /\ PageSize \in Nat \ {0} /\ TextRows \in Nat /\ MaxYes \in Nat
    /\ \A p \in Planned \cup Given : p \in Plans /\ IsFiniteSet(p.outs)
    /\ None \notin Conns \cup Keys /\ None \notin Nat /\ None \notin BOOLEAN /\ None \notin Codes /\ None \notin McpWaits
    /\ \A s \in Cases :
          /\ s.client \in [Conns -> {"host", "stdio", "own", "bare"}] /\ s.kept \subseteq Mcp!AllPlans
          /\ s.jobs \in Seq(McpJobs) /\ s.calls \in Nat /\ s.faults \in Nat
          /\ \A j \in DOMAIN s.jobs :
                /\ s.jobs[j].by = None /\ s.jobs[j].of = None /\ s.jobs[j].state = "ended"
                /\ s.jobs[j].done \subseteq s.jobs[j].plan.outs /\ s.jobs[j].at = None

\* A damaged body is no answer and no file is no body; config.py:25 allows 0 to 5 retries.
ASSUME FetchAssumption ==
    /\ Requests \in Nat /\ MaxUpstream \in Nat
    /\ Torn # Missing /\ {Torn, Missing} \cap Replay!Versions = {}
    /\ Retries \in 0..5 /\ MaxChunks \in Nat /\ Waits \subseteq Nat

ASSUME FutureAssumption == Supply \in Nat \ {0} /\ None \notin Nat

replayVars == <<upstream, bodies, checksums, step, hashed, answers, writes, raced, recordings, tears>>
httpVars == <<method, host, conditional, attempt, chunks, request, outcome, sent, slept, statuses>>
futureVars == <<asked, holdings, version, plan, chain, run, broken, spent>>
mcpVars == <<client, kept, submitted, enqueued, recovered, book, call, reply, yes, calls, mishaps>>
jobVars == <<vars, lockVars, execAllVars>>
fetchVars == <<replayVars, httpVars, futureVars>>
all == <<subject, jobVars, fetchVars, mcpVars>>

Apart == e1 :> f1 @@ e2 :> f2
Homes == r1 :> p1 @@ r2 :> p1 @@ r3 :> p2
\* A chain: every task is shared by two outputs, and the two in the middle need two tasks.
Chained == <<{1}, {1, 2}, {2, 4}, {4}>>
Symmetric ==
    Permutations({d1, d2}) \cup Permutations({r1, r2}) \cup Permutations({j1, j2})

RootInit ==
    /\ subject \in {"store", "lock", "job", "replay", "http", "future", "mcp"}
    /\ Init /\ LockInit
    /\ ExecInit /\ (subject # "job" => ahead = Outputs)
    /\ Replay!Init
    /\ Http!Init /\ (subject # "http" => method = "GET" /\ host = "other" /\ ~conditional)
    /\ Future!Init
    /\ subject # "future" => /\ asked = [method |-> "signals", profile |-> "typical", wanted |-> {1}, legacy |-> FALSE]
                             /\ holdings = [n \in Future!Names |-> Grids]
    /\ Mcp!Init /\ (subject # "mcp" => client[g1] = "stdio")
RootNext ==
    \/ subject = "store" /\ Next /\ UNCHANGED <<subject, lockVars, execAllVars, fetchVars, mcpVars>>
    \/ subject = "lock" /\ LockNext /\ UNCHANGED <<subject, vars, execAllVars, fetchVars, mcpVars>>
    \/ subject = "job" /\ ExecNext /\ UNCHANGED <<subject, vars, lockVars, fetchVars, mcpVars>>
    \/ subject = "replay" /\ Replay!Next /\ UNCHANGED <<subject, jobVars, httpVars, futureVars, mcpVars>>
    \/ subject = "http" /\ Http!Next /\ UNCHANGED <<subject, jobVars, replayVars, futureVars, mcpVars>>
    \/ subject = "future" /\ Future!Next /\ UNCHANGED <<subject, jobVars, replayVars, httpVars, mcpVars>>
    \/ subject = "mcp" /\ Mcp!Next /\ UNCHANGED <<subject, jobVars, fetchVars>>
RootSpec == RootInit /\ [][RootNext]_all

\* What a parse gets of a provider: "replay exact HTTP bytes" (_cached_fetch), that is answers the
\* provider once gave in full, whatever crashes, damaged files and threads that record the same
\* task do (unless a file is damaged between its check and its use); and a request of HttpClient is sent at most twice the configured attempts, and its
\* result fits the answers it got.
RepliesAreExact == Replay!RepliesAreExact /\ Http!RequestsAreBounded

\* Every file of future weather is made of the member its output was planned for, in the version
\* that was planned, across subplans, resumes and retries (subplan, retry_plan); a retry makes no
\* file again that resolves, and the rows of a finished job tell what was made (_bundle).
FutureHolds == subject = "future" => Future!FutureHolds

\* No job runs weather that its client's person was not asked about (confirm_submission), whatever
\* other connections, restarts and retries do while the answer is awaited; an answer of a tool is
\* bounded, and an error tells nothing of the input.
McpHolds == subject = "mcp" => Mcp!McpHolds
=============================================================================
