# OpenEPW: a TLA+ model of the weather service and its agent

OpenEPW discovers hourly weather data sources, plans and executes their retrieval, writes EPW
files with provenance, and serves this through Python, a CLI, a REST API, an MCP server and a
guided chat agent.  This directory holds TLA+ modules translated from its source, TLC
configurations that check them on small instances, and TLAPS proofs about them for every value of
the constants.  Paths below are relative to `src/openepw/` unless they start with `docs/`,
`tests/`, `scripts/` or `web/`.

1. [Inventory](#1-inventory): the parts of the system and what can go wrong in them
2. [Modules](#2-modules): what models what
3. [Runs](#3-runs): what TLC checks, with which bounds
4. [Proofs](#4-proofs): what holds for every value of the constants, and why
5. [Findings](#5-findings): where the code and its documents disagree
6. [Not modelled](#6-not-modelled)
7. [Plan](#7-plan)

`PROJECT.json` is the machine-readable index: components, runs, mutants, the map from definitions
to source lines, hazards, findings and theorems.

    tlc -workers 2 -config JobsPool.cfg MCJobRunner.tla      # one run
    tlapm JobRunnerProofs.tla                                # one proof module

## 1. Inventory

One server process (`api/app.py:create_app`) builds a `WeatherService`, a `JobStore`, a
`JobRunner` and, when the chat is enabled, an `AgentHost` over one *data root* directory.  Requests
are served by a thread pool; jobs run on a thread pool of their own; agent turns on a third; one
more thread follows the jobs of chat sessions.  `openepw mcp` and the CLI build the same service in
a process of their own, on the same data root if the user says so.  The catalog that planning
reads is installed before the server starts, refreshed by queries, and made by scripts that collect
and measure evidence beforehand.

| Component | State | Operations | Module |
| --- | --- | --- | --- |
| **Job store** `jobs/store.py` | SQLite: `jobs` rows (plan, key, serialised `WeatherJob`), `items` rows | `submit`, `get`, `save`, `cancel`, `complete_item`, `unfinished`; one transaction each, except `cancel` (two) | JobStore |
| **Job runner** `jobs/worker.py` | `active` set, executor queue, each run's local `WeatherJob` | `submit`, `enqueue`, `recover`, `run`, `retry_plan`, `retry_failed`, `close` | JobRunner, RunnerLock |
| **Runner lock** `jobs/lock.py` | `.runner.lock`, `_held` count per process | `acquire_runner_lock`, `release_runner_lock` | RunnerLock |
| **Execution** `service.py:execute`, `planning/batch.py` | shared task results, issues, batch rows | fetch, combine, convert, bundle, finalize rows | JobExecution |
| **Raw cache, HTTP** `service.py:_cached_fetch`, `providers/http.py` | recorded bodies and checksums | record, replay; attempts, redirect, size limit | ResponseCache, HttpClient |
| **Future weather** `planning/future.py`, `generation/*` | plans of members, items of older versions | plan, subplan, fetch members, make, retry | FutureWeather |
| **Artifact store** `artifacts/*` | files and records | `write`, `register_*`, `resolve`, compact exports | ArtifactStore |
| **Catalog** `availability/store.py`, `refresh.py` | generations, the active one, `stale_sources`, per-source locks | `stage`, `activate`, `refresh_if_relevant` | CatalogRefresh |
| **Catalog installation** `deploy.py` | marker, mask folders, active generation | install, upgrade, roll back | CatalogInstall |
| **Catalog index** `availability/catalog_index.py` | saved index, record cache | build, save, restore, look up | CatalogIndex |
| **Availability map** `availability/map_layers.py`, `service.py:catalog_map_payload` | layers of the last generation, packed map in memory and beside the generation | ask, draw, save, reuse | AvailabilityMap |
| **Catalog answers** `availability/evaluate.py`, `coverage.py`, `recommend.py` | none | evidence, masks, order of options | Eligibility, CoverageMask |
| **Planning** `service.py:discover`, `plan` | none (content-addressed plan store) | candidates, rows, hybrids, limits | WeatherPlanning |
| **Evidence** `scripts/*`, `availability/package.py`, `stage1.py` | collection ledger, snapshots, masks, packages | collect, analyse, import; acquire grids, derive masks; export, load, stage | ResearchLedger, GridEvidence, DomainMask, CatalogPackage |
| **Map points** `api/app.py:catalog_point` | a dictionary shared by threads | answer, clear | PointCache |
| **Site gate, use** `api/site_gate.py`, `agent/web.py` | attempts, cookie, hits, spend | check, record | SiteGate, UsageLimits |
| **Agent host** `agent/web.py` | sessions in SQLite, `busy` set, followed sessions, running jobs per owner | `create`, `submit`, `_run`, `follow_once` | AgentHost |
| **Agent session** `agent/session.py`, `state.py`, `host.py`, `guided.py`, `gates.py` | facts, open form, snapshots, strikes, mode | text, answer, Back, mode switch, new request, run, retry | AgentHost, AgentTurn, AgentRequest |
| **Model policy** `agent/policy_model.py` | transcript, pending call | bounded loop of tool calls | AgentTurn, AgentRequest |
| **Files of a session** `agent/outputs.py`, `jobs/outputs.py` | none of its own: jobs of a session | list, pick, download, retry | SessionOutputs |
| **MCP** `mcp/*`, `agent/mcp_port.py` | approvals of a client | tools, confirmation, summaries | McpServer, AgentHost |
| **Evaluation** `agent/evals/*` | records and summary of a run | trials, budget, comparison | EvalRun |
| **Chat page** `web/chat-ui`, `api/agent_routes.py` | session and transcript a page shows | open, send, stream, reconnect, start over | ChatPage |
| Providers, places, EPW, QC, visualization, CLI, forms and maps of the page | none that outlives a call | parsing, numerics, rendering | section 6 |

What is hard here, and what each part must get right:

- **Interleaving on one row.**  A job's record is read once per run, kept for the whole run and
  written back whole, while request threads cancel and retry the same job.
- **Crash and restart.**  Items are durable one by one, the record only at certain points; a catalog
  is switched by a transaction, its masks by renaming folders, its marker by a file; a collection
  may be killed between a request and its answer.  What was made must stay, what was spent must
  be known, and what is served must be of one piece.
- **Several owners.**  Runners of two processes over one data root; sessions that share one book of
  approvals; request threads over one unlocked dictionary; connections that wait for a confirmation
  while the job they asked about changes or is asked to stop.
- **Check then act.**  The catalog refresh, the exports, the limit on running jobs and the spend
  caps read first and write later.
- **Long conversations.**  Place, years, products and plans invalidate one another; every call of
  the model needs exactly one result although forms, Back, mode switches, strikes, failures and
  crashes come between; a page must show all this from answers and a stream that overtake each
  other.
- **Boundaries.**  Cells at the date line, chunks of a refinement, windows of time, byte and request
  budgets, attempts, numbers a person has already read.
- **Something must happen.**  Every job finishes, every query returns, every run is reported, every
  page settles.

The hazards at their lines are in `PROJECT.json` under `hazards`, each with the properties that
would catch it.

## 2. Modules

Conventions: a VARIABLE carries the source's name where there is one (`active`, `stale`, `held`,
`pending`, `following`); a multi-step handler is split exactly where it touches state that others
can touch, where it awaits, or where it may be killed, and a `pc`, `stage` or `phase` says where it
is.  Operators marked *faulty* in a comment are not part of any behaviour: they are plausible wrong
versions of the definition after them, kept to show that each property would notice (`mutants` in
PROJECT.json).

Components that share no state are checked in one run, to keep the number of runs small: the MC
module has a variable `subject`, chosen in Init, and every step is of that component while the
others stay as they start.  What one component takes from another is then an input or an outcome
of the model (a fetch fails, a job finishes, a generation is activated).

### Jobs: JobStore, JobRunner, JobContract (MCJobRunner)

`JobStore` has one operator per method of the SQLite store.  `rows` are the columns written once
(plan, key, parent), `jobs` the serialised `WeatherJob`, `items` the bundle of each output, reduced
to what `worker.py` distinguishes: weather, no weather, cut short by cancellation, or files that no
longer verify.  `cancel` is `CancelRead` then `CancelSave` because `store.cancel` opens two
transactions.

`JobRunner` adds the process: request threads (`Submit`, `Enqueue`, `RetryPlan`, `SubmitRetry`,
`RefuseRetry`, `CancelRead`, `CancelSave`), pool threads and the process itself (`Crash`,
`Recover`, `Damage` of files from outside).  A worker's `run` is split at each access to the store:

    Take -> Start -> Load -> (Pick -> Execute | ExecuteRaises -> Record -> Progress)*
         -> LeaveLoop -> Collect -> Bundle | BundleRaises -> Finish -> Discard

`copy[w]` is the local `job` of `run`, which every `store.save` writes back; `Merged` is the only
merge `save` does (it keeps a cancellation).  A plan is the set of its outputs and whether it is
*flawed* (error issues or rows that could not be planned).

`JobContract` is what a client that polls and reads outputs may rely on, without threads or
records.  `JobRunner!ImplementsContract` maps the record's state, the item rows and the flag to it.

### Data root: RunnerLock, ArtifactStore, JobExecution, ResponseCache, HttpClient, FutureWeather, McpServer (MCDataRoot)

`RunnerLock` is `acquire_runner_lock` and `release_runner_lock` with the life of several
`JobRunner`s in several processes: acquire or be refused (`DATA_ROOT_BUSY`), resume unfinished
jobs, submit, run, close (the pool drains before the lock is released), process death.  The code
builds one runner per process; two in one process would share the lock by design (`_held`), so
`OneProcessWorks` is stated for processes, which is what the lock promises.

`ArtifactStore` has three ways to store a file and its record, told apart by where identity and
folder come from: `Write` (random id, own folder), `RegisterBaseline` (id and folder from the
content), `Export` (id from the exported jobs, folder of the last one, bytes that depend on the
time), which only the threads in `Exporters` are asked for.  Each is a sequence of atomic
replacements with thread switches and crashes in between.  A checksum is the body itself.

`JobExecution` is one run, output by output and task by task: the loop of `JobRunner.run` around
`WeatherService.execute`, the results kept for later outputs (`shared`, `pending`, `results`), the
issues by the tasks and outputs they name, and the batch rows derived at the end.  Init covers a
fresh run and every run resumed after a crash.  `JobRunner` and `JobExecution` see the same loop
from two sides: the first keeps every access to the store and forgets tasks, the second keeps
tasks and forgets the store.

`ResponseCache` is `_cached_fetch` by two threads that may fetch one task: a body is read and hashed
(`Hash`), compared with its checksum (`Check`) and read a second time for the parse (`Read`), as
service.py:1099-1101 does, or asked for and written after the parse, one file at a time, with
crashes, files torn at any of these moments and an upstream that changes.  `HttpClient` is one `request`: attempts,
waits, the redirect that begins the attempts again, refusals and the size limit.

`FutureWeather` is a plan of future weather from `plan_future` through job, resume and retries to the
rows of the manifest: one task whose result is a list of members, outputs that find their member by
an index or a name, subplans of subplans, items and plans of older versions, a source that changes.

`McpServer`: a tool is one step of the event loop, except submission and retry, which await the
client's answer; two connections, a restart, damaged files, cancelled calls.  `Cancel` only sets
the job's flag, as the code does: its run goes on (`Begin`, `Make`, `End`), may still produce, is resumed
after a restart, and a retry is refused until it is over.  (That cancelling reads and writes in two
transactions is finding 1 and `JobRunner`'s matter; here it is one step.)  A client is the
guided host's port, a client of one's own with a person, or one that approves before.  Uploads,
registered files and inspected artifacts are answers of tools.

### Catalog: CatalogRefresh, CatalogInstall, PointCache, CatalogPackage, CatalogIndex, AvailabilityMap (MCCatalog)

`CatalogRefresh` is `refresh_if_relevant` for the sources a query depends on, one at a time under
the source's lock: read the active generation and its age (`Take`), ask the provider (`Unchanged`,
`Changed`), stage and activate (`Activate`), clear the stale mark (`Clear`), or fail at any point
(`Fail`).  A generation is a function from sources to version and check time.  `checked` is a
history variable.

`CatalogInstall` is `deploy.py`: the pinned package is fetched and verified, mask folders are
exchanged by two renames, the generation is activated, the marker written; each step may fail
(with the roll back the code does) or be the last of the process.

`PointCache` is `catalog_point` by two request threads, each access to the shared dictionary a step.  Two
history variables say which requests met another one and which activations fell inside a request:
in their terms `AnswersExplained` says what the comment at api/app.py:175 promises too much of.

`AvailabilityMap` is the map a browser asks for: `catalog_map_payload` by two threads, in steps that
read one file or one attribute each (generation, manifests, remembered map, saved map, layers, mask
files, save, remember), while refreshes, imports that write the masks file by file, and restarts
come between.  A kept map is the generation and mask versions it was drawn from; `Layers` computes
what it shows (stations by years with reports, grids and domains as merged boxes, extents).

`CatalogPackage`: tables and a descriptor written over an older package, loaded, staged.
`CatalogIndex`: the saved index, its lazy tables and cache against `MemoryAnswer`, a scan of all
records.

### Answers: Eligibility, CoverageMask, WeatherPlanning, AgentRequest (MCAnswers)

The first three are algorithms: a behaviour picks an input, computes, and stops.  `Eligibility` is
what `_assess` concludes from the evidence entries of an option, which `AnswersProofs` proves sound
for any entries; `CoverageMask` loads masks and
looks points up in half cells; `WeatherPlanning` takes requests (points that collide or repeat,
selections with a product or a variant, providers, a dataset, hybrids, limits) with every finding of
the catalog to ranked options, of which a list of bounded length is kept, candidates, rows, outputs
and the validators; a discovery may be handed over instead of made (`RefuseStale` is PLAN_STALE).  They are compared with definitions in other terms: evidence rather than entries,
squares of the globe rather than runs, demands rather than rows.

`AgentRequest` has the facts of a session (place, years, kind, offers, products, plans) and what each
input, form, rule and call of the model (lookups included, which change none) does to them.  `agreed`, a history variable, is what the
person said yes to.  `AnswersProofs` proves that nothing else is ever started, for any places,
products, periods and texts.

### Evidence: ResearchLedger, GridEvidence, DomainMask (MCEvidence, extended by MCAnswers)

`ResearchLedger`: the collector makes each approved request once, reserving budgets in a saved
ledger before each hop; the analysis and the import check what was saved.  `GridEvidence`: one
published grid read in byte ranges of one version, and the three files that pin each other.
`AnswersProofs` proves both for any approved batch, any caps and versions and any number of deaths.
`DomainMask`: flooding, nearness, edge band and chunks of the PVGIS mask and the ERA5-Land runs.  The
refusal of a refinement that fails `REFINE_CHECKS` (pvgis_mask.py:232), twelve fixed places, is left out.

### Agent host: AgentHost (MCAgentHost)

`AgentHost` is the web host and the part of a session that plans, runs and follows jobs.  An input is
checked and queued (`Ask`/`Queue` for the Run and Retry buttons, whose limit check and queueing are two
critical sections; `Send` for the rest, a run that is typed included, which no limit checks), worked on by one turn per session on a copy of its record (`live`),
and saved when a form opens (`Show`), at the end (`Save`) and before the session is free again
(`Record`).  `Run` and `RetryRun` go through their plans with
`Approves -> Confirm -> Submit -> Settle`, or `Fails`; each is a separate step because other
sessions' turns use the same approval book.  `Wake`, `Load`, `Decide`, `Rest` are the follower
thread, which loads each record without the session's lock.  `AgentHostProofs` proves its safety
properties for any number of sessions, plans, inputs and failing calls.

### Chat: SiteGate, UsageLimits, AgentTurn, SessionOutputs, EvalRun (MCChat), ChatPage (MCChatPage)

`SiteGate` and `UsageLimits` are windows over a clock.  `AgentTurn` is a conversation: forms and who
asked them, snapshots for Back, strikes and what the limit brings, mode switches, the model's loop
with its calls, results, questions, step limit and failures, and a crash at any step.  What the
facts say is left open there: wherever the rules would look at them, every form they could open is
possible.  `AgentTurnProofs` proves what it says of strikes, and that calls and results stay
paired, for any profiles and numbers of inputs and calls.

`SessionOutputs`: rows of files over the jobs of several requests, which equal requests share, numbers, follow-up questions,
retry form and retries, listings and downloads by number that the model asks for, with a death
between two submissions.

`EvalRun`: live, scripted and guided runs; trials of the selected tasks under a budget, retried provider failures, refusals, deaths,
records, summary, baseline and exit code.  What a grader says of a trial is a choice.

`ChatPage` is the page and its server: a session is the number of its saves and of its events; the
answer to an input, the frames of the stream and the opening of a session arrive in any order;
reconnects, reloads, starting over, a failing request and a restart.  `ChatPageProofs` proves that its
transcript is true, for any number of sessions, events, faults and frames on the wire.

## 3. Runs

Every run finishes within five minutes (2 workers); the largest, Chat and DataRoot, take two to four.  Deadlock checking is
off (`CHECK_DEADLOCK FALSE`): a bound on events or the end of the work leaves nothing to do.

| Run | Instance | Shows |
| --- | --- | --- |
| JobsPool | 2 workers, 2 request threads, 2 jobs of 1 output, 1 crash, 1 cancel, symmetry | `SingleRun`, `KeyNamesOneJob`, `NoOrphan`, `CancelSticks` |
| JobsContract | 1 job of 2 outputs, plan with or without flaw; 1 crash, 1 cancel, 1 damaged file, 1 failing bundle | `ResultsAreTrue`, `ProducedKept`, `ImplementsContract` |
| JobsFinish | a job of 2 outputs and its retry, 1 worker, 1 crash, fairness | `RetryIsDisjoint`, `EveryJobFinishes` |
| DataRoot | 2 threads with 2 documents, 1 baseline, 2 exports, 1 damage; 3 runners in 2 processes, 2 jobs; 4 outputs in a chain of 3 shared tasks, any resumed state; 2 threads, 1 task of 2 answers, 1 torn file; 1 request with 2 retries and a redirect; plans of up to 2 members, 1 fault, crash, change and retry; 2 MCP connections of 3 kinds, 3 calls, 1 fault | `DocumentsResolve`, `ExportsResolve`, `OneProcessWorks`, `FetchedOnce`, `FailuresAreShown`, `RepliesAreExact`, `FutureHolds`, `McpHolds` |
| Catalog | 2 threads, 2 sources (one ages at every step of time, one never), time to 4, 1 publication, 3 queries, fairness; 2 packages, 4 starts, 1 death; 2 request threads with 4 requests, 2 points, 3 generations, a cache of 1; 6 packages, 2 exports, 1 fault; an index of 2 generations of 6 products; maps of 3 generations, 2 answers together with 1 change or one at a time with 2 | `OneChecker`, `FetchedOncePerCadence`, `ServesOneCatalog`, `CatalogIsWhole`, `EveryQueryReturns` |
| Answers | questions about 3 years and 2 windows with up to 2 entries; masks on a 2 by 4 grid; 14 requests of up to 3 points and 2 of other discoveries, with 24 findings of 4 items of which 3 are kept; 6 inputs about 2 places and 3 products; 3 batches of 2 requests with a death and a loss; 5 versions of a grid, 3 runs; fields of 3 rows by 6 | `SupportIsEarned`, `MasksAreTrue`, `PlanHolds`, `EvidenceHolds`, `Consented` |
| HostRequests | 1 session, 2 plans, 4 inputs of all twelve kinds, 1 failing call | `JobsRemembered`, `RunsWhatWasShown`, `BackNeverCrosses` |
| HostSessions | 2 people with a session each whose requests lead to one plan, 4 inputs, 1 failing call, 1 crash, fairness | `NoApprovalIsLeft`, `EveryRunIsReported` |
| Chat | 1 client, 2 passwords, window 2, time to 5; 2 sessions of 1 person, 4 calls; a conversation of up to 4 inputs and 3 calls of the model under 4 security profiles, 1 crash; 2 outputs, up to 3 jobs, a cancel, a damage or a death; up to 3 evaluation runs of 2 tasks | `LimitsHold`, `CallsArePaired`, `StrikesStick`, `OutputsHold`, `EvalHolds` |
| Page | 2 sessions of a page, at most 2 frames on the wire, budgets of inputs, failures, reloads and 1 restart, fairness | `TranscriptIsTrue`, `PageSettles` |
| JobsCancelLoses | 1 job, 1 cancel | finding: `CancelKeepsResults` |
| CatalogLoses | 2 threads, 2 sources that age together | finding: `RetainsUnrelated` |

Several properties are conjunctions of what their components promise; each conjunct is stated and
explained in its component, and several have a mutant of their own.

| Property | Conjuncts |
| --- | --- |
| `ResultsAreTrue` | `TerminalIsTruthful` (state and counts of a finished record), `BundleIsBacked` (its bundle) |
| `ServesOneCatalog` | `CatalogInstall`: `AllOrNothing`, `MarkerIsTrue`; `PointCache`: `AnswersExplained` |
| `RepliesAreExact` | `ResponseCache!RepliesAreExact`, `HttpClient!RequestsAreBounded` |
| `SupportIsEarned` | `SupportedIsEvidenced`, `DueOnlyWeakens` of Eligibility |
| `MasksAreTrue` | `CoverageMask!WhereIsTrue`, `DomainMask!DomainHolds` |
| `PlanHolds` | `PlanAccounts`, `OutputsFetchWhatWasAsked`, `BestIsPlanned` of WeatherPlanning |
| `EvidenceHolds` | `ResearchLedger`: `BudgetsHold`, `NothingTwice`, `EvidenceIsWhole`; `GridEvidence`: `MaskIsOfOneVersion`, `GivenIsWhole`, `WithinApproval`, `ViewIsCautious` |
| `CatalogIsWhole` | `CatalogPackage!PackageIsWhole`, `CatalogIndex!AnswersAgree`; `AvailabilityMap`: `AnswersAreCurrent`, and every map in `Honest` |
| `LimitsHold` | `SiteGate!GateHolds`, `UsageLimits!UseIsLimited` |

### Bounds

*Jobs.*  The hazards are between two threads on one job (one worker and one canceller; two
submitters of one key; a worker and the enqueuer), and between two runs of one job separated by one
crash.  JobsPool has two of everything that contends; two jobs are needed for the queue to hold
something while a worker is busy.  Two outputs are the least for partial reuse (JobsContract) and for
a retry that differs from its parent (JobsFinish).  JobsFinish has no cancel because of finding 1: a
finished parent that a stale cancel reopens would overlap with its retry.

*Data root.*  One thread exports: with two, `ExportsResolve` does not hold (section 5).  The middle
outputs of the chain share a task with each neighbour, so a count that goes wrong for one neighbour
shows for the other; the last task is provisional and must not be shared.  A task of two answers
is the least for a prefix that replays; two members are the least for an index that shifts when the
other output is left out; one retry of a resumed job makes a subplan of a subplan.

*Catalog.*  Two threads are the least that contend for a source's lock, two sources the least for a
query that takes several locks.  The second source never ages within the run: where two sources
are refreshed at once `FetchedOncePerCadence` does not hold (finding 2).  Four starts with two
packages cover install, upgrade, failed upgrade and another start after it; the properties are stated
for starts that did not end inside the exchange (section 5).  Two requests for
points and two activations are the least with which an answer is carried over one and found after it;
a cache of one entry makes the limit empty it under the other request.  Two requests for the map overlap in every way with one refresh, import or restart;
with two of those they come one after the other, which is enough for a map saved under an
old stamp to be read by a later request.

*Answers.*  Two entries are the least that can disagree, and two adjacent or overlapping runs the least
that `mask_runs` joins; four columns let a neighbour of the first column be the last.  Three points
and limits of four outputs and six tasks let a plan pass and fail each limit; of four items three are
kept, so an excluded, an uncertain and a supported one each are the one that is left out.  Six inputs reach
from a first place over products, years and plans to a second place and back.

*Evidence.*  A page, its correction and a probe with a tight quota cover the kinds of requests the
collector treats apart; one death may fall between any two steps.  Five versions differ in rows,
layout, validity and header length, so each check of `acquire_meta` refuses one; the table is
published in up to two spans, and a change may fall between them.  Fields of three by six cells with
a passage only across the date line are the smallest on which a cut run shows.

*Agent.*  Four inputs suffice for fill, revise or change, run and back in any order, which is the
longest chain one plan review goes through.  HostSessions has the two inputs that start jobs, in two
sessions whose equal plans meet in the one book of approvals; what fails there, with two sessions of
one person, with retries or with new requests is in section 5.  In AgentTurn a profile comes with its own
bound: many inputs with one call of the model, or fewer inputs with several calls, which is where
the two kinds of trouble (Back and switches; calls and fall backs) lie.  In ChatPage the budgets
combine one disturbance with the others one or two at a time.

### Fairness

- `JobRunner!FairSpec`: a pool thread that can step does; a request thread that has stored a job
  enqueues it; a dead process is restarted.  The executor's threads and the ASGI server do the first
  two; the third is the deployment's restart policy.  Nothing is assumed about clients sending
  requests, providers succeeding or cancellations.
- `MCCatalog!FairCatalogSpec`: a thread inside a query steps on; a provider request answers or times
  out (`httpx` timeouts), which is `Unchanged`, `Changed` or `Fail`.
- `AgentHost!FairSpec`: turns step, the follower thread steps, and jobs finish, which is
  `EveryJobFinishes` of the runner.
- `ChatPage!Spec`: the browser handles what arrives (opening, answers, frames), the server's stream
  loop steps and ends after `STREAM_SECONDS` at the latest, and turns end (the host bounds them).
  Nothing is assumed about the person, job events, failures or restarts.

## 4. Proofs

The proof modules EXTEND their component and TLAPS.  All constants are arbitrary under the named
assumptions (`StoreAssumption`, `RunnerAssumption`, `LockAssumption`, `CatalogAssumption`,
`ArtifactAssumption`, `ExecutionAssumption`, `FetchAssumption`, `FutureAssumption`, `McpAssumption`, `HostAssumption`, `TurnAssumption`, `TextAssumption`, `QuestionAssumption`,
`LedgerAssumption`, `GridAssumption`, `PageAssumption`): finite sets of
jobs, outputs, sessions and plans, numbered outputs and calls, bounds that are numbers, a strike
limit of at least one (`StrikeSettings.limit` starts at one), and values like `None` that are not
confused with others.  `TextAssumption` says that a text names years, a kind and a place of the
instance, or none, `QuestionAssumption` that the years of a question and of its evidence are
finite sets of numbers.  `LedgerAssumption` says that the caps of an approved request are numbers
and that requests which are counted together are limited all or none: collector.py counts those of
onebuilding, the probes of each provider and the listings of cmip6, each with a limit for every
request of the kind.  `GridAssumption` says that caps and spans are numbers and that the approval
lets at least the first request through (it is one of 80).  TLC evaluates them in each run.

| Module | Theorems | Argument |
| --- | --- | --- |
| JobRunnerProofs | `TypeCorrect`, `Invariance`, `OneRunPerJob`, `CancellationSticks`, `KeysAreUnique`, `RunnerImplementsContract` | `Inv`: the pool's jobs are all in `active` (`ActiveCovers`), which `Enqueue` tests; a cancel writes back only records it read unfinished (`ReadsUnfinished`); a worker's local record is "running" until `Bundle`, its flag never ahead of the table, and its weather items have rows (`WorkersKnow`).  `SingleRun` alone is not inductive: `Take` could run a queued job that another worker still holds if `active` did not cover both. The refinement goes action by action; `Finish` is the step that needs `WorkersKnow`, because the contract lets a job end "completed" only with all its outputs. |
| JobRunnerProofs | `NoJobIsOrphaned` | `OrphanInv`, under the condition that nothing was lost: items that are recorded can be read back (`ItemsStand`), so a run reaches its `Finish`; a run that is over leaves its record finished or asked to stop (`RunsEnd`); every unfinished job is `Covered`.  `NoOrphan` alone is not inductive: `Discard` takes a job out of `active`, and only `RunsEnd` says that it is finished by then. |
| JobRunnerProofs | `ProducedIsKept` | `Holds`: a worker holds every weather item its job recorded and executes only what it does not hold, for `Record` is the one step that writes an item (`ItemChanges`).  That no other worker records for the same job in between is `SingleRun`. |
| JobRunnerProofs | `FinishedRecordsAreTrue` | `RecordInv`: each finished record is `Honest` about its bundle and `Backed` by items, a run has a bundle only between `Bundle` and `Finish` (`Reports`), and a stale cancel carries none (`ReadsBare`).  The counts are cardinalities of `Produced` and of the rest of the plan (`BundleIsHonest`). |
| JobRunnerProofs | `RetriesAreDisjoint` | `RetryInv`, on top of `Inv`: while no cancel was spent, no client is inside one, so a finished record stays as it is (`RecordChanges`) and no worker records for it (`BarrenStays`); what a client is about to submit as a retry, and what a retry was submitted with, is then never produced by its parent.  The condition is needed: a stale cancel reopens a finished job, whose second run may then produce what its retry was asked for (section 5). |
| DataRootProofs | `LockIsSound`, `OneProcessRunsJobs` | `LockInv`: `_held` is the cardinality of the runners that hold, the file is locked by p exactly when that set is not empty, only holders have a pool.  Cardinality of a set that gains or loses one runner is the lemma. |
| DataRootProofs | `RepliesAreAlwaysExact` | `ReplayInv`: a body in memory or on disk is a version the provider once had, or torn, and a checksum on disk is that of such a version, so what agrees with its checksum is exact when it is hashed.  The body is read again after that: `LooksSound` says that one which agreed was whole, so it is exact still unless it was damaged just then (`raced`); what is secret has no body.  `HttpInv`: the attempts sent since the last redirect and the waits are bounded by `attempt`, and an outcome fits the statuses seen.  The waits double with the attempt; that they stay below 30 seconds uses the limit of five retries of config.py. |
| DataRootProofs | `McpAlwaysHolds` | `McpInv`: an approval is in the book, granted to a call that waits, or spent on a job (`Spent`), and a step moves it from one to the next; a call that waits rests on a plan of weather with outputs, and a retry that waits on a job that has ended (`WaitSound`), so what it lacked when the person was asked it still lacks; a job that has not ended is with the runner (`Queued`), also one that is asked to stop, and it only moves towards its end (`JobsMove`), so what a retry found over stays over while its person is asked.  `Consented` alone is not inductive: `Confirmed` submits what was asked about before, and only `WaitSound` and `Spent` say that it may.  The pages of a plan are cuts of one sequence (`CutsJoin`). |
| DataRootProofs | `FutureAlwaysHolds` | `FutureInv`: an output has its member's number as its index, or as its place in the plan while it has no index (`SoundOutput`), and a subplan turns the second into the first (`SubplansCarry`), so it does not matter how often outputs are renumbered.  A run has the members that were planned (`SoundMembers`), and what it does not keep of its job's items has lost a file; a job it works on has not ended, so no retry of it exists whose promise a new item could break (`JobChanges`).  `FromItsMember` alone is not inductive: only the indexes say which member the next file gets. |
| CatalogProofs | `CatalogIsSound`, `OneThreadChecksASource`, `OneSourceIsCheckedOnce` | `CatalogInv`: a thread past `Take` holds its source's lock.  For one source, the generation a thread read is still active when it fetches, because activation needs the lock. |
| CatalogProofs | `OneCatalogIsServed` | `InstallInv`: from the exchange of the masks to the activation of the catalog nothing is vouched for and what the start found can be put back; before and after it masks, catalog and marker agree, unless a start ended inside.  `PointInv`: the cache holds nothing older than its mark without an activation that a request straddled (`Explains`); a request that met no other finds the cache as it left it (`Met`), and what it reads is explained for the generation it read (`Relies`).  `MarkerIsTrue` alone is not inductive: `RollBack` restores what only `found` and `previous` tell.  It holds for any number of request threads, entries and activations. |
| DataRootProofs | `ArtifactsAreSound`, `DocumentsAlwaysResolve` | `ArtifactInv`: documents of different ids share no file, and every write of a document's file or record carries the one body its id stands for. |
| DataRootProofs | `ExportsAlwaysResolve` | `ExportInv`: between its `Move` and its record, the exporting thread knows the checksum of the file in the folder, and nobody else writes it.  The hypotheses `OneExporter` and `FoldersApart` are the two conditions without which the property is false (section 5). |
| JobExecutionProofs | `ExecutionIsSound`, `SharedTasksAreFetchedOnce` | `ExecInv`: `pending` is the demand of the outputs to come, and a final task that was fetched is in `results`, or is needed by nobody else. |
| JobExecutionProofs | `FailuresAreAlwaysShown` | `FailInv`: an output that failed and was not made is related to an issue (`FailuresAreRelated`) from the moment it fails; the row, derived once at the end, reads just that (`RelatedRow`). |
| AgentHostProofs | `HostIsTyped` | `HostTypes`: every plan, job and approval that a record, a snapshot, a copy or a turn names belongs to its own session (`OwnInv`), and a turn that has not begun or is over left nothing unsaved (`NothingUnsaved`).  The steps of a turn fall in few classes (`WritesMove`, `TurnsMove`), which the later proofs cite. |
| AgentHostProofs | `ShownBeforeRun` | `ShownInv`: while a turn has something left to submit, the saved form is the review, and what is left are plans of that form, or retries of its jobs.  It holds because `Run` compares the plans of the facts with those of the form before it begins, and nothing else writes the session's record while its turn submits. |
| AgentHostProofs | `NoApprovalOutlives` | An approval enters the book in the step that makes a turn ask, and a turn that submits leaves it only through a step that takes its hash out, answered or not.  No condition on the sessions' plans is needed: of two sessions with one plan the one that is later finds nothing to take out.  That it is then declined is in section 5. |
| AgentHostProofs | `StartedIsRemembered`, `BackRemembers` | `Remembered`: a started job is named by the record, or by the turn that is about to record it; memory only grows (`MemoryGrows`), over new requests, changes, Back and failures.  Both are stated for the time before a process death: a death between submission and record loses the job, and Back may then cross it (section 5). |
| AgentTurnProofs | `SessionsAreTyped`, `StrikesAlwaysStick` | `StrikeInv`: the stored session, where Back and a restart go, agrees with the one in memory on strikes, end and the mode that holds for good (`Sound`), and a turn that counted a strike is marked, so a second one does not count.  `StrikesStick` alone is not inductive: Back, a failed turn and a reopening restore what was stored.  Each helper that changes a session either `Keeps` these or is one of the few that strike (`Struck`), so the steps are proved by composition. |
| AgentTurnProofs | `CallsAreAlwaysPaired` | `PairInv`: memory, the stored session and every snapshot are `Proper`: the calls and results of the turn match (`Orderly`), unless a strike tore the turn or the session is guided, and a form of the model asks for the answer of the pending call (`Faithful`).  While a reply is handled, the calls still to do are distinct, of the turn and without a result (`ToDo`).  `CallsArePaired` alone is not inductive: it speaks of the moments when the model is asked and when an input is awaited, while Back, a failed turn and a restart bring back what was stored in between. |
| AnswersProofs | `RequestIsSound`, `ConsentIsNeeded` | `RequestInv`: what the facts hold as approved, chosen (unless a recheck is due) and confirmed is what the person agreed to (`Knows`); every plan is `Granted` by these; a form that asks for the location shows the one under review, also under a summary (`Fits`); and no started plan has a twin that may still start (`NoTwins`), so that `Run`, on the review of the current plans, is the only step that starts one.  Each operation maps such sessions to such sessions (`Follows`).  `Consented` alone is not inductive: when a plan starts, the texts and forms it rests on are long past. |
| AnswersProofs | `SupportIsAlwaysEarned` | What was decided is `Assess` of a question of the instance (`EligibleInv`), and of every well-formed question two lemmas hold.  `SupportedIsVouched`: the entry that decides is the first that says "supported" (`BestIsSaid`), it applies at the point (`AppliesAreEntries`), and what supports vouches for each year asked (`ActualVouches`); had its check been due, the facts would not change any more (`AgelessIsClosed`).  `OverdueWeakens`: what an entry says does not depend on whether it is due (`OverdueSaysTheSame`), and only a window that was not published is undone by it (`UndoneIsFuture`).  That a finite set of years has a greatest one is `GreatestOf`, by well-foundedness of the subset order. |
| AnswersProofs | `EvidenceAlwaysHolds` | `LedgerInv` for the collector.  What crossed the wire, with what is still `Owed` to it, is charged or is a chunk of an error body of a request that is over (`MoneyInv`), and a request under way is on record with just its hops (`FlightSound`), so `Settle` may take back what was not read and a death may not.  What was counted stays under the largest limit of a request that was attempted (`CountInv`): `Reserve` is the one step that adds a hop, and it tests each limit first.  `BudgetsHold` alone is not inductive: between the reservation and its return only `Owed` tells what may still come, and a body has to be whole before its record says so (`WholeInv`).  `GridInv` for the grid: an acquisition past the stale mark is of the version last seen and every part it has is of that version (`RunSound`), so the manifest it writes pins one version (`ManifestSound`). |
| ChatPageProofs | `TranscriptIsAlwaysTrue` | `PageInv`: the stream is that of the session shown (`Follows`), a session that somebody names was created (`Known`), a request under way is about no session the page has come to since (`Apart`), and an event the page lacks is on the wire before every later one (`Complete`).  So the next event on the wire is the next one of the transcript or one it has, and an answer that is late brings back a session that is not the kept one.  `TranscriptIsTrue` alone is not inductive: `Deliver` needs `Complete`, and `Responds` and `Opened` need `Apart`. |

For orientation: the three facts of each proof are named `...Init`, `...Step` (one step per action)
and the theorem that combines them by PTL.  Lemmas about `Cardinality` (adding, removing, counting
parts) rest on the library's `FiniteSetTheorems`.

Only model-checked:

- liveness (`EveryJobFinishes`, `EveryQueryReturns`, `EveryRunIsReported`, `PageSettles`): fairness
  and ENABLED are outside the prover;
- `MasksAreTrue` and `PlanHolds`: masks and plans are compared with their
  definitions over bounded inputs, and what a fold computes for every input needs induction over data, which is outside
  the prover;
- `CatalogIsWhole`, `LimitsHold`, `OutputsHold`, `EvalHolds`: their parts read tables that were
  flattened, sorted and merged, sums of what was spent and summaries of records, which are folds
  over sequences, so they need induction over data too;
- properties that are findings, and what holds only for the instances the findings leave.

## 5. Findings

Each numbered finding is a run that TLC must find violated, about a sentence of a document, comment
or test.

1. **A cancel can undo a finished job** (`JobsCancelLoses`, `CancelKeepsResults`, jobs/store.py:92).
   `cancel` reads the record in one transaction and writes all of it back in another.  When the
   worker finishes in between, the record reads "queued" or "running" again, without its bundle, and
   no thread works on it.  docs/usage.md:135 tells clients to poll until a terminal state and then
   read `bundle`.
2. **Refreshes of different sources lose each other** (`CatalogLoses`, `RetainsUnrelated`,
   availability/refresh.py:65).  The lock is per source, but the whole generation is read before the
   provider is asked and replaced after it.  The second to activate brings back the records, and the
   check time, that the first replaced.  tests/unit/test_availability_store.py:151 is
   `test_refresh_one_source_retains_unrelated_catalog_records`.

### Observations found with TLC

They have no run of their own.  Each gives the formula and how the instance of a run has to be
changed to find it violated.

| Where | What happens | Formula and instance |
| --- | --- | --- |
| jobs/worker.py:240 | Resolving manifests and writing the bundle happen outside the per-output `try`: an exception there leaves the record "running" until the process is restarted | `EveryJobFinishes`, JobsFinish with `MaxFaults = 1` |
| jobs/worker.py:230 | Errors a run recorded before a crash decide the state of the resumed job, which ends "partially_completed" with everything produced; tests/unit/test_stage3a_jobs.py:70 expects "completed" for a resumed job that produced everything | `Finished(j) /\ ~jobs[j].cancel /\ ~rows[j].plan.flawed /\ jobs[j].bundle.weather = rows[j].plan.outputs => jobs[j].state = "completed"`, JobsContract |
| artifacts/export.py:219 | Exports of one folder overwrite each other: an export of a job alone and one of a chain that ends with it have different identities and one file; the first record never resolves again, although artifacts/store.py:99 promises a local artifact "under a stable identifier" | `ExportsResolve`, DataRoot with `Folder` giving both exports one folder |
| artifacts/store.py:119 | Two requests export one job; the one that moves its ZIP last need not be the one that writes the record last | `ExportsResolve`, DataRoot with `Exporters = {t1, t2}` |
| planning/batch.py:60 | The failure of a shared task marks the row of an output that the cancelled run never came to as failed; cf. `test_cancelled_unproduced_row_is_not_claimed_as_failed` in tests/unit/test_stage3a_execution.py:83 | `stage = "done" => \A o \in Outputs \ attempted : rows[o] = "cancelled"`, DataRoot |
| agent/host.py:399 | All sessions share one book of approvals, a set of plan hashes: when two people run the same plan, the first confirmation (or failure, host.py:392) takes the approval of both, and the second, who pressed Run as well, is declined; agent/mcp_port.py:45 says each approved hash answers exactly one confirmation | `ApprovalsAnswered`, HostSessions |
| agent/web.py:266 | Only the answer that approves the review is checked against the limit on running jobs: "run" written as text goes through agent/guided.py:68-70 and starts every plan; and two checked runs of two sessions of one person pass together, since a job counts only once its turn has ended (web.py:298).  docs/agent/README.md:215 says "weather jobs running at once per person, checked at Run" | `JobLimitKept`, HostSessions with `PlanLists <- Lists`, `Limit = 1`, and one session with the kinds fill and typed, or `Owner <- Mine` |
| agent/session.py:422 | After a crash between submission and save, the saved facts do not name the running job and Back passes its guard; docs/agent/README.md:90 says it never crosses a started job | `BackNeverCrosses`, HostRequests with `MaxCrashes = 1` |
| agent/web.py:391 | A form opened after the follower looked is closed by the check it submits; agent/web.py:377 says the pass is over sessions that show no form | `[][\A s \in Sessions : turn[s].kind = "check" /\ saved[s].form # NoForm => saved'[s].form = saved[s].form]_vars`, HostRequests |
| agent/host.py:340 | `change_part` closes the review and then asks for offers; a failing call leaves no form, plan or job, although agent/host.py:288 keeps the review so that a failed replan does "not leave nothing to answer" | `\A s \in Sessions : ~Busy(s) => saved[s].form # NoForm \/ Pending(saved[s]) # {}`, HostRequests |
| agent/host.py:389 | A request equal to an earlier one of the session gets its finished job, which is not followed again: no result is shown (docs/agent/README.md:200) | `EveryRunIsReported`, HostSessions with one session that is offered one plan, kinds fill, run and new, 5 inputs, `MaxFaults = MaxCrashes = 0` |
| agent/web.py:385 | The follower forgets a session by a record it loaded before a turn started another job in it | the same with kinds fill, run, retryform and retry, `RetryLimit = 1`, 4 inputs |
| deploy.py:112 | After a death, or a rename that fails, between the exchange of the folders and the marker, the old catalog is served with new masks or none, and a later roll back cannot restore them | `ServesOneCatalog` without the condition on what started inside that window (`CatalogInstall!MarkerIsTrue`, `AllOrNothing`), Catalog |
| api/app.py:186 | An answer computed before the activation is stored after another request cleared the cache and marked it with the new generation, and served until the next activation, although the comment at 175 says "a newly activated catalog starts afresh"; a request whose entry is cleared before it reads it back fails with a KeyError | `PointCache!StartsAfresh`, Catalog; what does hold, for any number of threads, is `AnswersExplained` |
| agent/host.py:352 | `return_to` of a request summary can reopen a form of the model whose call is no longer pending: each answer is refused as stale | `CallsArePaired` without `form.again`, Chat |
| agent/session.py:308 | A strike that ends the session inside a loop clears the turn, then the results of its calls are appended: after a reopening they belong to no call | `CallsArePaired` without `torn`, Chat |
| web/chat-ui/src/App.tsx:154 | After "Start over" an answer that was under way for the old session puts it back on the page, while the kept session is the new one, and transcripts mix | `TranscriptIsTrue` without `page.session.id = saved`, Page |

### Observations made while translating

Each is read off the lines; the model restricts its inputs, or its property leaves the case open,
where one of them would show.

- *Raw cache and HTTP.*  A body is read once to be hashed and once to be parsed (service.py:1099, 1101): one
  that is damaged in between reaches the parse, which is the exception in `RepliesAreExact`.  Bodies of one fetch replay beside bodies of another version after a crash or a
  torn file (service.py:1129).  501 and 505 are reported as retryable without being retried
  (providers/http.py:88, 93).
- *Limits.*  `_blocked` of the site gate keeps an entry for every address it was asked about
  (api/site_gate.py:83); the cost of a call is lost when the process dies before it is recorded
  (agent/web.py:170).
- *Planning.*  A hybrid of several providers can pass the limit of 2000 tasks, which the check before
  planning does not count (service.py:643).  `access` of an evaluation is never "ready", so the
  tie-break of `recommend.py` that prefers it does not act.  A hybrid may be enabled without
  assignments (models/__init__.py:108): it is served by nobody, and its rows say that no candidate
  was executable although some were (service.py:671), which `PlanAccounts` states as it is.  A
  discovery that is handed over is compared by the keys of its points only (service.py:647): a
  point of one key may have another elevation or offset, and the discovery's is used; its product
  and filters are those of the request it was made for.  Of more than 50 options of a point the
  lower ranked are left out (service.py:328), after which a row may read "unsupported" because all
  that were kept are excluded on current evidence, while one that was left out is excluded on
  stale evidence only.
- *Availability map.*  The docstring at service.py:182 says the layers are "built once per catalog
  generation and footprints", but the layers in memory are keyed by the generation alone
  (service.py:229).  After an import that wrote its masks and was then refused, the old layers are
  served and saved under the stamp of the new masks, which a restart then reads back, while the
  eligibility answers reload their masks (service.py:274).  `AnswersAreCurrent` says what does hold:
  no mask older than the activation of the map's generation.
- *Catalog index.*  `_load` may miss a record another thread evicts between its two looks
  (catalog_index.py:318); stored and in-memory answers differ when two products share a native URL.
- *Future weather.*  Rows of plans without output ids are "failed" in the manifest although weather was
  made; a legacy item of several outputs with one damaged file is dropped whole on resume, while
  `retry_plan` counts its intact files as produced; a cancel inside `execute_future` is reported
  with the output's id, so its row says "failed" rather than "cancelled"; CMIP6 contents are not
  pinned by a checksum.
- *Evidence.*  An error body of a probe may pass the allowance by up to one chunk
  (collector.py:576); a crash between mask.json and the manifest leaves checksums that disagree, and
  every later acquisition stops there until the files are removed by hand
  (acquire_nsrdb_meta.py:358, 304); a newer version that a HEAD request saw is forgotten when the process dies
  before the manifest is marked stale, so `ViewIsCautious` counts a version as seen from that mark on;
  the docstring of coast.py (line 6) still asks for a neighbourhood of land, which pvgis_mask.py:27 has given up; `pvgis_mask.build` does not write atomically; a footprint named
  like a table (.csv) cannot be loaded, and only files the descriptor lists are verified (package.py).
- *MCP.*  The approvals of the stdio client are never consumed (mcp/client.py:26); a plan whose summary is
  refused as too large stays in the plan store; a retry that names its original's idempotency key
  may return the finished job although the person confirmed a new one.
- *Files of a session.*  An output made by two requests of a session leaves its superseded file listed
  as an upload (agent/outputs.py:38), as do jobs beyond the last 20; the retry form counts rows of the
  window while the retry covers more; a damaged file stops every pass of `check_jobs`, so the session
  never reaches its results.  A request run again after it finished gets its finished job back
  (host.py:389 names the job by session and plan), so the review closes with nothing to follow: no
  results step comes, and a retry is refused because the stage is still "request" (outputs.py:147).
- *Evaluation.*  A run stopped by its budget has the tasks hash of a full one and becomes the default
  baseline (command.py:29), and its exit code may be 0; costs of unusable replies and first attempts
  are not in the summary; `over_budget` may leave trials that the model then refuses when 2 % of the cap is less
  than the allowance for one call (a cap below about 0.2 USD), which `EvalRun` assumes away.
- *Conversation.*  Moderation strikes come before `_guard` resets `struck_this_turn`, so flagged inputs
  after a counted strike may not count (session.py:217); Back restores a part of the strike state
  from its snapshot, though state.py:155 says it does not; approving an open summary confirms years
  proposed after it was shown (state.py:116); a retry form reopened by `run_retry` loses the call
  it belongs to; reviewing a location in the results stage clears the job ids of a running retry.
- *Page.*  An input whose answer comes after the stream's last state leaves the page busy until the
  stream reconnects, at most `STREAM_SECONDS` later.

## 6. Not modelled

- What the graders and mutations of the evaluation say of a trial: they are functions of its log, which
  their own tests cover.
- Numbers and files: EPW reading and writing, QC, morphing, spatial sampling, time zones, hybrid
  series, geodesy, charts.  Their correctness is numerical; the repository tests them on fixtures.
- Providers, geocoders, importers and parsers of inventories: input and output of external services.
  Where a component depends on them, the outcome (result, failure, new version) is a choice.
- The language model and the reading of free text: a reply is any sequence of calls or words the
  loop distinguishes, an input any of the meanings the rules distinguish.
- Wording, rendering, logging, configuration, terminal input and output; maps, forms and charts of
  the page.
- Handlers of the REST API other than `catalog_point`, and the plan store: thin, or content-addressed
  files written by the atomic rename that `ArtifactStore` models.
- Inside the modelled components: what each leaves out is in its `note` in PROJECT.json.  The size of
  the turn pool (turns that wait for a thread are turns that do not step), the session lock
  (redundant with the `busy` set it is nested in) and the death of the follower thread on a database
  error are not in `AgentHost`.

## 7. Plan

All components with state of their own are modelled, and what several actors share is proved for the
jobs, the lock, the catalog, the artifacts, the execution, the host, the conversation and the page.
What is left is to prove `LimitsHold`: the windows of `SiteGate`, whose invariant is about the order
of a sequence.
