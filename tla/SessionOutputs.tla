----------------------------- MODULE SessionOutputs -----------------------------
(***************************************************************************)
(* After a download (agent/outputs.py): the files of a session, numbered,  *)
(* read from the manifests of its finished jobs; listings and downloads    *)
(* that name them; and retries of what failed.  AgentHost models how the   *)
(* session runs and follows its jobs; here a job is its outputs and what   *)
(* became of each, one input is one step, and a crash may end a retry      *)
(* after some of its jobs are submitted and before the session is saved.   *)
(***************************************************************************)
EXTENDS Integers, Sequences, SequencesExt, FiniteSets, FiniteSetsExt

CONSTANTS Outputs,     \* identities of outputs, which equal requests share; numbers
          Year,        \* the year of each
          Plans,       \* what a request may run: [outs, extra]: an extra row has no source
          Window,      \* finished jobs that are listed (20)
          RetryLimit,  \* RETRY_LIMIT
          Cases,       \* bounds of a behaviour: [jobs, asks, uploads, cancels, damages, crashes]
          None

VARIABLES jobs,        \* the durable jobs of the session: [outs, extra, of, done, result, counted]
          facts,       \* Facts: [stage, ids, finished, artifacts, failed, retryOf]
          form,        \* jobs and rows of the open retry form; None for any other form
          said,        \* the rows the last answer named: [kind, rows]
          gone,        \* files that no longer match their checksum
          left         \* what is left of the bounds

vars == <<jobs, facts, form, said, gone, left>>

Made(i) == {o \in jobs[i].outs : jobs[i].done /\ jobs[i].result[o] = "succeeded"}
File(i, o) == <<i, o>>
Upload(n) == <<0, n>>
Failed == {"failed", "cancelled"}

Uses(bound) == left[bound] > 0 /\ left' = [left EXCEPT ![bound] = @ - 1]
Quiet == [kind |-> "none", rows |-> <<>>]
Latest(s, n) == SubSeq(s, Max({Len(s) - n, 0}) + 1, Len(s))
-----------------------------------------------------------------------------
\* job_outputs: a row for each row of the plan; one that succeeded names its file.
OutputRow(i, o) ==
    [key |-> <<0, o>>, job |-> i, year |-> Year[o], status |-> jobs[i].result[o],
     file |-> IF o \in Made(i) THEN File(i, o) ELSE None]
JobRows(i) ==
    LET planned == SetToSortSeq(jobs[i].outs, <) IN
    [n \in DOMAIN planned |-> OutputRow(i, planned[n])] \o
    (IF jobs[i].extra
     THEN <<[key |-> <<i, Len(planned)>>, job |-> i, year |-> 0, status |-> "unsupported", file |-> None]>>
     ELSE <<>>)

\* A later row takes the place of an earlier one unless only the earlier succeeded.
MergeLatest(rows, row) ==
    IF \E n \in DOMAIN rows : rows[n].key = row.key
    THEN [n \in DOMAIN rows |-> IF rows[n].key = row.key THEN row ELSE rows[n]]
    ELSE Append(rows, row)
Merge(rows, row) ==
    IF \E n \in DOMAIN rows : rows[n].key = row.key /\ rows[n].status = "succeeded" /\ row.status # "succeeded"
    THEN rows
    ELSE MergeLatest(rows, row)

\* session_outputs: the merged rows of the last finished jobs, then the files no row names.
Windowed == Latest(facts.finished, Window)
Merged == FoldLeft(Merge, <<>>, FlattenSeq([n \in DOMAIN Windowed |-> JobRows(Windowed[n])]))
Uploaded(rows) ==
    LET known == {rows[n].file : n \in DOMAIN rows}
        others == SelectSeq(facts.artifacts, LAMBDA a : a \notin known) IN
    [n \in DOMAIN others |-> [key |-> others[n], job |-> 0, year |-> 0, status |-> "succeeded", file |-> others[n]]]
Numbered(rows) == [n \in DOMAIN rows |-> [number |-> n, row |-> rows[n]]]
Listing == LET merged == Merged IN Numbered(merged \o Uploaded(merged))

\* pick_outputs by years and status.
Pick(rows, years, statuses) ==
    SelectSeq(rows, LAMBDA r : (years = {} \/ r.row.year \in years) /\ r.row.status \in statuses)
AnyStatus == Failed \cup {"succeeded", "unsupported"}
-----------------------------------------------------------------------------
\* Facts.running_jobs and retryable_jobs; _chain and _retry_jobs.
Running == SelectSeq(facts.ids, LAMBDA i : ~Contains(facts.finished, i))
Retried == {facts.retryOf[i] : i \in DOMAIN facts.retryOf}
Chain(i) ==
    LET step[k \in 0 .. RetryLimit + 1] ==
          IF k = 0 THEN i
          ELSE LET j == step[k - 1] IN IF j \in DOMAIN facts.retryOf THEN facts.retryOf[j] ELSE j
    IN Cardinality({step[k] : k \in DOMAIN step}) - 1
RetryJobs == SelectSeq(facts.failed, LAMBDA i : i \notin Retried /\ Chain(i) < RetryLimit)

Init ==
    /\ jobs = <<>>
    /\ facts = [stage |-> "request", ids |-> <<>>, finished |-> <<>>, artifacts |-> <<>>,
                failed |-> <<>>, retryOf |-> <<>>]
    /\ form = None /\ said = Quiet /\ gone = {} /\ left \in Cases

\* A plan the person ran (run_plans), under a key of the session and the plan: the job of an
\* equal request before is followed again.
Same(p) == {i \in DOMAIN jobs : jobs[i].of = 0 /\ jobs[i].outs = p.outs /\ jobs[i].extra = p.extra}
Follow(i) == facts' = [facts EXCEPT !.ids = IF Contains(@, i) THEN @ ELSE Append(@, i)]
Start(p) ==
    /\ facts.stage = "request"
    /\ \/ \E i \in Same(p) : Follow(i) /\ UNCHANGED jobs
       \/ /\ Same(p) = {} /\ Len(jobs) < left.jobs
          /\ Follow(Len(jobs) + 1)
          /\ jobs' = Append(jobs, [outs |-> p.outs, extra |-> p.extra, of |-> 0, done |-> FALSE,
                                   result |-> <<>>, counted |-> FALSE])
    /\ form' = None
    /\ UNCHANGED <<said, gone, left>>

\* A job ends. finalize_batch_rows: what a cancelled job did not reach is "cancelled", and only
\* outputs it tried count as failed.
End(i) ==
    /\ ~jobs[i].done
    /\ \E result \in [jobs[i].outs -> {"succeeded"} \cup Failed] :
          /\ jobs' = [jobs EXCEPT ![i].done = TRUE, ![i].result = result,
                                  ![i].counted = \E o \in jobs[i].outs : result[o] = "failed"]
          /\ IF \E o \in jobs[i].outs : result[o] = "cancelled" THEN Uses("cancels") ELSE UNCHANGED left
    /\ UNCHANGED <<facts, form, said, gone>>

\* check_jobs: one pass over the running jobs.  _finished reads every file of a job, so a damaged
\* one ends the pass; after the last job the results step takes the form away.
Reads(i) == \A o \in Made(i) : File(i, o) \notin gone
Files(i) == LET made == SetToSortSeq(Made(i), <) IN [n \in DOMAIN made |-> File(i, made[n])]
Look ==
    LET running == Running
        ended == SelectSeq(running, LAMBDA i : jobs[i].done)
        bad == {n \in DOMAIN ended : ~Reads(ended[n])}
        seen == IF bad = {} THEN ended ELSE SubSeq(ended, 1, Min(bad) - 1)
        over == Len(seen) = Len(running) IN
    /\ running # <<>>
    /\ facts' = [facts EXCEPT
          !.finished = @ \o seen,
          !.artifacts = @ \o FlattenSeq([n \in DOMAIN seen |-> Files(seen[n])]),
          !.failed = @ \o SelectSeq(seen, LAMBDA i : jobs[i].counted),
          !.stage = IF over THEN "results" ELSE @]
    /\ form' = IF over THEN None ELSE form
    /\ UNCHANGED <<jobs, said, gone, left>>

\* upload_epw; an upload before any request may lead to the results step.
AddUpload(leads) ==
    LET n == Cardinality({k \in DOMAIN facts.artifacts : facts.artifacts[k][1] = 0}) + 1 IN
    /\ Uses("uploads") /\ (leads => facts.ids = <<>>)
    /\ facts' = [facts EXCEPT !.artifacts = Append(@, Upload(n)), !.stage = IF leads THEN "results" ELSE @]
    /\ form' = IF leads THEN None ELSE form
    /\ UNCHANGED <<jobs, said, gone>>

\* new_request: what finished stays.
New ==
    /\ facts' = [facts EXCEPT !.stage = "request", !.ids = <<>>]
    /\ form' = None
    /\ UNCHANGED <<jobs, said, gone, left>>
-----------------------------------------------------------------------------
\* follow_up: "my files", "what failed" and "download", for some years or all; they change nothing.
Says(kind, rows) == said' = [kind |-> IF rows = <<>> THEN "nothing" ELSE kind, rows |-> rows]
FollowUp ==
    /\ Uses("asks")
    /\ LET all == Listing IN
       \E years \in {{}} \cup {{Year[o]} : o \in Outputs} :
          \/ LET picked == Pick(all, years, AnyStatus) IN Says("list", IF picked = <<>> THEN all ELSE picked)
          \/ Says("failed", Pick(all, years, Failed))
          \/ Says("download", Pick(all, years, {"succeeded"}))
    /\ UNCHANGED <<jobs, facts, form, gone>>

\* _outputs: list_outputs of the model, and offer_download of numbers or of all files; a number
\* without a row is refused.
Numbers(rows) == {rows[n].number : n \in DOMAIN rows}
ModelOutputs ==
    /\ Uses("asks")
    /\ LET all == Listing IN
       \/ \E statuses \in {AnyStatus, Failed, {"succeeded"}}, years \in {{}} \cup {{Year[o]} : o \in Outputs} :
             LET picked == Pick(all, years, statuses) IN Says("list", IF picked = <<>> THEN all ELSE picked)
       \/ \E numbers \in (SUBSET (1 .. Len(all) + 1)) \ {{}} :
             IF numbers \subseteq Numbers(all)
             THEN Says("download", SelectSeq(Pick(all, {}, {"succeeded"}), LAMBDA r : r.number \in numbers))
             ELSE said' = said
       \/ Says("download", Pick(all, {}, {"succeeded"}))
    /\ UNCHANGED <<jobs, facts, form, gone>>

\* retry_form, or the reason there is none.
Offered(js) ==
    [jobs |-> js, rows |-> SelectSeq(Merged, LAMBDA r : Contains(js, r.job) /\ r.status \in Failed)]
MayRetry == facts.stage = "results" /\ Running = <<>> /\ RetryJobs # <<>>
RetryForm ==
    /\ form' = IF MayRetry THEN Offered(RetryJobs) ELSE form
    /\ UNCHANGED <<jobs, facts, said, gone, left>>

\* runner.retry_plan: the outputs with no file that resolves.
Missing(i) == {o \in jobs[i].outs : o \notin Made(i) \/ File(i, o) \in gone}

\* job_retry_failed under the key of the session and the job: a job submitted before is returned
\* when its plan is the same and refused as a conflict when it is not.
Retry(i) == [outs |-> Missing(i), extra |-> FALSE, of |-> i, done |-> FALSE, result |-> <<>>, counted |-> FALSE]
Before(i) == {k \in DOMAIN jobs : jobs[k].of = i}
Submits(js) == SelectSeq(js, LAMBDA i : Before(i) = {})
Accepted(js) == SelectSeq(js, LAMBDA i : \A k \in Before(i) : jobs[k].outs = Missing(i))
WithRetries(js) == LET new == Submits(js) IN jobs \o [n \in DOMAIN new |-> Retry(new[n])]

\* run_retry of the form that is shown: as far as its first n jobs when the process dies.  A form
\* the failed jobs no longer match is shown anew.
Matches == form.jobs = RetryJobs /\ Running = <<>>
Current == form # None /\ Matches
RunRetry ==
    /\ form # None /\ Len(jobs) + Len(form.jobs) <= left.jobs
    /\ IF Matches
       THEN LET all == WithRetries(form.jobs)
                accepted == Accepted(form.jobs)
                Of(i) == CHOOSE k \in DOMAIN all : all[k].of = i
                new == [n \in DOMAIN accepted |-> Of(accepted[n])] IN
            /\ jobs' = all
            /\ facts' = [facts EXCEPT
                  !.ids = @ \o new,
                  !.retryOf = [k \in DOMAIN @ \cup {new[n] : n \in DOMAIN new} |-> all[k].of]]
            /\ form' = None
       ELSE form' = (IF MayRetry THEN Offered(RetryJobs) ELSE form) /\ UNCHANGED <<jobs, facts>>
    /\ UNCHANGED <<said, gone, left>>
DieInRetry ==
    /\ Current /\ Len(jobs) + Len(form.jobs) <= left.jobs
    /\ \E n \in DOMAIN form.jobs : jobs' = WithRetries(SubSeq(form.jobs, 1, n))
    /\ Uses("crashes")
    /\ UNCHANGED <<facts, form, said, gone>>

\* A file on disk is lost.
Damage ==
    /\ Uses("damages")
    /\ \E i \in DOMAIN jobs : \E o \in Made(i) : gone' = gone \cup {File(i, o)}
    /\ UNCHANGED <<jobs, facts, form, said>>

Next ==
    \/ \E p \in Plans : Start(p)
    \/ \E i \in DOMAIN jobs : End(i)
    \/ Look \/ New \/ RetryForm \/ RunRetry \/ DieInRetry \/ Damage \/ FollowUp \/ ModelOutputs
    \/ \E leads \in BOOLEAN : AddUpload(leads)
Spec == Init /\ [][Next]_vars
-----------------------------------------------------------------------------
Listed == {Windowed[n] : n \in DOMAIN Windowed}
MadeBy(o) == {i \in Listed : o \in Made(i)}

\* "So 'the 2017 file' means the one that exists" (session_outputs): an output has one row, which
\* names a file some listed job made, if one did, and else tells what became of it last.
RowsAreTrue ==
    LET rows == Merged
        window == Windowed
        planned == {n \in DOMAIN rows : rows[n].key[1] = 0} IN
    /\ \A m, n \in DOMAIN rows : rows[m].key = rows[n].key => m = n
    /\ \A k \in DOMAIN window : jobs[window[k]].outs \subseteq {rows[n].key[2] : n \in planned}
    /\ \A n \in planned :
          LET o == rows[n].key[2]
              makers == {k \in DOMAIN window : o \in Made(window[k])} IN
          IF makers # {} THEN \E k \in makers : rows[n].file = File(window[k], o)
          ELSE LET last == window[Max({k \in DOMAIN window : o \in jobs[window[k]].outs})] IN
               rows[n].job = last /\ rows[n].status = jobs[last].result[o]

\* Every file the session got is named; none is called an upload that is not one, while no output
\* was made twice and every finished job is listed.
FilesAreNamed ==
    LET rows == Listing IN
    /\ \A n \in DOMAIN facts.artifacts : Cardinality({m \in DOMAIN rows : rows[m].row.file = facts.artifacts[n]}) = 1
    /\ \/ \A n \in DOMAIN rows : rows[n].row.job = 0 => rows[n].row.file[1] = 0
       \/ Len(facts.finished) > Window \/ \E o \in Outputs : Cardinality(MadeBy(o)) > 1

\* A number keeps its output, and a file that was named under it stays: what the person picks by
\* a number they read is what they read, whatever finished or was retried since.
NumbersStay ==
    (Len(facts.finished) <= Window /\ said.rows # <<>>) =>
        LET rows == Listing IN
        \A k \in DOMAIN said.rows : LET r == said.rows[k] IN
           r.row.job # 0 => /\ r.number \in DOMAIN rows /\ rows[r.number].row.key = r.row.key
                            /\ r.row.status = "succeeded" => rows[r.number].row.status = "succeeded"

\* "The retry form lists every failed output the retry covers" and no other: with jobs that are
\* listed and whose files are whole, but for outputs that another request ran too.  No form that
\* is open is out of date.
FormCovers ==
    form # None => Matches /\ (
    ({form.jobs[n] : n \in DOMAIN form.jobs} \subseteq Listed /\ gone = {}) =>
        LET offered == {form.jobs[n] : n \in DOMAIN form.jobs}
            shown == {form.rows[n].key[2] : n \in DOMAIN form.rows}
            covered == UNION {Missing(i) : i \in offered}
            shared == UNION {jobs[i].outs : i \in Listed \ (offered \cup Retried)} IN
        shown \subseteq covered /\ {o \in covered \ shared : MadeBy(o) = {}} \subseteq shown)

\* A job is retried once, in chains of at most RetryLimit, with its missing outputs and no other,
\* though the process died in a retry; the session knows a retry by the job it took over.
RetriesAreKept ==
    /\ \A i \in DOMAIN jobs : Cardinality(Before(i)) <= 1
    /\ \A k \in DOMAIN jobs : jobs[k].of # 0 =>
          /\ jobs[k].outs # {} /\ jobs[k].outs \subseteq jobs[jobs[k].of].outs
          /\ \A o \in jobs[k].outs \cap Made(jobs[k].of) : File(jobs[k].of, o) \in gone
    /\ \A k \in DOMAIN facts.retryOf : jobs[k].of = facts.retryOf[k] /\ Chain(k) <= RetryLimit

OutputsHold == RowsAreTrue /\ FilesAreNamed /\ NumbersStay /\ FormCovers /\ RetriesAreKept
=============================================================================
