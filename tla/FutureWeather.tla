---------------------------- MODULE FutureWeather ----------------------------
(***************************************************************************)
(* Future weather: plan_future and execute_future (planning/future.py)     *)
(* with the selection of CMIP6 members (generation/cmip6.py) and of years  *)
(* of the hourly archive (generation/hourly_archive.py), and what the job  *)
(* runner and its retries do with such a plan (jobs/worker.py).            *)
(*                                                                         *)
(* A plan has one task, whose result is a list of members, and one output  *)
(* for each of them.  Every output runs in a subplan of its own, a retry   *)
(* is a subplan of what is missing, and the list may be fetched anew each  *)
(* time, so an output finds its member by an index.  Plans and items of    *)
(* older versions have no ids, no indexes and one item for all outputs.    *)
(* What members say is a version; local signals and the archive are pinned *)
(* by a checksum or an ETag, CMIP6 is pinned by the stores it names.       *)
(***************************************************************************)
EXTENDS Naturals, Sequences, FiniteSets, SequencesExt

CONSTANTS None,
          Supply,        \* how many members (model and member) are on offer
          Grids,         \* grid labels, in order
          MaxFaults,     \* failing sources and outputs, damaged files
          MaxChanges,    \* new versions of what upstream serves
          MaxCrashes, MaxRetries

VARIABLES request,   \* [method, profile, wanted, legacy]
          catalog,   \* the grids on which each CMIP6 member has every variable
          version,   \* of what upstream serves now
          plan,      \* of the first job: [outputs, members, version]
          jobs,      \* the first job and its retries
          run,       \* what the runner works on: a job, the output it is at and those still to do
          damaged,   \* weather artifacts lost or altered
          spent      \* [faults, crashes]

vars == <<request, catalog, version, plan, jobs, run, damaged, spent>>

Names == 1..Supply
Methods == {"signals", "cmip6", "climate_profile"}
Profiles == {"typical", "ensemble", "extreme"}
Fails(fault) == spent[fault] > 0 /\ spent' = [spent EXCEPT ![fault] = @ - 1]

Init ==
    /\ request \in [method : Methods, profile : Profiles, wanted : (SUBSET Names) \ {{}}, legacy : BOOLEAN]
    /\ request.method = "climate_profile" => request.wanted = Names
    /\ catalog \in IF request.method = "cmip6" THEN [Names -> SUBSET Grids] ELSE {[n \in Names |-> Grids]}
    /\ version = 1 /\ plan = None /\ jobs = <<>> /\ run = None /\ damaged = {}
    /\ spent = [faults |-> MaxFaults, crashes |-> MaxCrashes]
-----------------------------------------------------------------------------
(* Planning. *)

Sorted(names) == SetToSortSeq(names, <)

\* Of every wanted member with a complete set of variables its first grid; each must have one.
Offered == {n \in request.wanted : catalog[n] # {}}
Selectable == Offered = request.wanted
Selected ==
    LET all == Sorted(Offered)
    IN IF request.profile \in {"ensemble", "extreme"} THEN all ELSE SubSeq(all, 1, 1)

\* A typical profile takes exactly one signal of a file; its selectors must name what it holds.
FileSuits == request.profile = "typical" => Cardinality(request.wanted) = 1

\* The years of the archive that a profile keeps; which one is decided by what they say.
Kept(v) ==
    CASE request.profile = "ensemble" -> [n \in Names |-> n]
      [] request.profile = "typical" -> <<CHOOSE n \in Names : n % 2 = v % 2>>
      [] OTHER -> <<CHOOSE n \in Names : n % 2 # v % 2>>

Members(v) ==
    CASE request.method = "cmip6" -> Selected
      [] request.method = "signals" -> Sorted(request.wanted)
      [] OTHER -> Kept(v)
Pinned == request.method # "cmip6"

\* A plan of an older version says neither which output this is nor which member it takes.
Output(i) == [place |-> i, name |-> i, id |-> IF request.legacy THEN None ELSE i, index |-> IF request.legacy THEN None ELSE i]
Key(o) == IF o.id = None THEN <<"name", o.name>> ELSE <<"id", o.id>>

\* subplan: what is kept moves up, and the index of an output without one is its place in the plan
\* it comes from (faulty: its place among those that are kept).
Rank(o, outputs) == Cardinality({p \in outputs : p.place <= o.place})
Moved(o, place, index) == [o EXCEPT !.place = place, !.index = IF @ = None THEN index ELSE @]
SubplanCounted(outputs, keys) ==
    LET kept == {o \in outputs : Key(o) \in keys} IN {Moved(o, Rank(o, kept), Rank(o, kept)) : o \in kept}
Subplan(outputs, keys) ==
    LET kept == {o \in outputs : Key(o) \in keys} IN {Moved(o, Rank(o, kept), o.place) : o \in kept}

Unread == [state |-> "unread", members |-> <<>>]
Lost == [state |-> "error", members |-> <<>>]
NewJob(outputs, items, of) ==
    [outputs |-> outputs, items |-> items, of |-> of, errors |-> {}, cancel |-> FALSE, state |-> "queued", rows |-> <<>>]
Weather(o, m) == [output |-> o.name, member |-> m.name, version |-> m.version]

Refused ==
    CASE request.method = "cmip6" -> ~Selectable
      [] request.method = "signals" -> ~FileSuits
      [] OTHER -> FALSE
Count ==
    IF request.method # "climate_profile" THEN Len(Members(version))
    ELSE IF request.profile = "ensemble" THEN Supply ELSE 1

\* Submitted at once; an older version may have left one item with some of the outputs.
PlanFuture ==
    /\ jobs = <<>> /\ ~Refused
    /\ LET members == Members(version)
           outputs == {Output(i) : i \in 1..Count}
           old(done) == [key |-> <<"item", 0>>, issues |-> {},
                         weather |-> {Weather(Output(i), [name |-> members[i], version |-> version]) : i \in done}]
       IN /\ plan' = [outputs |-> outputs, members |-> members, version |-> version]
          /\ \/ jobs' = <<NewJob(outputs, {}, None)>>
             \/ \E done \in (SUBSET (1..Count)) \ {{}} : jobs' = <<NewJob(outputs, {old(done)}, None)>>
    /\ UNCHANGED <<request, catalog, version, run, damaged, spent>>
-----------------------------------------------------------------------------
(* Running a job. *)

Current == jobs[run.job]
Intact(j, item) == \A w \in item.weather : <<j, item.key, w.output>> \notin damaged

\* Items whose artifacts resolve are kept; of an old item the ids its manifest names count too.
Begin ==
    /\ run = None
    /\ \E j \in 1..Len(jobs) :
          /\ jobs[j].state \in {"queued", "running"}
          /\ LET kept == {i \in jobs[j].items : Intact(j, i)}
                 old == UNION {{<<"id", w.output>> : w \in i.weather} : i \in {k \in kept : k.key = <<"item", 0>>}}
             IN run' = [job |-> j, todo |-> jobs[j].outputs, at |-> None, kept |-> kept, source |-> Unread, phase |-> "next",
                        done |-> {i.key : i \in kept} \cup (IF request.legacy THEN {} ELSE old),
                        errors |-> jobs[j].errors]
          /\ jobs' = [jobs EXCEPT ![j].state = "running"]
    /\ UNCHANGED <<request, catalog, version, plan, damaged, spent>>

IsFirst(o) == o \in run.todo /\ \A p \in run.todo : o.place <= p.place
Skip ==
    /\ run # None /\ run.phase = "next" /\ ~Current.cancel
    /\ \E o \in run.todo : IsFirst(o) /\ Key(o) \in run.done /\ run' = [run EXCEPT !.todo = @ \ {o}]
    /\ UNCHANGED <<request, catalog, version, plan, jobs, damaged, spent>>
Pick ==
    /\ run # None /\ run.phase = "next" /\ ~Current.cancel
    /\ \E o \in run.todo :
          /\ IsFirst(o) /\ Key(o) \notin run.done
          /\ run' = [run EXCEPT !.todo = @ \ {o}, !.at = o, !.phase = "source"]
    /\ UNCHANGED <<request, catalog, version, plan, jobs, damaged, spent>>

Raise(code) == [run EXCEPT !.phase = "save", !.errors = @ \cup {<<Key(run.at), code>>}]

\* The members, fetched once in a run; an error is kept as well and raised for every output.
Fetched ==
    LET members == Members(version)
    IN [state |-> "read", members |-> [i \in 1..Len(members) |-> [name |-> members[i], version |-> version]]]
\* The baseline and its provenance are read again first, and that failure is not kept.
Source ==
    /\ run # None /\ run.phase = "source"
    /\ \/ Fails("faults") /\ run' = Raise("baseline")
       \/ Current.cancel /\ run' = Raise("CANCELLED") /\ UNCHANGED spent
       \/ ~Current.cancel /\ run.source = Lost /\ run' = Raise("source") /\ UNCHANGED spent
       \/ ~Current.cancel /\ run.source.state = "read" /\ run' = [run EXCEPT !.phase = "make"] /\ UNCHANGED spent
       \/ /\ ~Current.cancel /\ run.source = Unread /\ UNCHANGED spent
          /\ IF Pinned /\ version # plan.version THEN run' = [Raise("PLAN_STALE") EXCEPT !.source = Lost]
             ELSE run' = [run EXCEPT !.source = Fetched, !.phase = "make"]
       \/ ~Current.cancel /\ run.source = Unread /\ Fails("faults") /\ run' = [Raise("source") EXCEPT !.source = Lost]
    /\ UNCHANGED <<request, catalog, version, plan, jobs, damaged>>

\* One output: its member is the one at its index.  (That indexes are distinct and within the
\* members is checked too; here they always are.)
Chosen == CHOOSE o \in Subplan(Current.outputs, {Key(run.at)}) : TRUE
\* complete_item: the item of this output is replaced, and its new files have ids of their own.
Stores(weather, issues) ==
    LET item == [key |-> Key(run.at), weather |-> weather, issues |-> issues]
    IN /\ jobs' = [jobs EXCEPT ![run.job].items = {i \in @ : i.key # item.key} \cup {item}]
       /\ run' = [run EXCEPT !.phase = "save", !.kept = {i \in @ : i.key # item.key} \cup {item}]
       /\ damaged' = {d \in damaged : d[1] # run.job \/ d[2] # item.key}
Make ==
    /\ run # None /\ run.phase = "make"
    /\ \/ Current.cancel /\ Stores({}, {<<<<"all", 0>>, "CANCELLED">>}) /\ UNCHANGED spent
       \/ ~Current.cancel /\ Stores({Weather(Chosen, run.source.members[Chosen.index])}, {}) /\ UNCHANGED spent
       \/ ~Current.cancel /\ Fails("faults") /\ Stores({}, {<<Key(Chosen), "failed">>})
    /\ UNCHANGED <<request, catalog, version, plan>>

Save ==
    /\ run # None /\ run.phase = "save"
    /\ jobs' = [jobs EXCEPT ![run.job].errors = run.errors]
    /\ run' = [run EXCEPT !.phase = "next", !.at = None]
    /\ UNCHANGED <<request, catalog, version, plan, damaged, spent>>

\* _bundle: what the manifest says of each output.
Row(o, weather, issues) ==
    LET related == {i \in issues : i[1] = Key(o)}
    IN CASE o.id # None /\ o.name \in {w.output : w \in weather} -> "succeeded"
         [] OTHER -> IF (\E i \in issues : i[2] = "CANCELLED") /\ related = {} THEN "cancelled" ELSE "failed"
Finish ==
    /\ run # None /\ run.phase = "next" /\ (run.todo = {} \/ Current.cancel)
    /\ LET weather == UNION {i.weather : i \in run.kept}
           issues == run.errors \cup (UNION {i.issues : i \in run.kept})
                     \cup (IF Current.cancel THEN {<<<<"all", 0>>, "CANCELLED">>} ELSE {})
       IN jobs' = [jobs EXCEPT ![run.job].rows = [o \in Current.outputs |-> Row(o, weather, issues)],
                               ![run.job].errors = issues,
                               ![run.job].state = IF Current.cancel THEN "cancelled"
                                                  ELSE IF issues # {} \/ Cardinality(weather) < Cardinality(Current.outputs)
                                                       THEN "incomplete" ELSE "completed"]
    /\ run' = None
    /\ UNCHANGED <<request, catalog, version, plan, damaged, spent>>
-----------------------------------------------------------------------------
(* Retries, and what happens meanwhile. *)

Ended(j) == jobs[j].state \notin {"queued", "running"}
\* Outputs with a weather artifact that resolves; found by id or, in an old plan, by file name.
Produced(j) ==
    {IF request.legacy THEN <<"name", w.output>> ELSE <<"id", w.output>> :
        w \in UNION {{w \in i.weather : <<j, i.key, w.output>> \notin damaged} : i \in jobs[j].items}}
Unmade(j) == {Key(o) : o \in jobs[j].outputs} \ Produced(j)
RetryFailed ==
    /\ Len(jobs) <= MaxRetries
    /\ \E j \in 1..Len(jobs) :
          /\ Ended(j) /\ Unmade(j) # {}
          /\ jobs' = Append(jobs, NewJob(Subplan(jobs[j].outputs, Unmade(j)), {}, j))
    /\ UNCHANGED <<request, catalog, version, plan, run, damaged, spent>>

Cancel ==
    /\ \E j \in 1..Len(jobs) : ~Ended(j) /\ ~jobs[j].cancel /\ Fails("faults") /\ jobs' = [jobs EXCEPT ![j].cancel = TRUE]
    /\ UNCHANGED <<request, catalog, version, plan, run, damaged>>
Crash ==
    /\ run # None /\ Fails("crashes") /\ run' = None
    /\ UNCHANGED <<request, catalog, version, plan, jobs, damaged>>
Damage ==
    /\ \E j \in 1..Len(jobs) : \E i \in jobs[j].items : \E w \in i.weather :
          /\ <<j, i.key, w.output>> \notin damaged /\ Fails("faults")
          /\ damaged' = damaged \cup {<<j, i.key, w.output>>}
    /\ UNCHANGED <<request, catalog, version, plan, jobs, run>>
Change ==
    /\ jobs # <<>> /\ version <= MaxChanges /\ version' = version + 1
    /\ UNCHANGED <<request, catalog, plan, jobs, run, damaged, spent>>

Next == PlanFuture \/ Begin \/ Skip \/ Pick \/ Source \/ Make \/ Save \/ Finish
        \/ RetryFailed \/ Cancel \/ Crash \/ Damage \/ Change
Spec == Init /\ [][Next]_vars
-----------------------------------------------------------------------------
Made == UNION {UNION {i.weather : i \in jobs[j].items} : j \in 1..Len(jobs)}

\* Whatever is retried, resumed, cancelled or changed upstream, every weather file of an output is
\* made of the member that output was planned for, in the version that was planned where the source
\* pins one; and no retry makes an output again whose file still resolves (subplan, retry_plan).
FromItsMember ==
    /\ \A w \in Made : /\ w.member = plan.members[w.output]
                       /\ Pinned => w.version = plan.version
    /\ \A j \in 1..Len(jobs) : jobs[j].of # None =>
          \A o \in jobs[j].outputs : \A i \in jobs[jobs[j].of].items : \A w \in i.weather :
              w.output = o.name => <<jobs[j].of, i.key, w.output>> \in damaged

\* A finished job's rows tell of each output whether its weather is in the bundle; plans of older
\* versions, whose outputs have no ids, get no such rows.
RowsTell ==
    ~request.legacy => \A j \in 1..Len(jobs) : Ended(j) => \A o \in jobs[j].outputs :
        LET files == {i \in jobs[j].items : \E w \in i.weather : w.output = o.id}
        IN IF jobs[j].rows[o] = "succeeded" THEN files # {}
           ELSE \A i \in files : ~Intact(j, i)
FutureHolds == FromItsMember /\ RowsTell
=============================================================================
