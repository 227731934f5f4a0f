--------------------------- MODULE CatalogRefresh ---------------------------
(***************************************************************************)
(* Opt-in refresh of the availability catalog: CatalogStore's generations  *)
(* (openepw/availability/store.py) and refresh_if_relevant                 *)
(* (openepw/availability/refresh.py), called by the request threads of one *)
(* process.                                                                *)
(*                                                                         *)
(* A generation is immutable once staged and gives, for every source, the  *)
(* version of its records and when they were last checked; they are aged   *)
(* once the source's cadence has passed since.                             *)
(* Between reading the active generation and activating the one made from  *)
(* it lie an HTTP request and two transactions.                            *)
(***************************************************************************)
EXTENDS Naturals, FiniteSets

CONSTANTS Sources,      \* evidence sources, numbered in the order of their names
          Shared,       \* sources whose products also rest on other evidence
          Threads, None,
          Cadence,      \* how long a check of each source is good for
          MaxTime,      \* bound on time
          MaxVersion,   \* bound on what providers publish
          MaxQueries    \* bound on refreshing queries

ASSUME CatalogAssumption ==
    /\ Sources \subseteq Nat /\ IsFiniteSet(Sources) /\ Shared \subseteq Sources
    /\ Cadence \in [Sources -> Nat]
    /\ {MaxTime, MaxVersion, MaxQueries} \subseteq Nat
    /\ None \notin Threads \cup Sources

VARIABLES now,       \* the time
          upstream,  \* the version each source publishes
          active,    \* the active generation: a set of at most one
          stale,     \* stale_sources
          lock,      \* _source_locks: who holds each source's lock
          pc, todo,  \* where each thread is; the sources it has still to look at
          src, view, staged,  \* its source, the generation it read, the one it staged
          queries,   \* refreshing queries so far
          checked    \* history: when each source was last checked successfully

threadVars == <<pc, todo, src, view, staged>>
vars == <<now, upstream, active, stale, lock, pc, todo, src, view, staged, queries, checked>>
-----------------------------------------------------------------------------
Records == [ver : 0..MaxVersion, checked : 0..MaxTime]
Generations == [Sources -> Records]
Unloaded == [s \in Sources |-> [ver |-> 0, checked |-> 0]]
Phases == {"idle", "next", "fetch", "activate", "clear", "release"}

TypeOK ==
    /\ now \in 0..MaxTime
    /\ upstream \in [Sources -> 0..MaxVersion]
    /\ active \in SUBSET Generations /\ Cardinality(active) <= 1
    /\ stale \in SUBSET Sources
    /\ lock \in [Sources -> Threads \cup {None}]
    /\ pc \in [Threads -> Phases]
    /\ todo \in [Threads -> SUBSET Sources]
    /\ src \in [Threads -> Sources \cup {None}]
    /\ view \in [Threads -> Generations] /\ staged \in [Threads -> Generations]
    /\ queries \in 0..MaxQueries
    /\ checked \in [Sources -> 0..MaxTime]

ThreadsInit ==
    /\ pc = [t \in Threads |-> "idle"]
    /\ todo = [t \in Threads |-> {}]
    /\ src = [t \in Threads |-> None]
    /\ view = [t \in Threads |-> Unloaded]
    /\ staged = [t \in Threads |-> Unloaded]
    /\ lock = [s \in Sources |-> None]

Init ==
    /\ now = 0
    /\ upstream = [s \in Sources |-> 0]
    /\ active = {}
    /\ stale = {}
    /\ ThreadsInit
    /\ queries = 0
    /\ checked = [s \in Sources |-> 0]
-----------------------------------------------------------------------------
aged(g, s) == now > g[s].checked + Cadence[s]
Goto(t, from, to) == pc[t] = from /\ pc' = [pc EXCEPT ![t] = to]

\* `openepw catalog import`: stage and activate a complete generation.  Only the first import
\* is modelled: later ones replace every record, whatever refreshes are doing.
Import ==
    /\ active = {}
    /\ active' = {Unloaded}
    /\ UNCHANGED <<now, upstream, stale, lock, threadVars, queries, checked>>

\* A query with refresh="if_needed" whose answer depends on the sources S; without a catalog it
\* is answered from the bundled contracts.
Query(t, S) ==
    /\ active # {}
    /\ queries < MaxQueries /\ queries' = queries + 1
    /\ Goto(t, "idle", "next")
    /\ todo' = [todo EXCEPT ![t] = S]
    /\ UNCHANGED <<now, upstream, active, stale, lock, src, view, staged, checked>>

Least(S) == CHOOSE s \in S : \A r \in S : s <= r

\* Under the source's lock: read the active generation; only aged records are refreshed
\* (faulty: fresh ones too; or no lock).
TakeFresh(t) ==
    /\ pc[t] = "next" /\ todo[t] # {}
    /\ LET s == Least(todo[t]) IN
          /\ lock[s] = None /\ lock' = [lock EXCEPT ![s] = t]
          /\ src' = [src EXCEPT ![t] = s]
          /\ todo' = [todo EXCEPT ![t] = @ \ {s}]
          /\ IF \E g \in active : TRUE
             THEN /\ pc' = [pc EXCEPT ![t] = "fetch"]
                  /\ view' = [view EXCEPT ![t] = CHOOSE g \in active : TRUE]
             ELSE pc' = [pc EXCEPT ![t] = "release"] /\ UNCHANGED view
    /\ UNCHANGED <<now, upstream, active, stale, staged, queries, checked>>
TakeUnlocked(t) ==
    /\ pc[t] = "next" /\ todo[t] # {}
    /\ LET s == Least(todo[t]) IN
          /\ lock' = [lock EXCEPT ![s] = t]
          /\ src' = [src EXCEPT ![t] = s]
          /\ todo' = [todo EXCEPT ![t] = @ \ {s}]
          /\ IF \E g \in active : aged(g, s)
             THEN /\ pc' = [pc EXCEPT ![t] = "fetch"]
                  /\ view' = [view EXCEPT ![t] = CHOOSE g \in active : TRUE]
             ELSE pc' = [pc EXCEPT ![t] = "release"] /\ UNCHANGED view
    /\ UNCHANGED <<now, upstream, active, stale, staged, queries, checked>>
Take(t) ==
    /\ pc[t] = "next" /\ todo[t] # {}
    /\ LET s == Least(todo[t]) IN
          /\ lock[s] = None /\ lock' = [lock EXCEPT ![s] = t]
          /\ src' = [src EXCEPT ![t] = s]
          /\ todo' = [todo EXCEPT ![t] = @ \ {s}]
          /\ IF \E g \in active : aged(g, s)
             THEN /\ pc' = [pc EXCEPT ![t] = "fetch"]
                  /\ view' = [view EXCEPT ![t] = CHOOSE g \in active : TRUE]
             ELSE pc' = [pc EXCEPT ![t] = "release"] /\ UNCHANGED view
    /\ UNCHANGED <<now, upstream, active, stale, staged, queries, checked>>

Stage(t) ==
    /\ Goto(t, "fetch", "activate")
    /\ staged' = [staged EXCEPT ![t] = [view[t] EXCEPT ![src[t]] =
                     [ver |-> upstream[src[t]], checked |-> now]]]
    /\ UNCHANGED <<now, upstream, active, stale, lock, todo, src, view, queries, checked>>

\* 304: the records stand and are marked as checked.
Unchanged(t) == Stage(t) /\ view[t][src[t]].ver = upstream[src[t]]

\* 200: the source's records are replaced, those of the others are taken from the generation
\* that was read; not when its products rest on other evidence too.
Changed(t) == Stage(t) /\ src[t] \notin Shared

\* The active row is replaced.
Activate(t) ==
    /\ Goto(t, "activate", "clear")
    /\ active' = {staged[t]}
    /\ checked' = [checked EXCEPT ![src[t]] = staged[t][src[t]].checked]
    /\ UNCHANGED <<now, upstream, stale, lock, todo, src, view, staged, queries>>

Clear(t) ==
    /\ Goto(t, "clear", "release")
    /\ stale' = stale \ {src[t]}
    /\ UNCHANGED <<now, upstream, active, lock, todo, src, view, staged, queries, checked>>

\* Transport, normalisation or storage failed, at any point: the source is marked stale.
Fail(t) ==
    /\ pc[t] \in {"fetch", "activate", "clear"}
    /\ pc' = [pc EXCEPT ![t] = "release"]
    /\ stale' = stale \cup {src[t]}
    /\ UNCHANGED <<now, upstream, active, lock, todo, src, view, staged, queries, checked>>

\* Leaving the `with` block (faulty: the lock of a source that needed nothing is kept).
ReleaseUsed(t) ==
    /\ Goto(t, "release", "next")
    /\ lock' = IF view[t] = Unloaded THEN lock ELSE [lock EXCEPT ![src[t]] = None]
    /\ src' = [src EXCEPT ![t] = None]
    /\ view' = [view EXCEPT ![t] = Unloaded] /\ staged' = [staged EXCEPT ![t] = Unloaded]
    /\ UNCHANGED <<now, upstream, active, stale, todo, queries, checked>>
Release(t) ==
    /\ Goto(t, "release", "next")
    /\ lock' = [lock EXCEPT ![src[t]] = None]
    /\ src' = [src EXCEPT ![t] = None]
    /\ view' = [view EXCEPT ![t] = Unloaded] /\ staged' = [staged EXCEPT ![t] = Unloaded]
    /\ UNCHANGED <<now, upstream, active, stale, todo, queries, checked>>

Return(t) ==
    /\ Goto(t, "next", "idle") /\ todo[t] = {}
    /\ UNCHANGED <<now, upstream, active, stale, lock, todo, src, view, staged, queries, checked>>

\* The process is restarted: threads and locks are gone, a generation staged but not
\* activated is never seen again.
Restart ==
    /\ \E t \in Threads : pc[t] # "idle"
    /\ pc' = [t \in Threads |-> "idle"]
    /\ todo' = [t \in Threads |-> {}]
    /\ src' = [t \in Threads |-> None]
    /\ view' = [t \in Threads |-> Unloaded]
    /\ staged' = [t \in Threads |-> Unloaded]
    /\ lock' = [s \in Sources |-> None]
    /\ UNCHANGED <<now, upstream, active, stale, queries, checked>>

\* Time passes; a provider publishes.
Tick ==
    /\ now < MaxTime /\ now' = now + 1
    /\ UNCHANGED <<upstream, active, stale, lock, threadVars, queries, checked>>
Publish(s) ==
    /\ upstream[s] < MaxVersion /\ upstream' = [upstream EXCEPT ![s] = @ + 1]
    /\ UNCHANGED <<now, active, stale, lock, threadVars, queries, checked>>

Work(t) ==
    \/ Take(t) \/ Unchanged(t) \/ Changed(t) \/ Activate(t) \/ Clear(t) \/ Fail(t)
    \/ Release(t) \/ Return(t)

Next ==
    \/ Import \/ Restart \/ Tick
    \/ \E s \in Sources : Publish(s)
    \/ \E t \in Threads : Work(t) \/ \E S \in (SUBSET Sources) \ {{}} : Query(t, S)

Spec == Init /\ [][Next]_vars

\* Threads run, and a request to a provider answers or times out.
FairSpec == Spec /\ \A t \in Threads : WF_vars(Work(t))
-----------------------------------------------------------------------------
\* Threads that refresh at the same time check a source once: nobody is about to fetch it
\* while another holds its lock.
OneChecker ==
    \A t, u \in Threads : src[t] # None /\ src[t] = src[u] => t = u

\* A refresh ends, with its lock released: the locks of a query are taken one at a time.
EveryQueryReturns == \A t \in Threads : pc[t] = "next" ~> pc[t] = "idle"

\* "test_refresh_one_source_retains_unrelated_catalog_records": a step that replaces the
\* active generation changes the records of one source at most.
RetainsUnrelated ==
    [][\A g \in active, h \in active' :
          Cardinality({s \in Sources : g[s] # h[s]}) <= 1]_vars

\* "test_concurrent_refresh_calls_share_one_source_check": a source is not fetched within the
\* cadence of a successful check of it.  This holds while one source is refreshed; with
\* several, a refresh of another source can bring the unchecked records back (RetainsUnrelated).
FetchedOncePerCadence ==
    \A t \in Threads : pc[t] = "fetch" => now > checked[src[t]] + Cadence[src[t]]
=============================================================================
