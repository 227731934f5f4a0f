---------------------------- MODULE Eligibility ----------------------------
(***************************************************************************)
(* Whether the catalog supports an option for a request:  _assess and      *)
(* _temporal of openepw/availability/evaluate.py.  A question is an option *)
(* with the request's years or window; comparisons of distances, fields    *)
(* and access are inputs (barred, vague), what the evidence says in time   *)
(* and place is worked out here.                                           *)
(***************************************************************************)
EXTENDS Naturals, Sequences, FiniteSets, FiniteSetsExt

CONSTANTS
    Questions,  \* [kind, years, window, provider, fits, barred, vague, land, place, entries, due]
    Now,        \* the current year
    None

VARIABLES question, decision

vars == <<question, decision>>

\* Providers whose catalog holds probes of single points; those whose own record documents
\* a period.
Probed == {"nsrdb", "pvgis"}
Official == {"cds"}

NewestYear(q) == IF q.years = {} THEN 0 ELSE Max(q.years)
OldestYear(q) == Min(q.years)
-----------------------------------------------------------------------------
\* _temporal: what one entry says; the second part is a reason that a due check can undo.
Says(status) == <<status, FALSE>>
ActualSays(q, e) ==
    CASE e.kind # "actual" -> Says("excluded")
      [] e.kind = "actual" /\ e.years # {} ->
            Says(IF q.years \subseteq e.years THEN "supported" ELSE "unknown")
      [] e.kind = "actual" /\ e.years = {} ->
            IF e.from # None /\ q.years # {} /\ OldestYear(q) < e.from THEN Says("excluded")
            ELSE IF e.to # None /\ NewestYear(q) > (IF e.cut THEN e.to - 1 ELSE e.to) THEN Says("unknown")
            ELSE IF e.to = None /\ NewestYear(q) >= Now THEN Says("unknown")
            ELSE Says(IF e.site = FALSE /\ (e.documented \/ q.provider \in Official) THEN "supported" ELSE "unknown")
TypicalSays(q, e) == Says(IF e.kind # "typical" \/ e.other THEN "excluded" ELSE "supported")
\* (No window: that, or the model or member, is unverified.)
FutureSays(q, e) ==
    IF e.kind # "future" \/ e.other THEN Says("excluded")
    ELSE IF e.window = None THEN Says("unknown")
    ELSE IF e.window # q.window THEN <<"excluded", TRUE>>
    ELSE Says(IF e.partial THEN "unknown" ELSE "supported")
Temporal(q, e) ==
    CASE q.kind = "actual" -> ActualSays(q, e)
      [] q.kind = "typical" -> TypicalSays(q, e)
      [] OTHER -> FutureSays(q, e)

\* The positions of the entries that apply at the point: a probe's own, or what the mask stands in
\* for; a probe of another point says nothing here (faulty: it does).
Here(q) == {n \in DOMAIN q.entries : q.entries[n].probe = "here"}
Area(q) == {n \in DOMAIN q.entries : q.entries[n].probe = None}
Gated(q) == q.provider \in Probed /\ Area(q) # DOMAIN q.entries /\ q.place # "outside"
AppliesAnywhere(q) == DOMAIN q.entries
Applies(q) ==
    CASE ~Gated(q) -> DOMAIN q.entries
      [] Gated(q) /\ Here(q) # {} -> Here(q)
      [] Gated(q) /\ Here(q) = {} /\ q.place = "inside" -> IF Area(q) # {} THEN Area(q) ELSE DOMAIN q.entries
      [] OTHER -> {}

\* The entry that decides: the first that supports, else the first unknown, else the first.
Said(q, n) == Temporal(q, q.entries[n])
Saying(q, status) == {n \in Applies(q) : Said(q, n)[1] = status}
Candidates(q) ==
    IF Saying(q, "supported") # {} THEN Saying(q, "supported")
    ELSE IF Saying(q, "unknown") # {} THEN Saying(q, "unknown") ELSE Applies(q)
Best(q) == IF Applies(q) = {} THEN Says("unknown") ELSE Said(q, Min(Candidates(q)))

\* _time_sensitive: evidence of this kind ages; a list that ends with the year asked for is open.
Ages(q, e) ==
    /\ e.kind = "actual"
    /\ \/ e.years # {} /\ NewestYear(q) >= Max(e.years)
       \/ e.years = {} /\ e.to = None /\ NewestYear(q) >= Now - 1
       \/ e.years = {} /\ e.to # None /\ NewestYear(q) >= e.to
TimeSensitive(q) ==
    q.kind = "future" \/ (q.kind = "actual" /\ \E n \in Applies(q) : Ages(q, q.entries[n]))

\* _assess: hard exclusions first, then anything unknown.  What the deciding entry rules out stays
\* so, unless it is a listing whose check is due (faulty: unless any check is due).
Unmapped(q) == q.land /\ q.place # "inside"
Due(q) == q.due \/ \E n \in Applies(q) : q.entries[n].due
StandsWhileCurrent(q, said) == ~Due(q)
Stands(q, said) == ~said[2] \/ ~Due(q)
Out(q) == Best(q)[1] = "excluded" /\ Stands(q, Best(q))
Doubts(q) == q.vague \/ Unmapped(q) \/ Best(q)[1] = "unknown" \/ (Due(q) /\ TimeSensitive(q))
Assess(q) ==
    CASE q.barred \/ ~q.fits \/ q.place = "outside" \/ Out(q) -> "excluded"
      [] OTHER -> IF Doubts(q) THEN "unknown" ELSE "supported"
-----------------------------------------------------------------------------
Init == question \in Questions /\ decision = None
Evaluate == decision = None /\ decision' = Assess(question) /\ UNCHANGED question
Next == Evaluate
Spec == Init /\ [][Next]_vars
-----------------------------------------------------------------------------
\* "Supported" rests on evidence that applies at the point: an entry of the probe there, of the
\* whole area, or of a place inside the reviewed mask, for every year asked, not after a due
\* check of facts that change.
LastFull(e) == IF e.to = None THEN Now - 1 ELSE IF e.cut THEN e.to - 1 ELSE e.to
Closed(q, e) ==
    IF e.years # {} THEN NewestYear(q) < Max(e.years)
    ELSE NewestYear(q) < (IF e.to = None THEN Now - 1 ELSE e.to)
Vouches(q, e) ==
    /\ e.kind = q.kind
    /\ e.probe = "elsewhere" /\ q.provider \in Probed => q.place = "inside"
    /\ q.kind = "actual" => \A y \in q.years :
          \/ y \in e.years
          \/ e.years = {} /\ (e.from # None => y >= e.from) /\ y <= LastFull(e)
    /\ q.kind = "future" => e.window = q.window
SupportedIsEvidenced ==
    decision = "supported" =>
        /\ question.place # "outside" /\ (question.land => question.place = "inside")
        /\ \E n \in DOMAIN question.entries : LET e == question.entries[n] IN
              /\ Vouches(question, e)
              /\ e.due => CASE question.kind = "actual" -> Closed(question, e)
                            [] OTHER -> question.kind = "typical"

\* A check that falls due can only weaken what the catalog says: it never makes an option
\* supported, or excludes one; it undoes an exclusion only where a directory may since have
\* gained the window.
Overdue(q) == [q EXCEPT !.due = TRUE, !.entries = [n \in DOMAIN q.entries |-> [q.entries[n] EXCEPT !.due = TRUE]]]
DueOnlyWeakens ==
    decision # None =>
        LET later == Assess(Overdue(question)) IN
        /\ later = "supported" => decision = "supported"
        /\ later = "excluded" => decision = "excluded"
        /\ decision = "excluded" /\ later # "excluded" => question.kind = "future"
=============================================================================
