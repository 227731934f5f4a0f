-------------------------- MODULE WeatherPlanning --------------------------
(***************************************************************************)
(* From a weather request to a plan: WeatherService.discover and plan      *)
(* (openepw/service.py) with the rules of openepw/planning/batch.py and    *)
(* the validators of openepw/models.  What the catalog says of each item   *)
(* at each requested point is an input (its derivation is the module       *)
(* Eligibility); what becomes of the plan is JobExecution.  `hybrid` of a  *)
(* request is None when it is not enabled, else the assigned providers,    *)
(* perhaps none; `years` are its periods, a span of dates being one.       *)
(***************************************************************************)
EXTENDS Naturals, Sequences, FiniteSets, SequencesExt, FiniteSetsExt

CONSTANTS
    Items,      \* what can be retrieved, by id: a sequence of [provider, dataset, product, variant,
                \* kind ("grid", "station" or "file"), listed, grade (fields and distance), missing, gated]
    Providers,  \* registered providers, in order
    Requests,   \* requests as they arrive
    Handed,     \* requests whose discovery a caller may hand to plan
    Findings,   \* what the catalog may find of the items at a point: DOMAIN Items -> Statuses
    MaxOutputs, MaxTasks,   \* limits of a plan
    OptionLimit,            \* options kept of an occurrence (50)
    None

VARIABLES request, stage, discovery, plan

vars == <<request, stage, discovery, plan>>

Occurrences == DOMAIN request.points
Demands(r) == IF r.selections = <<>> THEN <<None>> ELSE r.selections
Periods(r) == IF r.years = <<>> THEN <<None>> ELSE r.years
Actual(r) == r.product = "historical"
Injective(s) == Cardinality(ToSet(s)) = Len(s)

\* WeatherRequest.valid.
Valid(r) ==
    /\ r.points # <<>>
    /\ Actual(r) <=> r.years # <<>>
    /\ Injective(r.years) /\ Injective(r.selections)
    /\ ~(r.selections # <<>> /\ r.hybrid # None)
-----------------------------------------------------------------------------
\* A candidate: an item for a point.  Its source has the point's own rest (elevation, offset).
Base(item, point) == [item |-> item, key |-> point.key]
Candidate(item, point) ==
    [id |-> <<Base(item, point)>>, base |-> Base(item, point), item |-> item,
     rest |-> point.rest]

\* An id another occurrence or option has already is followed by the occurrence and, if need
\* be, a number (faulty: it is used again).
SameId(c, occ, used) == c
ForOccurrence(c, occ, used) ==
    IF c.id \notin used THEN c
    ELSE LET Marked(n) == Append(c.id, IF n = 0 THEN <<occ>> ELSE <<occ, n>>)
             free == CHOOSE n \in 0..Cardinality(used) :
                        Marked(n) \notin used /\ \A k \in 0..(n - 1) : Marked(k) \in used
         IN [c EXCEPT !.id = Marked(free)]

Ids(cands) == {c.id : c \in ToSet(cands)}
AddAll(cands, items, point, occ) ==
    FoldLeft(LAMBDA cs, i : Append(cs, ForOccurrence(Candidate(i, point), occ, Ids(cs))), cands, items)
NewIds(before, after) == [n \in 1..(Len(after) - Len(before)) |-> after[Len(before) + n].id]

\* A published file or a station can be asked for by its product.
Named(item, product) == product # None /\ item.kind \in {"station", "file"} => item.product = product

\* What a provider that answers offers for a dataset (any, if None) and a product.
Offers(provider, dataset, product, down) ==
    IF provider \in down THEN <<>>
    ELSE SelectSeq(Items, LAMBDA i : /\ i.provider = provider /\ (dataset = None \/ i.dataset = dataset)
                                     /\ Named(i, product))
-----------------------------------------------------------------------------
\* _relevant_product: what a request does not rule out by its providers, datasets or product.
Relevant(r, item) ==
    /\ r.providers # <<>> => item.provider \in ToSet(r.providers)
    /\ r.selections # <<>> =>
          \E s \in ToSet(r.selections) : s.provider = item.provider /\ s.dataset = item.dataset
    /\ r.dataset # None => r.dataset = item.dataset
    /\ Named(item, r.product_id)

Statuses == {"supported", "unknown", "excluded", "expired", "absent"}
Order == [supported |-> 0, unknown |-> 1, excluded |-> 2, expired |-> 2]
Flag(b) == IF b THEN 1 ELSE 0
Turn(r, provider) ==
    LET n == SelectInSeq(r.providers, LAMBDA p : p = provider) IN IF n = 0 THEN Len(r.providers) + 1 ELSE n
Lower(a, b) == \E i \in DOMAIN a : a[i] < b[i] /\ \A j \in 1..(i - 1) : a[j] = b[j]

\* The options of an occurrence, ranked: supported, then unknown, then excluded; then by grade, age,
\* access and the request's own order of providers (faulty: as the catalog lists them).
Rank(r, of, n) ==
    <<Order[of[n]], Items[n].grade, Flag(of[n] = "expired"), Flag(Items[n].gated), Turn(r, Items[n].provider), n>>
Known(r, of) == {n \in DOMAIN Items : Relevant(r, Items[n]) /\ of[n] # "absent"}
Listed(r, of) == SetToSortSeq(Known(r, of), <)
Ranked(r, of) == SetToSortSeq(Known(r, of), LAMBDA m, n : Lower(Rank(r, of, m), Rank(r, of, n)))

\* _compact_availability: the lower-ranked ones are left out.
Options(r, of) == LET s == Ranked(r, of) IN SubSeq(s, 1, Min({OptionLimit, Len(s)}))
Included(s) == s \in {"supported", "unknown"}   \* "expired": excluded by a source check that is due

\* One option becomes a candidate of its own or those its provider offers; the first of these
\* takes the option's place, the others come last.
Resolve(r, status, down, occ, acc, n) ==
    LET own == status[occ][n] = "supported" /\ Items[n].listed
        found == IF own THEN <<Items[n]>> ELSE Offers(Items[n].provider, Items[n].dataset, r.product_id, down)
        cands == AddAll(acc.cands, found, r.points[occ], occ)
        ids == NewIds(acc.cands, cands)
    IN IF ~Included(status[occ][n]) \/ ids = <<>> THEN acc
       ELSE [acc EXCEPT !.cands = cands, !.ranked = Append(@, Head(ids)), !.extra = @ \o Tail(ids)]

\* discover with an active catalog.
Discovery(r, status, down) ==
    FoldLeft(LAMBDA acc, occ :
        LET one == FoldLeft(LAMBDA a, n : Resolve(r, status, down, occ, a, n),
                            [cands |-> acc.cands, ranked |-> <<>>, extra |-> <<>>], Options(r, status[occ]))
        IN [acc EXCEPT !.cands = one.cands, !.ids = Append(@, one.ranked \o one.extra)],
        [of |-> r, cands |-> <<>>, ids |-> <<>>, status |-> status, down |-> down], [n \in DOMAIN r.points |-> n])

\* _discover_live: no catalog; every asked provider is queried, once per selection.
Queries(r) ==
    LET asked == SelectSeq(Providers, LAMBDA p : r.providers = <<>> \/ p \in ToSet(r.providers))
        product(s) == IF s.product = None THEN r.product_id ELSE s.product
    IN IF r.selections # <<>>
       THEN [n \in DOMAIN r.selections |->
                <<r.selections[n].provider, r.selections[n].dataset, product(r.selections[n])>>]
       ELSE [n \in DOMAIN asked |-> <<asked[n], r.dataset, r.product_id>>]
LiveRank(r, c) == <<c.item.missing, Turn(r, c.item.provider), Flag(c.item.gated)>>
StableSort(cs, Less(_, _)) ==
    LET before(m, n) == Less(cs[m], cs[n]) \/ (~Less(cs[n], cs[m]) /\ m < n)
        order == SetToSortSeq(DOMAIN cs, before)
    IN [n \in DOMAIN cs |-> cs[order[n]]]
LiveDiscovery(r, down) ==
    FoldLeft(LAMBDA acc, occ :
        LET all == FoldLeft(LAMBDA cs, q : AddAll(cs, Offers(q[1], q[2], q[3], down), r.points[occ], occ),
                            acc.cands, Queries(r))
            choices == StableSort(SubSeq(all, Len(acc.cands) + 1, Len(all)),
                                  LAMBDA c, e : Lower(LiveRank(r, c), LiveRank(r, e)))
        IN [acc EXCEPT !.cands = all, !.ids = Append(@, [n \in DOMAIN choices |-> choices[n].id])],
        [of |-> r, cands |-> <<>>, ids |-> <<>>, status |-> None, down |-> down], [n \in DOMAIN r.points |-> n])
-----------------------------------------------------------------------------
\* The candidates of an occurrence, best first.
ById(d, id) == SelectLastInSeq(d.cands, LAMBDA c : c.id = id)
Ranking(d, occ) == [n \in DOMAIN d.ids[occ] |-> d.cands[ById(d, d.ids[occ][n])]]

\* DatasetSelection.matches.
Matches(s, item) ==
    /\ s.provider = item.provider /\ s.dataset = item.dataset
    /\ s.product # None => s.product = item.product
    /\ s.variant # None => s.variant = item.variant
Suits(demand, item) == demand = None \/ Matches(demand, item)
FirstOf(cs, Test(_)) == LET hits == SelectSeq(cs, Test) IN IF hits = <<>> THEN <<>> ELSE <<Head(hits)>>

\* Who serves an occurrence: [cands, demand] groups, each an output per period.
Chosen(r, d, occ) ==
    LET cs == Ranking(d, occ) IN
    IF r.hybrid = <<>> THEN <<>>
    ELSE IF r.hybrid # None
    THEN LET parts == [n \in DOMAIN r.hybrid |-> FirstOf(cs, LAMBDA c : c.item.provider = r.hybrid[n])]
         IN <<[cands |-> FlattenSeq(parts), demand |-> None]>>
    ELSE FlattenSeq([n \in DOMAIN Demands(r) |->
            LET hit == FirstOf(cs, LAMBDA c : Suits(Demands(r)[n], c.item))
            IN IF hit = <<>> THEN <<>> ELSE <<[cands |-> hit, demand |-> Demands(r)[n]]>>])
Missing(r, d, occ) ==
    IF r.hybrid # None /\ r.hybrid # <<>> THEN <<>>
    ELSE SelectSeq(Demands(r), LAMBDA s : \A g \in ToSet(Chosen(r, d, occ)) : g.demand # s)

\* missing_selection_status.
SameDataset(i, j) == i.provider = j.provider /\ i.dataset = j.dataset
Of(demand, ns) == {n \in ns : demand # None => SameDataset(Items[n], demand)}
Concerned(d, occ, demand) == Of(demand, ToSet(Options(d.of, d.status[occ])))
MissingStatus(d, occ, demand) ==
    IF d.status # None /\ Concerned(d, occ, demand) # {}
       /\ \A n \in Concerned(d, occ, demand) : d.status[occ][n] = "excluded"
    THEN "unsupported" ELSE "unresolved"

\* A fetch: equal source and parameters are one task.  A published file needs no place, a
\* station is asked for at its own.
Task(c, point, period) ==
    [item |-> c.item, rest |-> IF c.item.kind = "station" THEN c.rest ELSE None, period |-> period,
     place |-> CASE c.item.kind = "file" -> None
                 [] c.item.kind = "station" -> <<c.item.product, point.rest>>
                 [] OTHER -> <<point.place, point.rest>>]
TasksOf(d, g, occ, period) == {Task(c, d.of.points[occ], period) : c \in ToSet(g.cands)}

\* output_id: the digest of all this.
OutputId(r, d, g, occ, period) ==
    <<d.of.points[occ].key, occ, TasksOf(d, g, occ, period), g.demand, r.product, period>>

Planned(r, d, g, occ, period) ==
    [occ |-> occ, demand |-> g.demand, period |-> period, status |-> "planned",
     tasks |-> TasksOf(d, g, occ, period), output |-> OutputId(r, d, g, occ, period)]
Unplanned(d, occ, demand, period) ==
    [occ |-> occ, demand |-> demand, period |-> period, status |-> MissingStatus(d, occ, demand),
     tasks |-> {}, output |-> None]

\* The batch rows, and the outputs that the planned ones stand for.
RowsOf(r, d, occ) ==
    LET ps == Periods(r) IN
    FlattenSeq([n \in DOMAIN Missing(r, d, occ) |->
        [p \in DOMAIN ps |-> Unplanned(d, occ, Missing(r, d, occ)[n], ps[p])]])
    \o FlattenSeq([p \in DOMAIN ps |->
        [n \in DOMAIN Chosen(r, d, occ) |-> Planned(r, d, Chosen(r, d, occ)[n], occ, ps[p])]])
Rows(r, d) == FlattenSeq([occ \in DOMAIN r.points |-> RowsOf(r, d, occ)])
PlanOf(r, d) ==
    LET rows == Rows(r, d)
        made == SelectSeq(rows, LAMBDA row : row.status = "planned")
    IN [rows |-> rows, outputs |-> [n \in DOMAIN made |-> made[n].output],
        tasks |-> UNION {row.tasks : row \in ToSet(made)}]

\* WeatherPlan.valid.
Accepted(p) ==
    /\ Len(p.outputs) <= MaxOutputs /\ Cardinality(p.tasks) <= MaxTasks
    /\ Injective(p.outputs)
    /\ Injective([n \in DOMAIN p.rows |-> <<p.rows[n].occ, p.rows[n].demand, p.rows[n].period>>])
-----------------------------------------------------------------------------
Init == request \in Requests /\ stage = "asked" /\ discovery = None /\ plan = None

\* The request is no WeatherRequest.
Reject == stage = "asked" /\ ~Valid(request) /\ stage' = "invalid" /\ UNCHANGED <<request, discovery, plan>>

\* plan refuses what it would have to interpolate, and what is too much.
Fractional(r) == Actual(r) /\ \E p \in ToSet(r.points) : p.fractional
TooMuch(r) == Len(r.points) * Len(Periods(r)) * Len(Demands(r)) > MaxOutputs
Refuse ==
    /\ stage = "asked" /\ Valid(request) /\ (Fractional(request) \/ TooMuch(request))
    /\ stage' = "refused" /\ UNCHANGED <<request, discovery, plan>>

\* A discovery of its own, or one of another request that a caller hands over: it must be of the
\* same locations, by their keys.
Keys(r) == [n \in DOMAIN r.points |-> r.points[n].key]
MayDiscover == stage = "asked" /\ Valid(request) /\ ~Fractional(request) /\ ~TooMuch(request)
Discover ==
    /\ MayDiscover
    /\ stage' = "discovered" /\ UNCHANGED <<request, plan>>
    /\ \E of \in {request} \cup {r \in Handed : Valid(r) /\ Keys(r) = Keys(request)}, down \in SUBSET ToSet(Providers) :
          \/ discovery' = LiveDiscovery(of, down)
          \/ \E status \in [DOMAIN of.points -> Findings] : discovery' = Discovery(of, status, down)
RefuseStale ==
    /\ MayDiscover /\ \E r \in Handed : Valid(r) /\ Keys(r) # Keys(request)
    /\ stage' = "refused" /\ UNCHANGED <<request, discovery, plan>>

\* A hybrid needs each assigned provider and actual years.
HybridRefused(r, d) ==
    /\ r.hybrid # None
    /\ \/ ~Actual(r)
       \/ \E occ \in DOMAIN r.points : \E p \in ToSet(r.hybrid) :
             \A c \in ToSet(Ranking(d, occ)) : c.item.provider # p
RefuseHybrid ==
    /\ stage = "discovered" /\ HybridRefused(request, discovery)
    /\ stage' = "refused" /\ UNCHANGED <<request, discovery, plan>>
Plan ==
    /\ stage = "discovered" /\ ~HybridRefused(request, discovery)
    /\ LET p == PlanOf(request, discovery) IN
       /\ plan' = p
       /\ stage' = IF Accepted(p) THEN "planned" ELSE "broken"
    /\ UNCHANGED <<request, discovery>>

\* execute starts; a plan without outputs has nothing to run.
Execute ==
    /\ stage = "planned" /\ plan.outputs # <<>>
    /\ stage' = "running" /\ UNCHANGED <<request, discovery, plan>>
NothingToRun ==
    /\ stage = "planned" /\ plan.outputs = <<>>
    /\ stage' = "refused" /\ UNCHANGED <<request, discovery, plan>>

Next == Reject \/ Refuse \/ Discover \/ RefuseStale \/ RefuseHybrid \/ Plan \/ Execute \/ NothingToRun

Spec == Init /\ [][Next]_vars
-----------------------------------------------------------------------------
\* Every demand of every occurrence has one row per period; the row is planned exactly when
\* something that was found can serve it (a hybrid that assigns no provider is served by nobody),
\* and is "unsupported" only when the catalog excludes every option, those that were left out
\* too, and those that were kept on current evidence.  Rows and outputs agree one to one, and no
\* plan fails its own validation except for the number of its tasks (a hybrid has several per
\* output, which the limit that plan checks first does not count).
RowsFor(occ, demand, period) ==
    {n \in DOMAIN plan.rows : /\ plan.rows[n].occ = occ /\ plan.rows[n].demand = demand
                              /\ plan.rows[n].period = period}
Served(occ, demand) == \E c \in ToSet(Ranking(discovery, occ)) : Suits(demand, c.item)
RowIsRight(row) ==
    /\ row.status = "planned" <=> Served(row.occ, row.demand) /\ request.hybrid # <<>>
    /\ row.status = "unsupported" =>
          LET of == discovery.status[row.occ]
              all == Of(row.demand, Known(discovery.of, of)) IN
          /\ all # {} /\ \A n \in all : of[n] \in {"excluded", "expired"}
          /\ Cardinality(Known(discovery.of, of)) <= OptionLimit => \A n \in all : of[n] = "excluded"
PlanAccounts ==
    /\ stage \in {"planned", "running"} =>
          /\ \A occ \in Occurrences, demand \in ToSet(Demands(request)), period \in ToSet(Periods(request)) :
                Cardinality(RowsFor(occ, demand, period)) = 1
          /\ \A row \in ToSet(plan.rows) : RowIsRight(row)
          /\ ToSet(plan.outputs) = {row.output : row \in ToSet(plan.rows)} \ {None}
    /\ stage = "broken" => Cardinality(plan.tasks) > MaxTasks

\* What an output fetches is what its occurrence asked for: a source that suits the demand, at
\* that point (its own elevation and offset, as the discovery has them), for that period; every
\* assigned provider of a hybrid, and none a request of its own rules out.  No task is fetched
\* for nobody.
FetchesFor(row, t) ==
    LET point == discovery.of.points[row.occ] IN
    /\ point.key = request.points[row.occ].key
    /\ discovery.of = request => point = request.points[row.occ] /\ Relevant(request, t.item)
    /\ t.period = row.period /\ Suits(row.demand, t.item)
    /\ t.item.kind = "grid" => t.place = <<point.place, point.rest>>
    /\ t.item.kind = "station" => t.place = <<t.item.product, point.rest>> /\ t.rest = point.rest
OutputsFetchWhatWasAsked ==
    stage \in {"planned", "running"} =>
        /\ \A row \in ToSet(plan.rows) : \A t \in row.tasks : FetchesFor(row, t)
        /\ \A row \in ToSet(plan.rows) :
              row.status = "planned" /\ request.hybrid # None =>
                  {t.item.provider : t \in row.tasks} = ToSet(request.hybrid)
        /\ \A t \in plan.tasks : \E row \in ToSet(plan.rows) : t \in row.tasks

\* A planned row takes the option the catalog ranks best for its demand among those that lead to
\* anything: that very item if the catalog lists it, else one its provider offers for the dataset.
\* Candidates found on the way to other options never come before it.
Leads(d, occ, n) ==
    /\ Included(d.status[occ][n])
    /\ \/ d.status[occ][n] = "supported" /\ Items[n].listed
       \/ Items[n].provider \notin d.down
Serving(d, row) == {n \in Concerned(d, row.occ, row.demand) : Leads(d, row.occ, n)}
BestFor(d, row) ==
    LET rank(n) == Rank(d.of, d.status[row.occ], n)
    IN CHOOSE n \in Serving(d, row) : \A m \in Serving(d, row) : m = n \/ Lower(rank(n), rank(m))
BestIsPlanned ==
    (stage \in {"planned", "running"} /\ discovery.status # None /\ request.hybrid = None) =>
        \A row \in ToSet(plan.rows) :
            (row.status = "planned" /\ (row.demand # None => row.demand.product = None /\ row.demand.variant = None)) =>
                LET best == BestFor(discovery, row) IN
                \A t \in row.tasks :
                    /\ SameDataset(t.item, Items[best])
                    /\ discovery.status[row.occ][best] = "supported" /\ Items[best].listed => t.item = Items[best]
=============================================================================
