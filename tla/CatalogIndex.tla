----------------------------- MODULE CatalogIndex -----------------------------
(***************************************************************************)
(* What an assessment reads from a stored catalog generation               *)
(* (openepw/availability/catalog_index.py).  Published files (onebuilding) *)
(* and stations (noaa) are lazy: the index keeps their ids, positions and  *)
(* references and loads the records through a small cache; everything else *)
(* is held.  The index is computed once per generation and saved beside    *)
(* the database.  MemoryAnswer is the reference: the same assessment over  *)
(* every record of the generation, its distances compared one by one.      *)
(* A generation is [products, sites, entries]; ids order the tables.  The  *)
(* earth is a line of integer positions; a site's `off` is the error of    *)
(* the vectorised distance to it.                                          *)
(***************************************************************************)
EXTENDS Integers, Sequences, FiniteSets, SequencesExt

CONSTANTS None,
          Shelves,                   \* sequences of generations the database may hold
          Queries,                   \* [future, named, years, providers, here]
          Nearest, Known,            \* published files (20) and other sites (5) considered
          Listed, Uncertain, Reach,  \* stations with the years (5), without (3), within 100 km
          Capacity,                  \* records the cache holds (8192)
          Margin                     \* by which the first pass may be off, twice an `off`

VARIABLES shelf,     \* the generations of the database
          active,    \* the active one
          saved,     \* generation -> its index.json: None or [format, of, state]
          loaded,    \* the store's index: None or [of, state, cache], cache a sequence of keys
          answered   \* the last answer: [of, query, options, points]

vars == <<shelf, active, saved, loaded, answered>>
Lazy == {"onebuilding", "noaa"}
Format == 1
ById(S) == SetToSortSeq(S, LAMBDA a, b : a.id < b.id)
Ids(S) == {r.id : r \in S}
First(s, n) == SubSeq(s, 1, IF Len(s) < n THEN Len(s) ELSE n)
WithId(S, i) == CHOOSE r \in S : r.id = i
-----------------------------------------------------------------------------
\* Distances and the two passes of SiteIndex.nearest.  A position may be missing or too rough.
Positioned(S) == {s \in S : s.at # None /\ ~s.broad}
Away(s, here) == IF s.at < here THEN here - s.at ELSE s.at - here
Roughly(s, here) == Away(s, here) + s.off
Within(S, here, radius) == {s \in S : radius = None \/ Away(s, here) <= radius}

Ranked(S, here, Key(_)) ==
    SetToSortSeq(S, LAMBDA a, b :
        \/ Away(a, here) < Away(b, here)
        \/ Away(a, here) = Away(b, here) /\ (Key(a) < Key(b) \/ (Key(a) = Key(b) /\ a.id < b.id)))
Scan(S, here, count, radius, Key(_)) == First(Ranked(Within(Positioned(S), here, radius), here, Key), count)

\* The first pass keeps what is roughly as near as the count-th and the radius, give or take a margin.
Far(S, here, count, radius) ==
    LET nth == {s \in S : Cardinality({t \in S : Roughly(t, here) <= Roughly(s, here)}) >= count}
        bounds == (IF radius = None THEN {} ELSE {radius})
                  \cup (IF count < Cardinality(S) THEN {Roughly(s, here) : s \in nth} ELSE {})
    IN IF bounds = {} THEN None ELSE CHOOSE b \in bounds : \A c \in bounds : b <= c
\* (Faulty: without the margin.)
Strictly(S, here, count, radius) ==
    LET far == Far(S, here, count, radius) IN {s \in S : far = None \/ Roughly(s, here) <= far}
MayPass(S, here, count, radius) ==
    LET far == Far(S, here, count, radius) IN {s \in S : far = None \/ Roughly(s, here) <= far + Margin}
TwoPasses(S, here, count, radius, Key(_)) ==
    First(Ranked(Within(MayPass(Positioned(S), here, count, radius), here, radius), here, Key), count)
Own(s) == s.id
Published(s) == s.product
-----------------------------------------------------------------------------
\* evaluate: the products, sites and entries considered, in order, from the lookups of an index.
Names(q, p) == q.named \in {<<"id", p.id>>, <<"url", p.native>>, <<"path", p.native>>}
Relevant(q, p) ==
    IF q.future THEN p.future
    ELSE /\ q.providers = {} \/ p.provider \in q.providers
         /\ (p.provider = "onebuilding" /\ q.named # None) => Names(q, p)

Stations(q, near, EntriesOf(_)) ==
    LET lists(s) == \E e \in EntriesOf(s) : e.actual /\ q.years \subseteq e.years
        listed == First(SelectSeq(near, lists), Listed)
        others == First(SelectSeq(near, LAMBDA s : \A i \in DOMAIN listed : listed[i].id # s.id), Uncertain)
    IN listed \o others

Candidates(q, p, SitesOf(_), SiteCalled(_), Near(_, _, _), EntriesOf(_, _)) ==
    LET first == <<SitesOf(p)[1]>>
        station == Stations(q, Near(p, 1000, Reach), LAMBDA s : EntriesOf(p.id, s.id))
        known == Near(p, Known, None)
    IN IF SitesOf(p) = <<>> THEN <<None>>
       ELSE IF ~q.future /\ p.provider = "noaa" /\ q.named # None
       THEN LET s == SiteCalled(q.named) IN IF s # None /\ s.product = p.id THEN <<s>> ELSE <<>>
       ELSE IF ~q.future /\ p.provider = "onebuilding" /\ q.named # None THEN first
       ELSE IF ~q.future /\ p.provider = "noaa" /\ station # <<>> THEN station
       ELSE IF known # <<>> THEN known ELSE first

Options(q, products, SitesOf(_), SiteCalled(_), Near(_, _, _), EntriesOf(_, _)) ==
    FlattenSeq([i \in DOMAIN products |->
        LET p == products[i]
            option(s) == LET site == IF s = None THEN None ELSE s.id
                         IN [product |-> p.id, site |-> site, entries |-> Ids(EntriesOf(p.id, site))]
            sites == Candidates(q, p, SitesOf, SiteCalled, Near, EntriesOf)
        IN IF Relevant(q, p) THEN [j \in DOMAIN sites |-> option(sites[j])] ELSE <<>>])

\* SitePoints: an entry is drawn at its site when both are lazy, or counted as missing.
Point(p, e, s) ==
    [provider |-> p.provider, entry |-> e.id,
     at |-> IF s.at = None THEN "missing" ELSE IF p.provider = "noaa" /\ s.at = 0 THEN "zero" ELSE "drawn"]
Draws(p, e) == p.provider = IF e.actual THEN "noaa" ELSE "onebuilding"
-----------------------------------------------------------------------------
\* CatalogIndex: every record held.
MemoryAnswer(g, q) ==
    LET own(p) == {s \in g.sites : s.product = p.id}
        sitesOf(p) == ById(own(p))
        called(n) == IF \E s \in g.sites : n = <<"site", s.id>> THEN WithId(g.sites, n[2]) ELSE None
        near(p, count, radius) == Scan(own(p), q.here, count, radius, Own)
        entriesOf(p, s) == {e \in g.entries : e.product = p /\ e.site = s}
        files == {s \in g.sites : WithId(g.products, s.product).provider = "onebuilding"}
        chosen == {s.product : s \in ToSet(Scan(files, q.here, Nearest, None, Published))}
        products == {p \in g.products : p.provider # "onebuilding" \/ q.future \/ q.named # None \/ p.id \in chosen}
    IN Options(q, ById(products), sitesOf, called, near, entriesOf)
MemoryPoints(g) ==
    {Point(WithId(g.products, e.product), e, WithId(g.sites, e.site)) :
        e \in {x \in g.entries : x.site # None /\ Draws(WithId(g.products, x.product), x)}}
-----------------------------------------------------------------------------
\* _build_state: one pass over the tables in the order of their ids.
LazyIds(g) == {p.id : p \in {x \in g.products : x.provider \in Lazy}}
Rows(g, p) == ById({s \in g.sites : s.product = p})
BuildState(g) ==
    LET lazy == LazyIds(g)
        files == {p \in g.products : p.provider = "onebuilding"}
        listed == {e \in g.entries : e.product \in lazy}
    IN [held       |-> g.products \ files,
        lazy       |-> lazy,
        files      |-> Ids(files),
        references |-> {<<<<"id", p.id>>, p.id>> : p \in files}
                       \cup {<<<<"url", p.native>>, p.id>> : p \in {f \in files : f.native # None}},
        sites      |-> {s \in g.sites : s.product \notin lazy},
        rows       |-> [p \in {s.product : s \in g.sites} \cap lazy |-> Rows(g, p)],
        entries    |-> g.entries \ listed,
        ids        |-> [k \in {<<e.product, e.site>> : e \in listed} |->
                           {e.id : e \in {x \in listed : x.product = k[1] /\ x.site = k[2]}}],
        points     |-> MemoryPoints(g)]

\* _load: from the cache, else from the database of the index.
Load(n, cache, table, ids) ==
    {IF \E i \in DOMAIN cache : cache[i].table = table /\ cache[i].record.id = id
     THEN cache[CHOOSE i \in DOMAIN cache : cache[i].table = table /\ cache[i].record.id = id].record
     ELSE WithId(shelf[n][table], id) : id \in ids}
Remember(n, options, x, cache) ==
    LET lazily == SelectSeq(options, LAMBDA o : o.product \in x.lazy /\ o.site # None)
        new(table, id) == [table |-> table, record |-> WithId(shelf[n][table], id)]
        read == FlattenSeq([i \in DOMAIN lazily |->
                    <<new("products", lazily[i].product), new("sites", lazily[i].site)>>
                    \o [j \in 1..Cardinality(lazily[i].entries) |->
                           new("entries", SetToSeq(lazily[i].entries)[j])]])
        all == cache \o read
    IN SubSeq(all, IF Len(all) > Capacity THEN Len(all) - Capacity + 1 ELSE 1, Len(all))

\* StoreCatalogIndex: the same lookups; a file is named by its id, its address or its path.
Refers(x, named) ==
    LET key == IF named[1] = "path" THEN <<"url", named[2]>> ELSE named
    IN {r[2] : r \in {y \in x.references : y[1] = key}}
StoredAnswer(n, x, cache, q) ==
    LET sitesOf(p) == IF p.id \in DOMAIN x.rows
                      THEN LET row == x.rows[p.id] IN
                           [i \in DOMAIN row |-> CHOOSE s \in Load(n, cache, "sites", {row[i].id}) : TRUE]
                      ELSE ById({s \in x.sites : s.product = p.id})
        rows == UNION {ToSet(x.rows[p]) : p \in DOMAIN x.rows}
        called(c) == IF c \in {<<"site", s.id>> : s \in x.sites \cup rows}
                     THEN IF c[2] \in Ids(x.sites) THEN WithId(x.sites, c[2])
                          ELSE CHOOSE s \in Load(n, cache, "sites", {c[2]}) : TRUE
                     ELSE None
        near(p, count, radius) == TwoPasses(ToSet(sitesOf(p)), q.here, count, radius, Own)
        entriesOf(p, s) == IF <<p, s>> \in DOMAIN x.ids THEN Load(n, cache, "entries", x.ids[<<p, s>>])
                           ELSE {e \in x.entries : e.product = p /\ e.site = s}
        files == {s \in rows : s.product \in x.files}
        chosen == IF q.future THEN {}
                  ELSE IF q.named # None THEN Refers(x, q.named)
                  ELSE {s.product : s \in ToSet(TwoPasses(files, q.here, Nearest, None, Published))}
    IN Options(q, ById(x.held \cup Load(n, cache, "products", chosen)), sitesOf, called, near, entriesOf)
-----------------------------------------------------------------------------
\* CatalogStore.active: the index of the active generation, saved for the next start when it can be.
IsCurrent(n) == loaded # None /\ loaded.of = n
Readable(n) == saved[n] # None /\ saved[n].format = Format /\ saved[n].of = n
StateOf(n) == IF Readable(n) THEN saved[n].state ELSE BuildState(shelf[n])

Init ==
    /\ shelf \in Shelves
    /\ active = 1
    /\ saved \in {[n \in DOMAIN shelf |-> x] : x \in {None, [format |-> Format - 1, of |-> 1, state |-> None]}}
    /\ loaded = None
    /\ answered = None

Open ==
    /\ ~IsCurrent(active)
    /\ loaded' = [of |-> active, state |-> StateOf(active), cache |-> <<>>]
    /\ \/ saved' = saved
       \/ /\ ~Readable(active)
          /\ saved' = [saved EXCEPT ![active] = [format |-> Format, of |-> active, state |-> StateOf(active)]]
    /\ UNCHANGED <<shelf, active, answered>>

Ask(q) ==
    /\ IsCurrent(active)
    /\ LET options == StoredAnswer(active, loaded.state, loaded.cache, q)
       IN /\ answered' = [of |-> active, query |-> q, options |-> options, points |-> loaded.state.points]
          /\ loaded' = [loaded EXCEPT !.cache = Remember(active, options, loaded.state, loaded.cache)]
    /\ UNCHANGED <<shelf, active, saved>>

\* A generation is activated; the derived files of the others are then removed, or the installing
\* process dies before it.
Activate(n) ==
    /\ n # active /\ active' = n
    /\ \/ saved' = [m \in DOMAIN saved |-> IF m = n THEN saved[m] ELSE None]
       \/ saved' = saved
    /\ UNCHANGED <<shelf, loaded, answered>>
Restart == loaded # None /\ loaded' = None /\ UNCHANGED <<shelf, active, saved, answered>>

Next == Open \/ Restart \/ (\E q \in Queries : Ask(q)) \/ (\E n \in DOMAIN shelf : Activate(n))
Spec == Init /\ [][Next]_vars
-----------------------------------------------------------------------------
\* "Both give the same answers": what the stored index considers for a query, and the points it
\* draws, are what a full scan of every record of that generation gives.
AnswersAgree ==
    answered # None =>
        /\ answered.options = MemoryAnswer(shelf[answered.of], answered.query)
        /\ answered.points = MemoryPoints(shelf[answered.of])
=============================================================================
