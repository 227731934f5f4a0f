---------------------------- MODULE CatalogPackage ----------------------------
(***************************************************************************)
(* The catalog as a data package (openepw/availability/package.py): tables *)
(* per provider and a descriptor that pins every file, written one after   *)
(* another into a folder that may hold an older package; read back only    *)
(* when every file is what the descriptor says; and staged as a generation *)
(* after CatalogStore._validate (store.py).  The export may be killed or   *)
(* refuse a later table; a file may be lost or altered on its way.         *)
(*                                                                         *)
(* A file is known by its rows, which stand for its size and SHA-256.  A   *)
(* table's path is <<table, provider>>, a footprint's <<"footprints", name>>. *)
(***************************************************************************)
EXTENDS Integers, Sequences, FiniteSets, SequencesExt

CONSTANTS None, Empty,      \* a missing value; the empty string
          Blank,            \* the empty cell
          Bundles,          \* catalogs: [evidence, products, sites, entries, reviews]
          Prints,           \* footprint folders: name -> content
          Bad,              \* what an altered file holds
          MaxExports, MaxFaults

VARIABLES folder,      \* path -> rows of a file
          descriptor,  \* datapackage.json: None, Bad or [sequence of <<path, stamp>>]
          export,      \* None or the export under way: [bundle, prints, ahead, done]
          loaded,      \* None or [bundle, prints]
          staged,      \* bundles of the generations
          published, exports, faults   \* history and bounds

vars == <<folder, descriptor, export, loaded, staged, published, exports, faults>>
-----------------------------------------------------------------------------
\* Cells and back.  An empty string cannot be told from a missing value and is refused.
Cell(v) == IF v = None THEN Blank ELSE v
Value(c) == IF c = Blank THEN None ELSE c
Writable(row) == \A k \in DOMAIN row : row[k] # Empty
Cells(row) == [k \in DOMAIN row |-> Cell(row[k])]
Values(row) == [k \in DOMAIN row |-> Value(row[k])]

\* _entry_row and _entry: one column per field of any kind of scope; a probe in columns of its own;
\* the hours of months in a table of their own.
ScopeColumns == [actual |-> {"years", "from"}, tmy |-> {"first", "label"}, future |-> {"first", "scenario"}]
AllColumns == UNION {ScopeColumns[k] : k \in DOMAIN ScopeColumns}
EntryRow(e) ==
    [id |-> e.id, product |-> e.product, site |-> e.site, kind |-> e.kind, probe |-> e.probe]
    @@ [c \in AllColumns |-> IF c \in ScopeColumns[e.kind] THEN e.scope[c] ELSE None]
EntryOf(row, months) ==
    [id |-> row.id, product |-> row.product, site |-> row.site, kind |-> row.kind, probe |-> row.probe,
     scope |-> [c \in ScopeColumns[row.kind] |-> row[c]],
     months |-> IF row.kind = "actual" THEN {[year |-> m.year, hours |-> m.hours] : m \in months} ELSE {}]
MonthRows(e) == {[entry |-> e.id, year |-> m.year, hours |-> m.hours] : m \in e.months}

\* The tables of a bundle, by provider.
Providers(b) == {b.products[k].provider : k \in DOMAIN b.products}
ProviderOf(b, id) ==
    LET k == CHOOSE n \in DOMAIN b.products :
                 /\ b.products[n].id = id
                 /\ \A n2 \in DOMAIN b.products : b.products[n2].id = id => n2 <= n
    IN b.products[k].provider
Refers(b) == \A s \in Range(b.sites) \cup Range(b.entries) : s.product \in {p.id : p \in Range(b.products)}
Of(b, s, p) == SelectSeq(s, LAMBDA r : ProviderOf(b, r.product) = p)
Months(b, p) ==
    UNION {MonthRows(e) : e \in {x \in Range(Of(b, b.entries, p)) : x.kind = "actual"}}
TablesOf(b, p) ==
    <<<<<<"products", p>>, SelectSeq(b.products, LAMBDA r : r.provider = p)>>,
      <<<<"sites", p>>, Of(b, b.sites, p)>>,
      <<<<"entries", p>>, [k \in DOMAIN Of(b, b.entries, p) |-> EntryRow(Of(b, b.entries, p)[k])]>>>>
    \o (IF Months(b, p) = {} THEN <<>>
        ELSE <<<<<<"months", p>>, SetToSortSeq(Months(b, p), LAMBDA x, y : x.year < y.year)>>>>)
Tables(b) ==
    <<<<<<"sources", "">>, b.evidence>>, <<<<"reviews", "">>, b.reviews>>>>
    \o FlattenSeq([k \in 1..Cardinality(Providers(b)) |->
                      TablesOf(b, SetToSortSeq(Providers(b), <)[k])])
Footprints(f) ==
    [k \in 1..Cardinality(DOMAIN f) |->
        LET n == SetToSortSeq(DOMAIN f, <)[k] IN <<<<"footprints", n>>, <<f[n]>>>>]

\* from_files: the tables in order of their paths, each value parsed again.
Read(files, table) ==
    LET from == {q \in DOMAIN files : q[1] = table}
        order == SetToSortSeq(from, LAMBDA x, y : x[2] < y[2])
    IN FlattenSeq([k \in DOMAIN order |-> [n \in DOMAIN files[order[k]] |-> Values(files[order[k]][n])]])
Parsed(files) ==
    [evidence |-> Read(files, "sources"), products |-> Read(files, "products"), sites |-> Read(files, "sites"),
     entries |-> LET rows == Read(files, "entries")
                 IN [k \in DOMAIN rows |->
                        EntryOf(rows[k], {m \in Range(Read(files, "months")) : m.entry = rows[k].id})],
     reviews |-> Read(files, "reviews")]
PrintsOf(files) ==
    [n \in {q[2] : q \in {x \in DOMAIN files : x[1] = "footprints"}} |-> files[<<"footprints", n>>][1]]
-----------------------------------------------------------------------------
Init ==
    /\ folder = <<>> /\ descriptor = None /\ export = None /\ loaded = None /\ staged = {}
    /\ published = {} /\ exports = 0 /\ faults = 0

Start(b, f) ==
    /\ export = None /\ exports < MaxExports /\ exports' = exports + 1
    /\ Refers(b)
    /\ export' = [bundle |-> b, prints |-> f, ahead |-> Tables(b) \o Footprints(f), done |-> <<>>]
    /\ UNCHANGED <<folder, descriptor, loaded, staged, published, faults>>
\* The next file, or the whole export given up where it stands.
Put ==
    /\ export # None /\ export.ahead # <<>>
    /\ LET path == Head(export.ahead)[1]
           rows == Head(export.ahead)[2]
           cells == [k \in DOMAIN rows |-> Cells(rows[k])]
           file == IF path[1] = "footprints" THEN rows ELSE cells
       IN IF path[1] # "footprints" /\ \E k \in DOMAIN rows : ~Writable(rows[k])
          THEN export' = None /\ UNCHANGED folder
          ELSE /\ folder' = [q \in DOMAIN folder \cup {path} |-> IF q = path THEN file ELSE folder[q]]
               /\ export' = [export EXCEPT !.ahead = Tail(@), !.done = Append(@, <<path, file>>)]
    /\ UNCHANGED <<descriptor, loaded, staged, published, exports, faults>>
Describe ==
    /\ export # None /\ export.ahead = <<>>
    /\ descriptor' = export.done
    /\ published' = published \cup {[bundle |-> export.bundle, prints |-> export.prints]}
    /\ export' = None
    /\ UNCHANGED <<folder, loaded, staged, exports, faults>>

\* verify: every file that is described, by its size and SHA-256 (faulty: by its size alone).
SameSize(path, stamp) == path \in DOMAIN folder /\ Len(folder[path]) = Len(stamp)
Matches(path, stamp) == path \in DOMAIN folder /\ folder[path] = stamp
Load ==
    /\ descriptor \notin {None, <<Bad>>}
    /\ \A k \in DOMAIN descriptor : Matches(descriptor[k][1], descriptor[k][2])
    /\ LET files == [q \in {descriptor[k][1] : k \in DOMAIN descriptor} |-> folder[q]]
       IN loaded' = [bundle |-> Parsed(files), prints |-> PrintsOf(files)]
    /\ UNCHANGED <<folder, descriptor, export, staged, published, exports, faults>>

\* _validate and stage: all of the bundle in one transaction.
Ids(s) == {r.id : r \in Range(s)}
Unique(s) == Cardinality(Ids(s)) = Len(s)
Valid(b) ==
    /\ Unique(b.evidence) /\ Unique(b.products) /\ Unique(b.sites) /\ Unique(b.entries) /\ Unique(b.reviews)
    /\ \A r \in Range(b.products) : r.evidence \in Ids(b.evidence)
    /\ \A r \in Range(b.sites) \cup Range(b.entries) \cup Range(b.reviews) : r.product \in Ids(b.products)
    /\ \A r \in Range(b.entries) : r.site = None \/ r.site \in Ids(b.sites)
Stage ==
    /\ loaded # None /\ Valid(loaded.bundle)
    /\ staged' = staged \cup {loaded.bundle}
    /\ UNCHANGED <<folder, descriptor, export, loaded, published, exports, faults>>

Die ==
    /\ export # None /\ faults < MaxFaults /\ faults' = faults + 1
    /\ export' = None
    /\ descriptor' \in {descriptor} \cup (IF export.ahead = <<>> THEN {<<Bad>>} ELSE {})
    /\ UNCHANGED <<folder, loaded, staged, published, exports>>
Alter(q) ==
    /\ export = None /\ faults < MaxFaults /\ faults' = faults + 1
    /\ \/ folder' = [folder EXCEPT ![q] = [k \in DOMAIN @ |->
                         IF q[1] = "footprints" THEN Bad
                         ELSE [c \in DOMAIN @[k] |-> IF c = "kind" THEN @[k][c] ELSE Bad]]]
       \/ folder' = [x \in DOMAIN folder \ {q} |-> folder[x]]
    /\ UNCHANGED <<descriptor, export, loaded, staged, published, exports>>

Next ==
    \/ \E b \in Bundles, f \in Prints : Start(b, f)
    \/ Put \/ Describe \/ Load \/ Stage \/ Die \/ \E q \in DOMAIN folder : Alter(q)
Spec == Init /\ [][Next]_vars
-----------------------------------------------------------------------------
\* What a bundle is once the tables of its providers are put together again.
Grouped(b) ==
    LET order == SetToSortSeq(Providers(b), <)
        by(s) == FlattenSeq([k \in DOMAIN order |-> Of(b, s, order[k])])
    IN [b EXCEPT !.products = FlattenSeq([k \in DOMAIN order |->
                                  SelectSeq(b.products, LAMBDA r : r.provider = order[k])]),
                 !.sites = by(b.sites), !.entries = by(b.entries)]

\* A package that loads is one that was published, whole: no table, row, month or footprint of another
\* export, whatever was killed, refused, lost or altered; and only a sound catalog is staged.
PackageIsWhole ==
    /\ loaded # None =>
          \E p \in published : loaded.bundle = Grouped(p.bundle) /\ loaded.prints = p.prints
    /\ \A b \in staged : Valid(b)
=============================================================================
