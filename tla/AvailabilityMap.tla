--------------------------- MODULE AvailabilityMap ---------------------------
(***************************************************************************)
(* The map of availability a browser asks for (/v1/catalog/map): what it   *)
(* draws of a catalog generation and of the reviewed masks on disk         *)
(* (openepw/availability/map_layers.py), and how the service keeps it:     *)
(* the layers of the last generation in memory, the packed map in memory   *)
(* and beside the generation (catalog_map_payload of service.py).          *)
(*                                                                         *)
(* Requests run in threads.  Meanwhile a refresh activates a generation,   *)
(* or another process imports a package: it writes the files of the masks  *)
(* one by one, then stages and activates, unless that fails.  A map is     *)
(* kept as the generation and the versions of the masks it was drawn from; *)
(* Layers says what it shows.  Cells are <<row, column>> from 90 S, 180 W. *)
(***************************************************************************)
EXTENDS Integers, Sequences, FiniteSets, SequencesExt, FiniteSetsExt

CONSTANTS None,
          Callers,      \* request threads
          Bundled,      \* what is shown without a generation: [products, sites]
          Contents,     \* of each generation, in the order they become active
          Masks,        \* of provider and version: the masks, each [path, id, step, gates, cells, runs]
          Display,      \* cells of the PVGIS mask to a display cell (PVGIS_DISPLAY_STEP)
          Budgets       \* what one behaviour may have: [answers, changes, together]

VARIABLES current,      \* the active generation; 0 for none
          disk,         \* the version of each file; 0 for a missing one
          import,       \* None or how many files an import has written
          derived,      \* packed maps: [key, map]
          layers,       \* _catalog_map_cache: None or a map
          payload,      \* _map_payload: None or [key, map]
          job,          \* each thread: its place and what it has read
          floor,        \* history: the versions on disk when a generation became active
          left          \* what is left of the bound

mapVars == <<current, disk, import, derived, layers, payload, job, floor, left>>

Reviewed == {"nsrdb", "pvgis"}
Manifests == << <<"nsrdb", "manifest">>, <<"pvgis", "manifest">> >>
Files == << <<"nsrdb", "manifest">>, <<"nsrdb", "mask">>, <<"pvgis", "manifest">>, <<"pvgis", "mask">> >>
-----------------------------------------------------------------------------
(* What a map shows. *)

\* Future weather is not on the map, nor are sites of its products.
Current(g) ==
    SelectSeq(IF g = 0 THEN Bundled.products ELSE Contents[g].products, LAMBDA p : ~p.future)
Of(g, providers) == {p \in ToSet(Current(g)) : p.provider \in providers}
Key(p) == <<p.provider, p.dataset>>
Keys(products) == {Key(p) : p \in products}
SitesOf(g, provider) ==
    {s \in IF g = 0 THEN Bundled.sites ELSE Contents[g].sites :
        \E p \in Of(g, {provider}) : p.id = s.product}

\* The years that list reports, when reports are listed, as unbroken ranges.
YearsWithReports(site) ==
    IF site.reports = None THEN site.years ELSE {y \in DOMAIN site.reports : site.reports[y] > 0}
Ranges(years) ==
    FoldLeft(LAMBDA ranges, y :
                 IF ranges # <<>> /\ y = Last(ranges)[2] + 1
                 THEN Append(Front(ranges), <<Last(ranges)[1], y>>)
                 ELSE Append(ranges, <<y, y>>),
             <<>>, SetToSortSeq(years, <))

\* merge_cell_rows: cells that touch in a row become one box <<west, south, east, north>>.
InOrder(a, b) == a[1] < b[1] \/ (a[1] = b[1] /\ a[2] < b[2])
MergeCellRows(cells) ==
    FoldLeft(LAMBDA boxes, c :
                 IF boxes # <<>> /\ Last(boxes)[2] = c[1] /\ Last(boxes)[3] = c[2]
                 THEN Append(Front(boxes), [Last(boxes) EXCEPT ![3] = c[2] + 1])
                 ELSE Append(boxes, <<c[2], c[1], c[2] + 1, c[1] + 1>>),
             <<>>, SetToSortSeq(cells, InOrder))

\* A layer maps the products of its kind.  A station is drawn at its place for the years with
\* reports (<<0, 0>> is no place), a published file at its place.
Stations(g) ==
    {[at |-> s.at, years |-> Ranges(YearsWithReports(s))] :
        s \in {x \in SitesOf(g, "noaa") : x.at \notin {None, <<0, 0>>} /\ YearsWithReports(x) # {}}}
PublishedFiles(g) == {[at |-> s.at] : s \in {x \in SitesOf(g, "onebuilding") : x.at # None}}
PointLayers(g) ==
    {[id |-> l[1], maps |-> Keys(Of(g, {l[1]})), points |-> l[2]] :
        l \in {x \in {<<"noaa", Stations(g)>>, <<"onebuilding", PublishedFiles(g)>>} : x[2] # {}}}

\* Each reviewed grid is drawn once, for the NSRDB products it gates.
NsrdbMasks(masks) == {m \in masks : m.step > 0}
GridLayers(g, masks) ==
    {[id |-> m.id, maps |-> {k \in Keys(Of(g, {"nsrdb"})) : \E gate \in m.gates : gate[2] = k[2]}, boxes |-> MergeCellRows(m.cells)] :
        m \in NsrdbMasks(masks)}

\* The first PVGIS domain, in display cells with any inside point; else the documented area.
Domains(masks) == {m \in masks : m.step > 0 /\ <<"pvgis", "PVGIS TMY">> \in m.gates}
DisplayCellsTo(m) ==           \* (faulty: the column after the run as well)
    UNION {{<<r[1] \div Display, c>> : c \in (r[2] \div Display)..(r[3] \div Display)} : r \in m.runs}
DisplayCells(m) ==
    UNION {{<<r[1] \div Display, c>> : c \in (r[2] \div Display)..((r[3] - 1) \div Display)} : r \in m.runs}
First(masks) == CHOOSE m \in masks : \A n \in masks : m.path <= n.path
DomainLayers(g, masks) ==
    LET maps == Keys(Of(g, {"pvgis"})) IN
    IF maps = {} THEN {}
    ELSE IF Domains(masks) = {} THEN {[id |-> "pvgis", maps |-> maps, area |-> TRUE]}
    ELSE {[id |-> "pvgis", maps |-> maps, boxes |-> MergeCellRows(DisplayCells(First(Domains(masks))))]}

\* The two reanalyses: the footprint of the first member that has one stands for all members;
\* longitudes come to lie in -180..180, a band around the earth as the whole of it.
Lon180(x, convention) == IF convention = "0_360" /\ x > 180 THEN x - 360 ELSE x
Bounds(p) ==
    LET b == p.footprint IN
    IF b[3] - b[1] >= 360 THEN <<-180, b[2], 180, b[4]>>
    ELSE <<Lon180(b[1], p.convention), b[2], Lon180(b[3], p.convention), b[4]>>
Members(g, land) ==
    SelectSeq(Current(g), LAMBDA p : p.grid /\ p.provider \in {"cds", "openmeteo"} /\ p.land = land)
Drawable(g, land) == SelectSeq(Members(g, land), LAMBDA p : p.footprint # None)
ExtentLayers(g) ==
    {[id |-> IF land THEN "era5-land" ELSE "era5", maps |-> Keys(ToSet(Members(g, land))),
      bounds |-> Bounds(Drawable(g, land)[1])] :
        land \in {x \in BOOLEAN : Drawable(g, x) # <<>>}}

Found(provider, version) == IF version = 0 THEN {} ELSE Masks[provider][version]
Layers(map) ==
    PointLayers(map.of) \cup GridLayers(map.of, Found("nsrdb", map.nsrdb))
    \cup DomainLayers(map.of, Found("pvgis", map.pvgis)) \cup ExtentLayers(map.of)
Unmapped(map) == Keys(ToSet(Current(map.of))) \ UNION {l.maps : l \in Layers(map)}

\* catalog_scopes: the documentary footprints, each once, and what has none.
Scopes(g) == {[key |-> Key(p), footprint |-> p.footprint] : p \in {q \in ToSet(Current(g)) : q.footprint # None}}
Undocumented(g) == {Key(p) : p \in {q \in ToSet(Current(g)) : q.footprint = None}}
-----------------------------------------------------------------------------
(* A request. *)

Idle == [at |-> "idle", gen |-> 0, stamp |-> <<>>, of |-> 0, read |-> <<>>, map |-> None]
Missing == [f \in ToSet(Files) |-> 0]
Versions(files) == [p \in Reviewed |-> Min({files[<<p, "manifest">>], files[<<p, "mask">>]})]

Init ==
    /\ current \in {0, 1} /\ disk = [f \in ToSet(Files) |-> current]
    /\ import = None /\ derived = {} /\ layers = None /\ payload = None
    /\ job = [t \in Callers |-> Idle]
    /\ floor = [g \in 0..Len(Contents) |-> Versions(IF g = current THEN disk ELSE Missing)]
    /\ left \in Budgets

Moves(t, new) == job' = [job EXCEPT ![t] = new]
At(t, place) == job[t].at = place
AtKey(t) == <<job[t].gen, job[t].stamp>>
world == <<current, disk, import, floor, left>>

Begin(t) ==
    /\ At(t, "idle") /\ left.answers > 0 /\ left' = [left EXCEPT !.answers = @ - 1]
    /\ Cardinality({u \in Callers : ~At(u, "idle")}) < left.together
    /\ Moves(t, [Idle EXCEPT !.at = "stamp", !.gen = current])
    /\ UNCHANGED <<current, disk, import, derived, layers, payload, floor>>

\* The manifests are read, one by one, for the stamp.
ReadManifest(t) ==
    /\ At(t, "stamp") /\ Len(job[t].stamp) < Len(Manifests)
    /\ LET stamp == Append(job[t].stamp, disk[Manifests[Len(job[t].stamp) + 1]]) IN
       Moves(t, [job[t] EXCEPT !.stamp = stamp, !.at = IF Len(stamp) = Len(Manifests) THEN "look" ELSE "stamp"])
    /\ UNCHANGED <<world, derived, layers, payload>>

\* A packed map of that generation and those manifests is in memory,
Remembered(t) == payload # None /\ payload.key = AtKey(t)
Hit(t) ==
    /\ At(t, "look") /\ Remembered(t)
    /\ Moves(t, [job[t] EXCEPT !.at = "answered", !.map = payload.map])
    /\ UNCHANGED <<world, derived, layers, payload>>
\* or beside the generation,
Unpack(t) ==
    /\ At(t, "look") /\ ~Remembered(t) /\ job[t].gen # 0
    /\ \E d \in derived :
          d.key = AtKey(t) /\ Moves(t, [job[t] EXCEPT !.at = "keep", !.map = d.map])
    /\ UNCHANGED <<world, derived, layers, payload>>
\* or is made: there is none, or it cannot be read.
View(t) ==
    /\ At(t, "look") /\ ~Remembered(t)
    /\ Moves(t, [job[t] EXCEPT !.at = "layers", !.of = current])
    /\ UNCHANGED <<world, derived, layers, payload>>

\* catalog_map: the layers in memory are those of the generation it reads anew (faulty: of any),
AnyLayers(t) == layers # None
SameLayers(t) == layers # None /\ layers.of = job[t].of
Reuse(t) ==
    /\ At(t, "layers") /\ SameLayers(t)
    /\ Moves(t, [job[t] EXCEPT !.at = "save", !.map = layers])
    /\ UNCHANGED <<world, derived, layers, payload>>
\* or are drawn, from files read one by one: a mask counts when its manifest names it.
Read(t) ==
    /\ \/ At(t, "layers") /\ ~SameLayers(t)
       \/ At(t, "draw")
    /\ Len(job[t].read) < Len(Files)
    /\ Moves(t, [job[t] EXCEPT !.at = "draw", !.read = Append(@, disk[Files[Len(@) + 1]])])
    /\ UNCHANGED <<world, derived, layers, payload>>
Verified(manifest, mask) == IF manifest = mask THEN mask ELSE 0
Draw(t) ==
    /\ At(t, "draw") /\ Len(job[t].read) = Len(Files)
    /\ LET r == job[t].read IN
       layers' = [of |-> job[t].of, nsrdb |-> Verified(r[1], r[2]), pvgis |-> Verified(r[3], r[4])]
    /\ Moves(t, [job[t] EXCEPT !.at = "save", !.read = <<>>, !.map = layers'])
    /\ UNCHANGED <<world, derived, payload>>

\* The map is packed and written beside the generation that was read first, which may fail,
Save(t) ==
    /\ At(t, "save")
    /\ \/ job[t].gen # 0 /\ derived' = {d \in derived : d.key # AtKey(t)} \cup {[key |-> AtKey(t), map |-> job[t].map]}
       \/ UNCHANGED derived
    /\ Moves(t, [job[t] EXCEPT !.at = "keep"])
    /\ UNCHANGED <<world, layers, payload>>
\* and kept in memory.
Keep(t) ==
    /\ At(t, "keep")
    /\ payload' = [key |-> AtKey(t), map |-> job[t].map]
    /\ Moves(t, [job[t] EXCEPT !.at = "answered"])
    /\ UNCHANGED <<world, derived, layers>>
Leave(t) ==
    /\ At(t, "answered") /\ Moves(t, Idle)
    /\ UNCHANGED <<world, derived, layers, payload>>
-----------------------------------------------------------------------------
(* What changes meanwhile. *)

kept == <<derived, layers, payload, job>>
Activate ==
    /\ current < Len(Contents) /\ current' = current + 1
    /\ floor' = [floor EXCEPT ![current'] = Versions(disk)]

Change == left.changes > 0 /\ left' = [left EXCEPT !.changes = @ - 1]

\* A refresh of a source makes a generation from the active one.
Refresh == Change /\ current # 0 /\ Activate /\ UNCHANGED <<kept, disk, import>>

\* openepw catalog import --from-package: the files of the masks, one by one,
StartImport ==
    /\ Change /\ import = None /\ \A f \in ToSet(Files) : disk[f] < Len(Masks[f[1]])
    /\ import' = 0
    /\ UNCHANGED <<kept, current, disk, floor>>
Write ==
    /\ import # None /\ import < Len(Files) /\ import' = import + 1
    /\ disk' = [disk EXCEPT ![Files[import']] = @ + 1]
    /\ UNCHANGED <<kept, current, floor, left>>
\* then the generation; the package may be refused only now.
EndImport ==
    /\ import = Len(Files) /\ import' = None
    /\ Activate \/ UNCHANGED <<current, floor>>
    /\ UNCHANGED <<kept, disk, left>>

\* A new process has nothing in memory; warm_catalog first removes what lies beside other
\* generations (or has failed), and then asks for the map as a request does.
Restart ==
    /\ Change
    /\ job' = [t \in Callers |-> Idle] /\ layers' = None /\ payload' = None
    /\ \/ current # 0 /\ derived' = {d \in derived : d.key[1] = current}
       \/ UNCHANGED derived
    /\ UNCHANGED <<current, disk, import, floor>>

Request(t) == \/ Begin(t) \/ ReadManifest(t) \/ Hit(t) \/ Unpack(t) \/ View(t) \/ Reuse(t)
              \/ Read(t) \/ Draw(t) \/ Save(t) \/ Keep(t) \/ Leave(t)
Next ==
    \/ \E t \in Callers : Request(t)
    \/ Refresh \/ StartImport \/ Write \/ EndImport \/ Restart
Spec == Init /\ [][Next]_mapVars
-----------------------------------------------------------------------------
\* A browser's map is of the generation that was active when it asked, or a newer one, and shows
\* no mask from before that generation became active: whatever was remembered, saved, written
\* or activated meanwhile.
AnswersAreCurrent ==
    \A t \in Callers : At(t, "answered") =>
        LET map == job[t].map IN
        /\ map.of >= job[t].gen
        /\ map.nsrdb \in {0} \cup {v \in 1..Len(Masks.nsrdb) : v >= floor[map.of].nsrdb}
        /\ map.pvgis \in {0} \cup {v \in 1..Len(Masks.pvgis) : v >= floor[map.of].pvgis}

\* The boxes of a layer are the cells it stands for, none twice, none split.
CellsOf(box) == {<<r, c>> : r \in box[2]..(box[4] - 1), c \in box[1]..(box[3] - 1)}
BoxesAre(boxes, cells) ==
    /\ UNION {CellsOf(b) : b \in ToSet(boxes)} = cells
    /\ \A i, j \in DOMAIN boxes : i # j =>
          /\ CellsOf(boxes[i]) \cap CellsOf(boxes[j]) = {}
          /\ ~(boxes[i][2] = boxes[j][2] /\ boxes[i][3] = boxes[j][1])

\* The map of an answer draws what the gates of the eligibility answer say and nothing of future weather: a
\* grid exactly its inside cells, the PVGIS domain exactly the display cells with an inside cell,
\* a station exactly in its years with reports; an extent is that of a
\* footprint which catalog_scopes lists, and a grid with a footprint is never called unmapped.
Inside(m) == UNION {{<<r[1], c>> : c \in r[2]..(r[3] - 1)} : r \in m.runs}
IsHonest(map) ==
    LET shown == Layers(map)
        mapped == UNION {l.maps : l \in shown}
        grids == Found("nsrdb", map.nsrdb)
        domains == Domains(Found("pvgis", map.pvgis))
    IN /\ \A p \in Of(map.of, {"nsrdb"}) :
              Key(p) \in mapped <=> \E m \in grids : m.step > 0 /\ Key(p) \in m.gates
       /\ \A m \in NsrdbMasks(grids) : \E l \in shown : l.id = m.id /\ BoxesAre(l.boxes, m.cells)
       /\ \A l \in shown : l.id = "pvgis" /\ domains # {} =>
              BoxesAre(l.boxes, {<<c[1] \div Display, c[2] \div Display>> : c \in Inside(First(domains))})
       /\ \A l \in PointLayers(map.of) : l.id = "noaa" => \A q \in l.points :
              \E s \in SitesOf(map.of, "noaa") : s.at = q.at /\
                  /\ UNION {r[1]..r[2] : r \in ToSet(q.years)} = YearsWithReports(s)
                  /\ \A i \in 2..Len(q.years) : q.years[i][1] > q.years[i - 1][2] + 1
       /\ \A l \in ExtentLayers(map.of) : \E s \in Scopes(map.of) :
              s.key \in l.maps /\ s.footprint[2] = l.bounds[2] /\ s.footprint[4] = l.bounds[4]
       /\ Unmapped(map) \cap (Keys(Of(map.of, {"cds", "openmeteo"})) \ Undocumented(map.of)) \subseteq
              Keys({p \in ToSet(Current(map.of)) : ~p.grid})

Honest ==
    {map \in [of : 0..Len(Contents), nsrdb : 0..Len(Masks.nsrdb), pvgis : 0..Len(Masks.pvgis)] : IsHonest(map)}
=============================================================================
