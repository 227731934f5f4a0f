------------------------------ MODULE MCCatalog ------------------------------
(***************************************************************************)
(* The availability catalog of a server, for TLC: its refresh by queries   *)
(* (CatalogRefresh, extended), the installation of a packaged catalog      *)
(* before a start (Install), the cache of answers made from it (Points),   *)
(* the package it travels in (Package), the index that finds what a        *)
(* question concerns (Index) and the map of it (Map).  Install runs before *)
(* any query, Points and Map only read which generation is active;         *)
(* `subject` is the one a behaviour is about.                              *)
(***************************************************************************)
EXTENDS CatalogRefresh, Integers, Sequences, TLC

CONSTANTS t1, t2, k1, k2, Manual, Empty, Blank, Bad,
          Packages, MaxStarts, MaxDeaths,             \* of Install
          Callers, Capacity, MaxGeneration, MaxCalls  \* of Points

VARIABLES subject,
          served, current, previous, marker, pin, at, starts, deaths, found, broken,
          generation, cached, cache, place, key, seen, answer, straddled, met, calls,
          folder, descriptor, export, unpacked, stored, published, exports, faults,
          shelf, live, saved, loaded, answered,
          showing, disk, import, derived, layers, payload, job, floor, left

Install == INSTANCE CatalogInstall WITH
    ByHand <- Manual, Nothing <- None, active <- served
Points == INSTANCE PointCache WITH
    Points <- {k1, k2}, at <- place

installVars == <<served, current, previous, marker, pin, at, starts, deaths, found, broken>>
pointVars == <<generation, cached, cache, place, key, seen, answer, straddled, met, calls>>
packageVars == <<folder, descriptor, export, unpacked, stored, published, exports, faults>>
indexVars == <<shelf, live, saved, loaded, answered>>
mapVars == <<showing, disk, import, derived, layers, payload, job, floor, left>>
all == <<subject, vars, installVars, pointVars, packageVars, indexVars, mapVars>>

TwoSources == {1, 2}
DailyAndYearly == <<1, 365>>
DailyBoth == <<1, 1>>
Nobody == {}

-----------------------------------------------------------------------------
\* Catalogs of two providers: sound, newer, with an unnamed site, with a double or a lost reference.
Made(i, p, e) == [id |-> i, provider |-> p, evidence |-> e]
Stands(i, p, n) == [id |-> i, product |-> p, name |-> n]
Offers(i, p, s, k, sc, ms) ==
    [id |-> i, product |-> p, site |-> s, kind |-> k, probe |-> None, scope |-> sc, months |-> ms]
Reviews(i, p) == [id |-> i, product |-> p, note |-> None]
Hours == {[year |-> 1, hours |-> <<7, None>>], [year |-> 2, hours |-> <<None, 7>>]}
Sound ==
    [evidence |-> <<[id |-> 1]>>, products |-> <<Made(1, 2, 1), Made(2, 1, 1), Made(3, 2, 1)>>,
     sites |-> <<Stands(1, 1, None), Stands(2, 2, "n")>>,
     entries |-> <<Offers(1, 1, 1, "actual", [years |-> 3, from |-> None], Hours),
                   Offers(2, 2, 2, "tmy", [first |-> 1, label |-> "t"], {}),
                   Offers(3, 3, None, "future", [first |-> None, scenario |-> "x"], {})>>,
     reviews |-> <<Reviews(1, 2)>>]
Newer == [Sound EXCEPT !.sites = <<Stands(1, 1, "m"), Stands(2, 2, "n")>>, !.entries = Tail(@)]
AllBundles ==
    {Sound, Newer, [Sound EXCEPT !.sites = <<Stands(1, 1, "m"), Stands(2, 2, Empty)>>],
     [Sound EXCEPT !.reviews = <<Reviews(1, 2), Reviews(1, 1)>>], [Newer EXCEPT !.reviews = <<Reviews(1, 9)>>],
     [Sound EXCEPT !.entries = <<Offers(4, 9, None, "tmy", [first |-> 1, label |-> "t"], {})>>]}
Package == INSTANCE CatalogPackage WITH
    Bundles <- AllBundles, Prints <- {<<>>, <<"g", "h">>}, MaxExports <- 2, MaxFaults <- 1,
    loaded <- unpacked, staged <- stored
-----------------------------------------------------------------------------
\* Generations with two files and three stations, as near, far or rough as they may be, and queries.
Product(i, p, n, f) == [id |-> i, provider |-> p, native |-> n, future |-> f]
Site(i, p, x, b, off) == [id |-> i, product |-> p, at |-> x, broad |-> b, off |-> off]
Entry(i, p, s, a, ys) == [id |-> i, product |-> p, site |-> s, actual |-> a, years |-> ys]
Products ==
    {Product(1, "cds", None, FALSE), Product(2, "onebuilding", 7, FALSE), Product(3, "noaa", None, FALSE),
     Product(4, "onebuilding", 8, FALSE), Product(5, "onebuilding", 9, FALSE), Product(6, "climate", None, TRUE)}
AllRecords ==
    {Entry(1, 1, None, TRUE, {1, 2}), Entry(2, 3, 2, TRUE, {1}), Entry(3, 3, 3, TRUE, {2}), Entry(4, 3, 4, TRUE, {1, 2}),
     Entry(5, 2, 1, FALSE, {}), Entry(6, 4, 5, FALSE, {}), Entry(7, 5, 6, FALSE, {}), Entry(8, 6, None, FALSE, {})}
\* Two files and three stations, each as near or as rough as it may be; a third file without a position.
Generation(a, b, broad, err) ==
    [products |-> Products, entries |-> AllRecords,
     sites |-> {Site(1, 2, a, FALSE, err), Site(5, 4, b, broad, 0 - err), Site(6, 5, None, FALSE, 0),
                Site(2, 3, 3, FALSE, err), Site(3, 3, a, FALSE, 0 - err), Site(4, 3, b, broad, 1)}]
AllShelves ==
    {<<Generation(a, b, FALSE, err), Generation(b, a, FALSE, 0)>> : a, b \in {2, 3}, err \in {-1, 1}}
    \cup {<<Generation(1, 2, TRUE, 1), Generation(2, 2, FALSE, 0)>>}
Question(f, n, ys, ps) == [future |-> f, named |-> n, years |-> ys, providers |-> ps, here |-> 0]
AllQueries ==
    {Question(FALSE, None, ys, ps) : ys \in {{1}, {1, 2}}, ps \in {{}}}
    \cup {Question(FALSE, n, {1}, {}) : n \in
        {<<"id", 2>>, <<"url", 8>>, <<"path", 9>>, <<"site", 3>>, <<"path", 5>>}}
    \cup {Question(TRUE, None, {}, {})}
Index == INSTANCE CatalogIndex WITH Shelves <- AllShelves, Queries <- AllQueries, Nearest <- 1, Known <- 2,
   Listed <- 1, Uncertain <- 1, Reach <- 2, Capacity <- 3, Margin <- 2, active <- live
-----------------------------------------------------------------------------
\* Two generations and the bundled products, which no site and no mask supports; two versions of masks.
Shows(p, d, grid, land, box, c, f) ==
    [id |-> <<p, d>>, provider |-> p, dataset |-> d, grid |-> grid, land |-> land, footprint |-> box,
     convention |-> c, future |-> f]
Era5 == Shows("openmeteo", "era5", TRUE, FALSE, <<0, -90, 360, 90>>, "0_360", FALSE)
Drawn ==
    <<Shows("noaa", "isd", FALSE, FALSE, None, None, FALSE), Shows("onebuilding", "tmyx", FALSE, FALSE, None, None, FALSE),
      Shows("nsrdb", "goes", TRUE, FALSE, None, None, FALSE), Shows("nsrdb", "msg", TRUE, FALSE, None, None, FALSE),
      Shows("pvgis", "PVGIS TMY", TRUE, FALSE, None, None, FALSE), Shows("cds", "land", TRUE, TRUE, None, None, FALSE),
      Shows("openmeteo", "land", TRUE, TRUE, <<190, -60, 350, 75>>, "0_360", FALSE),
      Shows("onebuilding", "2050", FALSE, FALSE, None, None, TRUE), Era5>>
Located(p, d, where, years, reports) == [product |-> <<p, d>>, at |-> where, years |-> years, reports |-> reports]
Spots ==
    {Located("noaa", "isd", <<1, 2>>, {1, 2, 3, 4}, <<2, 0, 1, 1>>), Located("noaa", "isd", <<0, 0>>, {1}, None),
     Located("noaa", "isd", <<3, 2>>, {1, 3}, None), Located("noaa", "isd", <<4, 4>>, {1}, <<0>>),
     Located("onebuilding", "tmyx", <<0, 0>>, {}, None), Located("onebuilding", "tmyx", None, {}, None),
     Located("onebuilding", "2050", <<5, 5>>, {}, None)}
ShownCatalogs == <<[products |-> Drawn, sites |-> Spots], [products |-> Tail(Drawn), sites |-> {}],
                   [products |-> Tail(Drawn), sites |-> Spots]>>
Mask(n, i, step, gates, cells, runs) == [path |-> n, id |-> i, step |-> step, gates |-> gates, cells |-> cells, runs |-> runs]
ShownMasks ==
    [nsrdb |-> <<{Mask(1, "goes", 2, {<<"nsrdb", "goes">>}, {<<1, 1>>, <<1, 2>>, <<1, 4>>, <<2, 2>>}, {}),
                  Mask(2, "msg", 0, {<<"nsrdb", "msg">>}, {}, {})},
                 {Mask(1, "goes", 2, {<<"nsrdb", "goes">>, <<"nsrdb", "msg">>}, {<<1, 3>>, <<2, 3>>, <<2, 4>>}, {})}>>,
     pvgis |-> <<{Mask(1, "domain", 0, {<<"pvgis", "PVGIS TMY">>}, {}, {<<0, 0, 1>>})},
                 {Mask(1, "domain", 1, {<<"pvgis", "PVGIS TMY">>}, {}, {<<3, 1, 3>>, <<4, 4, 6>>, <<4, 9, 10>>, <<5, 5, 7>>})}>>]
Together == {[answers |-> 2, changes |-> 1, together |-> 2], [answers |-> 2, changes |-> 2, together |-> 1]}
Map == INSTANCE AvailabilityMap WITH
    Callers <- Threads, Bundled <- [products |-> <<Era5>>, sites |-> {}], Contents <- ShownCatalogs,
    Masks <- ShownMasks, Display <- 2, Budgets <- Together, current <- showing
-----------------------------------------------------------------------------
NoIndex == shelf = None /\ live = None /\ saved = None /\ loaded = None /\ answered = None
Refreshes(A) == subject = "refresh" /\ A /\ UNCHANGED <<subject, installVars, pointVars, packageVars, indexVars, mapVars>>
CatalogInit ==
    /\ subject \in {"refresh", "install", "points", "package", "index", "map"}
    /\ Init /\ Install!Init /\ Points!Init /\ Package!Init
    /\ IF subject = "index" THEN Index!Init ELSE NoIndex
    /\ Map!Init /\ (subject # "map" => showing = 0 /\ left.together = 1)
    /\ subject # "install" => served = None
    /\ subject # "points" => key = [c \in Callers |-> k1]
CatalogNext ==
    \/ Refreshes(Next)
    \/ subject = "install" /\ Install!Next /\ UNCHANGED <<subject, vars, pointVars, packageVars, indexVars, mapVars>>
    \/ subject = "points" /\ Points!Next /\ UNCHANGED <<subject, vars, installVars, packageVars, indexVars, mapVars>>
    \/ subject = "package" /\ Package!Next /\ UNCHANGED <<subject, vars, installVars, pointVars, indexVars, mapVars>>
    \/ subject = "index" /\ Index!Next /\ UNCHANGED <<subject, vars, installVars, pointVars, packageVars, mapVars>>
    \/ subject = "map" /\ Map!Next /\ UNCHANGED <<subject, vars, installVars, pointVars, packageVars, indexVars>>
CatalogSpec == CatalogInit /\ [][CatalogNext]_all
FairCatalogSpec == CatalogSpec /\ \A t \in Threads : WF_all(Refreshes(Work(t)))

\* What is served is one catalog: a start (deploy.py) serves what it found or the whole package it
\* was to install, and what the marker vouches for is what is served; a request for a map point
\* (catalog_point) is answered from a replaced generation only where another one carried the answer
\* over the activation, and fails only beside another one.
ServesOneCatalog == Install!AllOrNothing /\ Install!MarkerIsTrue /\ Points!AnswersExplained

\* A package that loads is one that was published, whole; the index of an active generation
\* answers as a search of the whole generation would; and the map a browser gets is of the catalog
\* that was active when it asked, and draws what that catalog and its masks support.
HonestMaps == {map : map \in Map!Honest}
CatalogIsWhole ==
    /\ subject = "package" => Package!PackageIsWhole
    /\ subject = "index" => Index!AnswersAgree
    /\ subject = "map" =>
          Map!AnswersAreCurrent /\ \A t \in Threads : job[t].at = "answered" => job[t].map \in HonestMaps
=============================================================================
