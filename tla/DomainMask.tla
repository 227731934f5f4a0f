------------------------------ MODULE DomainMask ------------------------------
(***************************************************************************)
(* How the domain mask of PVGIS is made from a land-sea field              *)
(* (scripts/mcp_availability_map/pvgis_mask.py, coast.py and               *)
(* era5land_mask.py): the ocean is flooded row by row from a seed, cells   *)
(* near land or a station are kept out of "outside", the edge band is      *)
(* refined chunk by chunk with a coastline on finer cells, probes are      *)
(* checked, and the mask is written.                                       *)
(*                                                                         *)
(* Cells are <<row, column>> from 90 S and 180 W; a position is given in   *)
(* half cells.  How many columns a distance covers from row to row is a    *)
(* constant, -1 beyond it.                                                 *)
(***************************************************************************)
EXTENDS Integers, Sequences, FiniteSets, FiniteSetsExt

CONSTANTS None,
          Rows, Columns,        \* the grid; Columns is even
          Across,               \* [row, row -> columns within SEA_KM, or -1]
          InnerRows, OuterRows, \* rows served for certain; rows that may be served
          OceanSeed, Land,      \* a cell of the open sea; the fraction that makes land
          Per,                  \* fine cells per cell (even)
          FineAcross,           \* [rows apart -> fine columns within SHORE_KM, or -1]
          Pad, Chunk,           \* fine rows of the distance, and of one chunk
          Scenes                \* inputs: [raw, stations, shore, probes]

VARIABLES scene, work,      \* the input; None or the build under way
          mask              \* None or the mask that was written

vars == <<scene, work, mask>>
-----------------------------------------------------------------------------
Row == 0..(Rows - 1)
Column == 0..(Columns - 1)
Cell == Row \X Column
FineRow == 0..((Rows - 1) * Per - 1)
FineColumn == 0..(Columns * Per - 1)

\* numpy's round: half to even, of a position in half cells.
Round(n) == IF n % 2 = 0 \/ (n \div 2) % 2 = 0 THEN n \div 2 ELSE n \div 2 + 1
Nearest(p) == <<Round(p[1]), Round(p[2]) % Columns>>

\* centred_field: rows from north, columns from Greenwich, turned to south and 180 W.
Centred(raw) == [c \in Cell |-> raw[<<Rows - 1 - c[1], (c[2] + Columns \div 2) % Columns>>]]

\* ocean: within a row every run of water that touches a reached cell, then one row up and down.
RunId(water, start, k) ==      \* the run of the k-th cell after a cell of land
    Cardinality({j \in 1..k : /\ water[(start + j) % Columns] /\ ~water[(start + j - 1) % Columns]})
FilledFlat(water, reached) ==  \* (faulty: runs are cut at the date line)
    LET id(k) == RunId(water, 0, k)
    IN {k \in Column : water[k] /\ \E j \in reached : water[j] /\ id(k) = id(j)}
Filled(water, reached) ==
    IF reached = {} THEN {}
    ELSE IF \A c \in Column : water[c] THEN Column
    ELSE LET start == Min({c \in Column : ~water[c]})
             id(c) == RunId(water, start, (c - start) % Columns)
         IN {c \in Column : water[c] /\ \E r \in reached : water[r] /\ id(c) = id(r)}
Flooded(water, reached) ==
    LET filled == UNION {{<<r, c>> : c \in Filled([c \in Column |-> <<r, c>> \in water],
                                                  {c \in Column : <<r, c>> \in reached})} : r \in Row}
    IN {c \in water : \E r \in {c[1] - 1, c[1], c[1] + 1} : <<r, c[2]>> \in filled}

\* near: sums over a window of the row, extended at both ends.
Window(source, width, columns, c) ==
    \E k \in c..(c + 2 * width) : source[(k - width) % columns]
Near(land, rows, columns, across(_, _)) ==
    LET every == 0..(columns - 1)
        from(s, r) ==
            LET source == [x \in every |-> <<s, x>> \in land]
                width == across(s, r)
            IN IF width < 0 THEN {}
               ELSE IF width * 2 + 1 >= columns THEN {c \in every : \E x \in every : source[x]}
               ELSE {c \in every : Window(source, width, columns, c)}
    IN UNION {{<<r, c>> : c \in UNION {from(s, r) : s \in rows}} : r \in rows}

\* classes: what is certainly served and what may be; the rest is not.
Evidence ==
    LET field == Centred(scene.raw)
    IN {c \in Cell : field[c] > 0} \cup {Nearest(s) : s \in scene.stations}
Lands == LET field == Centred(scene.raw) IN {c \in Cell : field[c] >= Land}
Inside == {c \in Lands : c[1] \in InnerRows}
Far(sea) == sea \ Near(Evidence, Row, Columns, LAMBDA s, r : Across[s, r])
Edge(sea) == {c \in Cell : c[1] \in OuterRows} \ (Inside \cup Far(sea))

\* land_rows: a cell is land when an odd number of edges lies west of its centre.
Edges == UNION {{[x |-> q.west, low |-> q.south, high |-> q.north], [x |-> q.east, low |-> q.south, high |-> q.north]}
                : q \in scene.shore}
LandRows(rows) ==
    LET edges == Edges
        passed(r, c) == {e \in edges : e.low <= 2 * r + 1 /\ e.high > 2 * r + 1 /\ e.x < 2 * c + 1}
    IN {c \in rows \X FineColumn : Cardinality(passed(c[1], c[2])) % 2 = 1}

\* refine: the fine rows of one chunk, seen with as many rows around it as the distance needs.
FirstFine == Min(InnerRows) * Per - Per \div 2
LastFine == Max(InnerRows) * Per + Per \div 2
CoarseRow(r) == (2 * r + 1 + Per) \div (2 * Per)
CoarseColumn(c) == ((2 * c + 1 + Per) \div (2 * Per)) % Columns
Apart(a, b) == IF a < b THEN b - a ELSE a - b
Refined(start, edge) ==
    LET stop == Min({start + Chunk, LastFine})
        rows == Max({start - Pad, 0})..(Min({stop + Pad, (Rows - 1) * Per}) - 1)
        core == Near(LandRows(rows), rows, Columns * Per, LAMBDA s, r : FineAcross[Apart(s, r)])
    IN {c \in core : /\ start <= c[1] /\ c[1] < stop /\ CoarseRow(c[1]) \in InnerRows
                     /\ <<CoarseRow(c[1]), CoarseColumn(c[2])>> \in edge}

\* runs_of and land_runs: <<row, first column, last column + 1>>.
RunsOf(cells) ==
    {<<c[1], c[2], last>> : c \in {x \in cells : <<x[1], x[2] - 1>> \notin cells}, last \in 1..(Columns * Per)}
RunsOfCells(cells) ==
    {r \in RunsOf(cells) : /\ \A k \in r[2]..(r[3] - 1) : <<r[1], k>> \in cells
                           /\ <<r[1], r[3]>> \notin cells /\ r[2] < r[3]}
LandRuns == RunsOfCells(Lands)

\* place: what the mask says of a probe.
Place(edge, p) ==
    IF Nearest(p) \in Inside THEN "inside" ELSE IF Nearest(p) \in edge THEN "edge" ELSE "outside"
-----------------------------------------------------------------------------
Init == scene \in Scenes /\ work = None /\ mask = None

Begin ==
    /\ work = None /\ mask = None /\ OceanSeed \notin Lands
    /\ work' = [phase |-> "flood", reached |-> {OceanSeed}, edge |-> {}, fine |-> {}, start |-> FirstFine]
    /\ UNCHANGED <<scene, mask>>
At(phase) == work # None /\ work.phase = phase
Flood ==
    /\ At("flood")
    /\ LET water == Cell \ Lands
           reached == Flooded(water, work.reached)
       IN work' = IF Cardinality(reached) # Cardinality(work.reached)
                  THEN [work EXCEPT !.reached = reached]
                  ELSE [work EXCEPT !.edge = Edge(reached), !.phase = "check"]
    /\ UNCHANGED <<scene, mask>>
Check ==
    /\ At("check")
    /\ work' = IF \A q \in scene.probes : Place(work.edge, q[1]) = q[2]
               THEN [work EXCEPT !.phase = "refine"] ELSE None
    /\ UNCHANGED <<scene, mask>>
Refine ==
    /\ At("refine") /\ work.start < LastFine
    /\ work' = [work EXCEPT !.fine = @ \cup Refined(work.start, work.edge), !.start = @ + Chunk]
    /\ UNCHANGED <<scene, mask>>
Write ==
    /\ At("refine") /\ work.start >= LastFine
    /\ mask' = [runs |-> RunsOfCells(Inside), edge |-> RunsOfCells(work.edge),
                fine |-> RunsOfCells(work.fine), land |-> LandRuns]
    /\ work' = None
    /\ UNCHANGED scene

Next == Begin \/ Flood \/ Check \/ Refine \/ Write
Spec == Init /\ [][Next]_vars
-----------------------------------------------------------------------------
\* The rule the module states, of cells and circles.
Gap(a, b, columns) == Min({(a - b) % columns, (b - a) % columns})
Close(a, b, columns, across) == across >= 0 /\ Gap(a[2], b[2], columns) <= across
Neighbours(c) == {<<c[1] - 1, c[2]>>, <<c[1] + 1, c[2]>>, <<c[1], (c[2] + 1) % Columns>>, <<c[1], (c[2] - 1) % Columns>>}
OpenSea ==
    LET water == Cell \ Lands
        grown[n \in 0..Cardinality(Cell)] ==
            IF n = 0 THEN {OceanSeed}
            ELSE LET before == grown[n - 1]
                 IN before \cup (water \cap UNION {Neighbours(c) : c \in before})
    IN grown[Cardinality(Cell)]
NotServed ==
    LET evidence == Evidence
    IN {c \in Cell : c[1] \notin OuterRows}
       \cup {c \in OpenSea : ~\E e \in evidence : Close(c, e, Columns, Across[e[1], c[1]])}
Shore ==
    {f \in FineRow \X FineColumn :
        \E q \in scene.shore : /\ q.south <= 2 * f[1] + 1 /\ 2 * f[1] + 1 < q.north
                                /\ q.west < 2 * f[2] + 1 /\ 2 * f[2] + 1 <= q.east}
OnShore(f, shore) == \E s \in shore : Close(f, s, Columns * Per, FineAcross[Apart(f[1], s[1])])
CellsOf(runs) == UNION {{<<r[1], k>> : k \in r[2]..(r[3] - 1)} : r \in runs}

\* Part of MasksAreTrue.  The mask that is written says exactly what its rule says, cell by cell:
\* across the date line, at the borders of chunks, and for islands only a station shows.
DomainHolds ==
    mask # None =>
        LET inside == CellsOf(mask.runs)
            edge == CellsOf(mask.edge)
            shore == Shore
        IN /\ inside = {c \in Lands : c[1] \in InnerRows}
           /\ edge = (Cell \ inside) \ NotServed
           /\ CellsOf(mask.fine) = {f \in FineRow \X FineColumn :
                  /\ CoarseRow(f[1]) \in InnerRows
                  /\ <<CoarseRow(f[1]), CoarseColumn(f[2])>> \in edge /\ OnShore(f, shore)}
           /\ CellsOf(mask.land) = Lands
=============================================================================
