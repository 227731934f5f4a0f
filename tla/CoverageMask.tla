---------------------------- MODULE CoverageMask ----------------------------
(***************************************************************************)
(* Where a point lies to the reviewed coverage of a product                *)
(* (openepw/availability/coverage.py): load_coverage joins the masks of a  *)
(* product, mask_runs their row runs, and GridCoverage.where looks a point *)
(* up by bisection in the runs of its row.  Points are in half cells from  *)
(* (-90, -180); longitudes wrap.                                           *)
(***************************************************************************)
EXTENDS Integers, Sequences, FiniteSets, SequencesExt, FiniteSetsExt

CONSTANTS Rows, Columns,    \* the grid of the masks
          Masks,            \* what may lie on disk: sequences of [runs, edge (or None), fine, step]
          None

VARIABLES masks,            \* the verified masks of one product
          centred,          \* cell_origin: "center"
          coverage          \* the loaded coverage, or None

vars == <<masks, centred, coverage>>

\* mask_runs: runs <<row, first, last + 1>> sorted, overlapping and adjacent ones merged.
Before(a, b) == \/ a[1] < b[1]
                \/ a[1] = b[1] /\ a[2] < b[2]
                \/ a[1] = b[1] /\ a[2] = b[2] /\ a[3] < b[3]
Joined(merged, run) ==
    IF merged # <<>> /\ Last(merged)[1] = run[1] /\ run[2] <= Last(merged)[3]
    THEN Append(Front(merged), <<run[1], Last(merged)[2], Max({Last(merged)[3], run[3]})>>)
    ELSE Append(merged, run)
MaskRuns(runs) == FoldLeft(Joined, <<>>, SetToSortSeq(runs, Before))

\* load_coverage: the masks that share the first one's grid; the edge band is explicit when every
\* one of them lists it, and only then are finer cells of that band read.
SameGrid(ms) == SelectSeq(ms, LAMBDA m : m.step = ms[1].step)
Load(ms) ==
    LET used == SameGrid(ms)
        explicit == \A m \in ToSet(used) : m.edge # None
        band == UNION {m.edge : m \in ToSet(used)}
    IN IF \A m \in ToSet(used) : m.runs = {} THEN None
       ELSE [runs |-> MaskRuns(UNION {m.runs : m \in ToSet(used)}),
             edge |-> IF explicit THEN MaskRuns(band) ELSE None,
             fine |-> IF explicit THEN UNION {m.fine : m \in ToSet(used)} ELSE {}]

\* _occupied: the last run of the row that starts at or before the column.
Occupied(runs, row, column) ==
    LET spans == SelectSeq(runs, LAMBDA r : r[1] = row)
        index == Cardinality({i \in DOMAIN spans : spans[i][2] <= column})
    IN index > 0 /\ column < spans[index][3]

\* The row or column of a coordinate: floor, or for centred cells round, which takes halves to
\* the even cell.
Cell(half) ==
    LET low == half \div 2 IN
    IF centred /\ half % 2 = 1 /\ low % 2 = 1 THEN low + 1 ELSE low
\* A neighbouring column (faulty: none across the date line).
WrapNot(column) == column
Wrap(column) == column % Columns

Where(cov, y, x) ==
    LET row == Cell(y)
        column == Cell(x) % Columns
    IN IF Occupied(cov.runs, row, column) THEN "inside"
       ELSE IF cov.edge # None
       THEN IF ~Occupied(cov.edge, row, column) THEN "outside"
            ELSE IF <<y, x % (2 * Columns)>> \in cov.fine THEN "inside" ELSE "edge"
       ELSE IF \E dr, dc \in {-1, 0, 1} : Occupied(cov.runs, row + dr, Wrap(column + dc))
       THEN "edge" ELSE "outside"
-----------------------------------------------------------------------------
Init == masks \in Masks /\ centred \in BOOLEAN /\ coverage = None
Read ==
    /\ coverage = None /\ Load(masks) # None
    /\ coverage' = Load(masks) /\ UNCHANGED <<masks, centred>>
Next == Read
Spec == Init /\ [][Next]_vars
-----------------------------------------------------------------------------
\* The cells the masks name, and how far (in half cells) a point is from a cell's square.
Cells(runs) == UNION {{<<r[1], c>> : c \in r[2]..(r[3] - 1)} : r \in runs}
Named == Cells(UNION {m.runs : m \in ToSet(SameGrid(masks))})
Start(i) == IF centred THEN 2 * i - 1 ELSE 2 * i
Gap(at, i) == Max({0, Start(i) - at, at - Start(i) - 2})
GapAround(at, i) == Min({Gap(at + k * 2 * Columns, i) : k \in {-1, 0, 1}})
Distance(cell, y, x) == Max({Gap(y, cell[1]), GapAround(x, cell[2])})
Strictly(at, i) == at = Start(i) + 1
WithinCell(cell, y, x) ==
    Strictly(y, cell[1]) /\ \E k \in {-1, 0, 1} : Strictly(x + k * 2 * Columns, cell[2])

\* "At a point a gated product is inside (the point's cell is occupied), near the edge (a
\* neighbouring cell is occupied) or outside (neither)", in terms of the squares on the globe
\* and not of runs: inside touches a named cell (or a finer one of the band), the interior of a
\* named cell is inside, and outside is a whole cell from every named one, across the date
\* line too; with an explicit band nothing beyond it is near.
WhereIsTrue ==
    coverage # None =>
    \A y \in 0..(2 * Rows), x \in 0..(2 * Columns) :
        LET place == Where(coverage, y, x) IN
        /\ place = "inside" =>
              \/ \E c \in Named : Distance(c, y, x) = 0
              \/ <<y, x % (2 * Columns)>> \in coverage.fine
        /\ (\E c \in Named : WithinCell(c, y, x)) => place = "inside"
        /\ coverage.edge = None /\ place = "outside" => \A c \in Named : Distance(c, y, x) >= IF centred THEN 1 ELSE 2
        /\ coverage.edge # None /\ place = "edge" =>
              \E c \in Cells(ToSet(coverage.edge)) : Distance(c, y, x) = 0
=============================================================================
