----------------------------- MODULE GridEvidence -----------------------------
(***************************************************************************)
(* Coverage masks taken from a provider's published grid: acquire_meta     *)
(* (scripts/mcp_availability_map/acquire_nsrdb_meta.py) reads the table of *)
(* coordinates of one object in byte ranges and publishes meta.bin,        *)
(* mask.json and the manifest that pins both; load_coverage_manifest and   *)
(* classify_coverage (nsrdb_coverage.py) and the masks of build.py use     *)
(* them.  The object is replaced at any time, the process killed at any    *)
(* step, a file damaged.                                                   *)
(*                                                                         *)
(* An object's version is its ETag.  A table is a sequence of parts, one   *)
(* per byte span; a file is known by its content, which stands for its     *)
(* checksum.                                                               *)
(***************************************************************************)
EXTENDS Integers, Sequences, FiniteSets, SequencesExt

CONSTANTS None,
          Objects,       \* successive versions: [rows, header, spans, layout, valid]
          Caps,          \* what an operator may ask for: [bytes, requests]
          Approved,      \* the caps the owner approved
          Block,         \* bytes of one read of the header
          MaxRuns, MaxChanges

VARIABLES source,                  \* version of the object now published
          manifest, mask, meta,    \* the files: None or content
          run,                     \* None or the acquisition under way
          result,                  \* of the last one: None, "given" or "failed"
          built,                   \* masks of the last map: [etag, cells, stale]
          seen, spent, runs, changes   \* history and bounds

vars == <<source, manifest, mask, meta, run, result, built, seen, spent, runs, changes>>
files == <<manifest, mask, meta>>
counted == <<source, seen, runs, changes>>
-----------------------------------------------------------------------------
Object(v) == Objects[v]
Total(s) == FoldSeq(LAMBDA n, sum : n + sum, 0, s)
Cells(table) == {<<k, table[k]>> : k \in DOMAIN table}
TableOf(v) == [k \in DOMAIN Object(v).spans |-> Object(v).rows]

\* load_coverage_manifest: the mask is what the manifest pinned.
Loads == manifest # None /\ mask = manifest.mask

\* classify_coverage: cells of every selector asked for, of some, and whether anything is missing.
Classify(asked, entries) ==
    LET fresh == {s \in asked \cap DOMAIN entries : ~entries[s].stale}
        union == UNION {entries[s].cells : s \in fresh}
        every == IF fresh # {} /\ fresh = asked
                 THEN {c \in union : \A s \in fresh : c \in entries[s].cells} ELSE {}
    IN [all |-> every, some |-> union \ every, unknown |-> fresh # asked]

Init ==
    /\ source = 1 /\ manifest = None /\ mask = None /\ meta = None
    /\ run = None /\ result = None /\ built = None
    /\ seen = None /\ spent = [bytes |-> 0, requests |-> 0] /\ runs = 0 /\ changes = 0
-----------------------------------------------------------------------------
\* HEAD with the ETag of the last table; the caps were compared with the approved ones.
Checked(found) ==
    IF meta = found.meta THEN "given" ELSE "failed"
Unchanged ==      \* 304
    /\ manifest # None /\ manifest.etag = source
    /\ result' = IF manifest.stale THEN "failed" ELSE Checked(manifest)
    /\ run' = None
Known == manifest # None /\ manifest.etag = source /\ ~manifest.stale
SameTag == Known /\ result' = Checked(manifest) /\ run' = None      \* 200
NewTag(caps) ==
    /\ ~Known
    /\ run' = [phase |-> IF manifest = None THEN "header" ELSE "known", etag |-> source, caps |-> caps,
               bytes |-> 0, requests |-> 1, header |-> 0, table |-> <<>>]
    /\ result' = None
Ask(caps) ==
    /\ run = None /\ runs < MaxRuns
    /\ caps.bytes <= Approved.bytes /\ caps.requests <= Approved.requests
    /\ Loads \/ manifest = None
    /\ Unchanged \/ SameTag \/ NewTag(caps)
    /\ seen' = IF run' = None \/ manifest = None THEN source ELSE seen
    /\ runs' = runs + 1 /\ spent' = [bytes |-> 0, requests |-> 1]
    /\ UNCHANGED <<source, files, built, changes>>

At(phase) == run # None /\ run.phase = phase
Fail == run' = None /\ result' = "failed"

\* _stale_existing: what is there is no longer taken for current.
MarkStale ==
    /\ At("known")
    /\ manifest' = [manifest EXCEPT !.stale = TRUE]
    /\ run' = [run EXCEPT !.phase = "header"]
    /\ seen' = run.etag
    /\ UNCHANGED <<source, mask, meta, result, built, runs, changes, spent>>

\* _Budget.claim, then a range of the very version that HEAD named (faulty: of any).
Claims(n) == run.bytes + n <= run.caps.bytes /\ run.requests + 1 <= run.caps.requests
AnyVersion == source \in DOMAIN Objects
SameVersion == source = run.etag
Pay(n) == spent' = [bytes |-> spent.bytes + n, requests |-> spent.requests + 1]
Paid(n) == [run EXCEPT !.bytes = @ + n, !.requests = @ + 1]

ReadHeader ==
    /\ At("header") /\ run.header < Object(run.etag).header
    /\ \/ ~Claims(Block) /\ Fail /\ UNCHANGED spent
       \/ Claims(Block) /\ Pay(Block) /\ Fail            \* refused, short or oversized
       \/ Claims(Block) /\ SameVersion /\ Pay(Block)
          /\ run' = [Paid(Block) EXCEPT !.header = @ + 1] /\ UNCHANGED result
    /\ UNCHANGED <<files, built, counted>>
Layout ==
    /\ At("header") /\ run.header = Object(run.etag).header
    /\ IF Object(run.etag).layout /\ run.bytes + Total(Object(run.etag).spans) <= run.caps.bytes
       THEN run' = [run EXCEPT !.phase = "table"] /\ UNCHANGED result
       ELSE Fail
    /\ UNCHANGED <<files, built, counted, spent>>
ReadSpan ==
    /\ At("table") /\ Len(run.table) < Len(Object(run.etag).spans)
    /\ LET n == Object(run.etag).spans[Len(run.table) + 1]
       IN \/ ~Claims(n) /\ Fail /\ UNCHANGED spent
          \/ Claims(n) /\ Pay(n) /\ Fail
          \/ Claims(n) /\ SameVersion /\ Pay(n)
             /\ run' = [Paid(n) EXCEPT !.table = Append(@, Object(source).rows)] /\ UNCHANGED result
    /\ UNCHANGED <<files, built, counted>>

\* _cells_and_nearest, then the three files in turn, each replaced whole.
PutMeta ==
    /\ At("table") /\ Len(run.table) = Len(Object(run.etag).spans)
    /\ IF Object(run.etag).valid
       THEN meta' = run.table /\ run' = [run EXCEPT !.phase = "mask"] /\ UNCHANGED result
       ELSE Fail /\ UNCHANGED meta
    /\ UNCHANGED <<manifest, mask, built, counted, spent>>
PutMask ==
    /\ At("mask")
    /\ mask' = Cells(run.table) /\ run' = [run EXCEPT !.phase = "manifest"]
    /\ UNCHANGED <<manifest, meta, result, built, counted, spent>>
PutManifest ==
    /\ At("manifest")
    /\ manifest' = [etag |-> run.etag, meta |-> run.table, mask |-> Cells(run.table), stale |-> FALSE,
                    bytes |-> run.bytes, requests |-> run.requests]
    /\ run' = None /\ result' = "given"
    /\ UNCHANGED <<mask, meta, built, counted, spent>>
-----------------------------------------------------------------------------
\* The masks of a map, of a manifest that loads and beside the table it was made from.
Build ==
    /\ run = None /\ Loads /\ meta = manifest.meta
    /\ built' = [etag |-> manifest.etag, cells |-> mask, stale |-> manifest.stale]
    /\ UNCHANGED <<files, run, result, counted, spent>>

Replace(v) ==
    /\ v # source /\ changes < MaxChanges /\ changes' = changes + 1 /\ source' = v
    /\ UNCHANGED <<files, run, result, built, seen, spent, runs>>
Die ==
    /\ run # None /\ run' = None
    /\ UNCHANGED <<files, result, built, counted, spent>>
Damage ==
    /\ run = None /\ changes < MaxChanges /\ changes' = changes + 1
    /\ result' = None
    /\ \/ meta # None /\ meta' = None /\ UNCHANGED mask
       \/ mask # None /\ mask' = {} /\ UNCHANGED meta
    /\ UNCHANGED <<manifest, run, built, source, seen, spent, runs>>

Next ==
    \/ \E caps \in Caps : Ask(caps)
    \/ MarkStale \/ ReadHeader \/ Layout \/ ReadSpan \/ PutMeta \/ PutMask \/ PutManifest
    \/ Build \/ Die \/ Damage \/ \E v \in DOMAIN Objects : Replace(v)
Spec == Init /\ [][Next]_vars
-----------------------------------------------------------------------------
\* What can be loaded is the table of one version, and says stale once a newer one was seen.
MaskIsOfOneVersion ==
    Loads => /\ manifest.meta = TableOf(manifest.etag) /\ mask = Cells(TableOf(manifest.etag))
             /\ Object(manifest.etag).valid
             /\ ~manifest.stale => manifest.etag = seen
\* Nothing is given out that its own files do not bear out.
GivenIsWhole ==
    result = "given" /\ run = None => Loads /\ meta = manifest.meta /\ ~manifest.stale
\* No run passes what the owner approved, and the manifest says what was really spent.
WithinApproval ==
    /\ spent.bytes <= Approved.bytes /\ spent.requests <= Approved.requests
    /\ At("manifest") => run.bytes = spent.bytes /\ run.requests = spent.requests
\* A view of coverage claims no cell that some asked grid lacks.
ViewIsCautious ==
    /\ Loads =>
          LET view(asked) == Classify(asked, [s \in {"s"} |-> [cells |-> mask, stale |-> manifest.stale]])
          IN /\ view({"s", "t"}).all = {} /\ view({"s", "t"}).unknown
             /\ view({"s"}).all # {} => view({"s"}).all = Cells(TableOf(seen))
    /\ built # None => built.cells = Cells(TableOf(built.etag))

EvidenceHolds == MaskIsOfOneVersion /\ GivenIsWhole /\ WithinApproval /\ ViewIsCautious
=============================================================================
