---------------------------- MODULE ArtifactStore ----------------------------
(***************************************************************************)
(* Artifacts of a data root (openepw/artifacts/store.py) and the compact   *)
(* exports registered there (openepw/artifacts/export.py), written by the  *)
(* threads of one process.                                                 *)
(*                                                                         *)
(* An artifact is a file and a record that names the file and its          *)
(* checksum; each is written by its own atomic replacement, so another     *)
(* thread or a crash may come between them.  Three kinds are told apart by *)
(* where their identity comes from:                                        *)
(*   Fresh      written under a new random id and in a new bundle folder   *)
(*   Baselines  EPWs of the user: id and folder follow from the content    *)
(*   Exports    ZIPs: the id follows from the exported jobs, the folder is *)
(*              that of the last of them, the bytes depend on the time     *)
(* A record is represented by the body whose checksum it holds.            *)
(***************************************************************************)
EXTENDS Naturals

CONSTANTS Fresh, Baselines, Exports,
          Folder,       \* the file of each export: jobs/<last job>/compact.zip
          Threads, None,
          Exporters,    \* threads whose requests ask for exports
          MaxStamp,     \* bound on the times a ZIP is stamped with
          MaxDamages    \* bound on files lost or altered

Documents == Fresh \cup Baselines
Ids == Documents \cup Exports
Paths == Documents \cup {Folder[e] : e \in Exports}
\* A body is the artifact it belongs to and, for a ZIP, the time it was built.
Bodies == Ids \X (0..MaxStamp)

ASSUME ArtifactAssumption ==
    /\ Fresh \cap Baselines = {} /\ Documents \cap Exports = {}
    /\ \A e \in Exports : Folder[e] \notin Documents
    /\ None \notin Ids \cup Bodies
    /\ Exporters \subseteq Threads
    /\ MaxStamp \in Nat /\ MaxDamages \in Nat

VARIABLES files,     \* what each path holds
          records,   \* artifacts/<id>.json
          pc, id, body,  \* each thread's place in its call, the id and the bytes it registers
          damaged,   \* paths whose file was altered since it was placed
          damages    \* how many were

threadVars == <<pc, id, body>>
vars == <<files, records, threadVars, damaged, damages>>
-----------------------------------------------------------------------------
Phases == {"idle", "build", "register", "place", "record"}

\* Where an artifact lies (faulty: documents of one name in one place; exports in one folder).
ByName(x) == IF x \in Exports THEN Folder[x] ELSE CHOOSE y \in Documents : TRUE
OneFolder(x) == IF x \in Exports THEN Folder[CHOOSE e \in Exports : TRUE] ELSE x
FileOf(x) == IF x \in Exports THEN Folder[x] ELSE x

TypeOK ==
    /\ files \in [Paths -> Bodies \cup {None}]
    /\ records \in [Ids -> Bodies \cup {None}]
    /\ pc \in [Threads -> Phases]
    /\ id \in [Threads -> Ids \cup {None}]
    /\ body \in [Threads -> Bodies \cup {None}]
    /\ damaged \in SUBSET Paths
    /\ damages \in 0..MaxDamages
    /\ \A t \in Threads :
          /\ pc[t] # "idle" => id[t] \in Ids
          /\ pc[t] \in {"register", "place", "record"} => body[t] \in {id[t]} \X (0..MaxStamp)

Idle ==
    /\ pc = [t \in Threads |-> "idle"]
    /\ id = [t \in Threads |-> None]
    /\ body = [t \in Threads |-> None]

Init ==
    /\ files = [p \in Paths |-> None]
    /\ records = [x \in Ids |-> None]
    /\ Idle
    /\ damaged = {} /\ damages = 0
-----------------------------------------------------------------------------
\* resolve: the record exists and the file it names has the checksum it gives.
Resolves(x) == records[x] # None /\ files[FileOf(x)] = records[x]

Begins(t, x, phase, bytes) ==
    /\ pc[t] = "idle"
    /\ pc' = [pc EXCEPT ![t] = phase]
    /\ id' = [id EXCEPT ![t] = x]
    /\ body' = [body EXCEPT ![t] = bytes]
    /\ UNCHANGED <<files, records, damaged, damages>>

Ends(t) ==
    /\ pc' = [pc EXCEPT ![t] = "idle"]
    /\ id' = [id EXCEPT ![t] = None]
    /\ body' = [body EXCEPT ![t] = None]

\* write: a new id in a bundle folder nobody else writes to.
Write(t, x) ==
    /\ files[FileOf(x)] = None /\ records[x] = None /\ \A u \in Threads : id[u] # x
    /\ Begins(t, x, "place", <<x, 0>>)

\* register_baseline_bytes: content that is already registered is not stored again.
RegisterBaseline(t, x) ==
    /\ records[x] = None
    /\ Begins(t, x, "place", <<x, 0>>)

\* export_compact and its unions: an export that is registered is resolved and returned;
\* otherwise the ZIP is built.
Export(t, x) ==
    /\ records[x] = None
    /\ Begins(t, x, "build", None)

Build(t) ==
    /\ pc[t] = "build"
    /\ \E n \in 0..MaxStamp : body' = [body EXCEPT ![t] = <<id[t], n>>]
    /\ pc' = [pc EXCEPT ![t] = "register"]
    /\ UNCHANGED <<files, records, id, damaged, damages>>

\* register_file looks once more for the record, ...
Register(t) ==
    /\ pc[t] = "register"
    /\ \/ /\ records[id[t]] # None
          /\ Ends(t)
       \/ /\ records[id[t]] = None
          /\ pc' = [pc EXCEPT ![t] = "place"]
          /\ UNCHANGED <<id, body>>
    /\ UNCHANGED <<files, records, damaged, damages>>

\* ... the file is moved into place, ...
Place(t) ==
    /\ pc[t] = "place"
    /\ files' = [files EXCEPT ![FileOf(id[t])] = body[t]]
    /\ damaged' = damaged \ {FileOf(id[t])}
    /\ pc' = [pc EXCEPT ![t] = "record"]
    /\ UNCHANGED <<records, id, body, damages>>

\* ... and the record is written with the checksum of what this thread had in hand.
Record(t) ==
    /\ pc[t] = "record"
    /\ records' = [records EXCEPT ![id[t]] = body[t]]
    /\ Ends(t)
    /\ UNCHANGED <<files, damaged, damages>>

\* A write fails, or the process dies and starts again.
Fail(t) ==
    /\ pc[t] # "idle"
    /\ Ends(t)
    /\ UNCHANGED <<files, records, damaged, damages>>
Crash ==
    /\ \E t \in Threads : pc[t] # "idle"
    /\ pc' = [t \in Threads |-> "idle"]
    /\ id' = [t \in Threads |-> None]
    /\ body' = [t \in Threads |-> None]
    /\ UNCHANGED <<files, records, damaged, damages>>

Damage(p) ==
    /\ damages < MaxDamages /\ damages' = damages + 1
    /\ files[p] # None /\ files' = [files EXCEPT ![p] = None]
    /\ damaged' = damaged \cup {p}
    /\ UNCHANGED <<records, threadVars>>

Step(t) ==
    \/ \E x \in Fresh : Write(t, x)
    \/ \E x \in Baselines : RegisterBaseline(t, x)
    \/ t \in Exporters /\ \E x \in Exports : Export(t, x)
    \/ Build(t) \/ Register(t) \/ Place(t) \/ Record(t) \/ Fail(t)

Next == Crash \/ (\E t \in Threads : Step(t)) \/ (\E p \in Paths : Damage(p))

Spec == Init /\ [][Next]_vars
-----------------------------------------------------------------------------
Sound(x) == records[x] # None /\ FileOf(x) \notin damaged => Resolves(x)

\* A record of an EPW, a manifest or a baseline never precedes its file, and no later write
\* takes the file away, whoever writes at the same time and wherever a crash falls.
DocumentsResolve == \A x \in Documents : Sound(x)

\* "Atomically register a streamed local artifact under a stable identifier": a registered
\* export stays what it was.  This holds while one thread exports, to separate folders.
ExportsResolve == \A x \in Exports : Sound(x)
=============================================================================
