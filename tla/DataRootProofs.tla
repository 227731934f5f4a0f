--------------------------- MODULE DataRootProofs ---------------------------
(***************************************************************************)
(* Machine-checked proofs about the parts of a data root: its artifact     *)
(* store, the lock of its runners (RunnerLock), the recording and replay   *)
(* of a fetch (Replay), a request to a provider (Http), the clients of the *)
(* MCP server (Mcp) and the jobs of a plan of future weather (Future), for *)
(* every number of processes, runners, threads, artifacts, connections,    *)
(* plans, jobs and members.                                                *)
(***************************************************************************)
EXTENDS MCDataRoot, FiniteSetTheorems, SequenceTheorems, TLAPS
-----------------------------------------------------------------------------
(***************************************************************************)
(* The artifact store.                                                     *)
(***************************************************************************)
Bytes(x) == <<x, 0>>

\* A document has one content: its file and its record hold it or are not there yet, and a
\* record that is there has its file unless somebody took it away.
Kept(x) ==
    /\ files[x] \in {Bytes(x), None}
    /\ records[x] \in {Bytes(x), None}
    /\ files[x] = None => records[x] = None \/ x \in damaged

\* What a thread is about to write of a document is that content, and it has placed the file
\* before it writes the record.
Writing(t) ==
    id[t] \in Documents /\ pc[t] # "idle" =>
        /\ pc[t] \in {"place", "record"}
        /\ body[t] = Bytes(id[t])
        /\ pc[t] = "record" => files[id[t]] # None \/ id[t] \in damaged

ArtifactInv ==
    /\ TypeOK
    /\ \A x \in Documents : Kept(x)
    /\ \A t \in Threads : Writing(t)

LEMMA DocumentFiles ==
    ASSUME NEW x \in Documents
    PROVE  /\ FileOf(x) = x /\ x \in Ids /\ x \in Paths
           /\ Bytes(x) \in Bodies /\ Bytes(x) # None
           /\ \A e \in Exports : FileOf(e) # x /\ e # x
  <1>1. FileOf(x) = x /\ x \in Ids /\ x \in Paths
    BY ArtifactAssumption DEF ArtifactAssumption, FileOf, Ids, Paths
  <1>2. Bytes(x) \in Bodies /\ Bytes(x) # None
    BY <1>1, ArtifactAssumption DEF ArtifactAssumption, Bytes, Bodies
  <1>3. \A e \in Exports : FileOf(e) # x /\ e # x
    BY ArtifactAssumption DEF ArtifactAssumption, FileOf
  <1>4. QED
    BY <1>1, <1>2, <1>3

LEMMA InitArtifacts == Init => ArtifactInv
  <1> SUFFICES ASSUME Init PROVE ArtifactInv
    OBVIOUS
  <1>1. TypeOK
    BY ArtifactAssumption DEF ArtifactAssumption, Init, Idle, TypeOK, Phases
  <1>2. ASSUME NEW x \in Documents
        PROVE  Kept(x)
    BY DocumentFiles DEF Init, Kept
  <1>3. ASSUME NEW t \in Threads
        PROVE  Writing(t)
    BY DEF Init, Idle, Writing
  <1>4. QED
    BY <1>1, <1>2, <1>3 DEF ArtifactInv

\* A step that leaves files, records and damages alone need only keep the thread that takes it.
LEMMA OneThreadMoves ==
    ASSUME ArtifactInv, NEW t \in Threads, Writing(t)',
           UNCHANGED <<files, records, damaged>>,
           \A u \in Threads : u # t => pc'[u] = pc[u] /\ id'[u] = id[u] /\ body'[u] = body[u],
           TypeOK'
    PROVE  ArtifactInv'
  <1>1. \A x \in Documents : Kept(x)'
    BY DEF ArtifactInv, Kept
  <1>2. \A u \in Threads : Writing(u)'
    BY DEF ArtifactInv, Writing
  <1>3. QED
    BY <1>1, <1>2 DEF ArtifactInv

LEMMA BeginsKeeps ==
    ASSUME ArtifactInv, NEW t \in Threads, NEW x \in Ids, NEW mark, NEW bytes,
           Begins(t, x, mark, bytes),
           \/ x \in Documents /\ mark = "place" /\ bytes = Bytes(x)
           \/ x \in Exports /\ mark = "build" /\ bytes = None
    PROVE  ArtifactInv'
  <1>1. TypeOK /\ x \notin Exports \cap Documents
    BY ArtifactAssumption DEF ArtifactInv, ArtifactAssumption
  <1>2. x \in Documents => bytes \in {x} \X (0..MaxStamp) /\ bytes \in Bodies
    BY ArtifactAssumption DEF ArtifactAssumption, Bytes, Bodies, Ids
  <1>3. TypeOK'
    BY <1>1, <1>2 DEF Begins, TypeOK, Phases
  <1>4. Writing(t)'
    BY <1>1 DEF Begins, TypeOK, Writing
  <1>5. QED
    BY <1>1, <1>3, <1>4, OneThreadMoves DEF Begins, TypeOK

LEMMA EndsKeeps ==
    ASSUME ArtifactInv, NEW t \in Threads, Ends(t), UNCHANGED <<files, records, damaged, damages>>
    PROVE  ArtifactInv'
  <1>1. TypeOK
    BY DEF ArtifactInv
  <1>2. TypeOK'
    BY <1>1 DEF Ends, TypeOK, Phases
  <1>3. Writing(t)'
    BY <1>1 DEF Ends, TypeOK, Writing
  <1>4. QED
    BY <1>1, <1>2, <1>3, OneThreadMoves DEF Ends, TypeOK

LEMMA StepKeeps ==
    ASSUME ArtifactInv, NEW t \in Threads, Step(t)
    PROVE  ArtifactInv'
  <1> USE ArtifactAssumption DEF ArtifactAssumption
  <1>1. /\ TypeOK
        /\ \A x \in Documents : Kept(x)
        /\ \A u \in Threads : Writing(u)
    BY DEF ArtifactInv
  <1>2. ASSUME NEW x \in Fresh, Write(t, x)
        PROVE  ArtifactInv'
    BY <1>2, BeginsKeeps DEF Write, Bytes, Documents, Ids
  <1>3. ASSUME NEW x \in Baselines, RegisterBaseline(t, x)
        PROVE  ArtifactInv'
    BY <1>3, BeginsKeeps DEF RegisterBaseline, Bytes, Documents, Ids
  <1>4. ASSUME NEW x \in Exports, Export(t, x)
        PROVE  ArtifactInv'
    BY <1>4, BeginsKeeps DEF Export, Ids
  <1>5. CASE Build(t)
    <2>1. PICK n \in 0..MaxStamp : body' = [body EXCEPT ![t] = <<id[t], n>>]
      BY <1>5 DEF Build
    <2>2. id[t] \in Ids /\ id[t] \notin Documents
      BY <1>1, <1>5 DEF Build, TypeOK, Writing
    <2>3. <<id[t], n>> \in Bodies /\ <<id[t], n>> \in {id[t]} \X (0..MaxStamp)
      BY <2>2 DEF Bodies
    <2>4. TypeOK'
      BY <1>1, <1>5, <2>1, <2>3 DEF Build, TypeOK, Phases
    <2>5. Writing(t)'
      BY <1>1, <1>5, <2>2 DEF Build, TypeOK, Writing
    <2>6. QED
      BY <1>1, <1>5, <2>1, <2>4, <2>5, OneThreadMoves DEF Build, TypeOK
  <1>6. CASE Register(t)
    <2>1. id[t] \notin Documents
      BY <1>1, <1>6 DEF Register, TypeOK, Writing
    <2>2. CASE Ends(t)
      BY <1>6, <2>2, EndsKeeps DEF Register
    <2>3. CASE pc' = [pc EXCEPT ![t] = "place"] /\ UNCHANGED <<id, body>>
      <3>1. TypeOK' /\ Writing(t)'
        BY <1>1, <1>6, <2>1, <2>3 DEF Register, TypeOK, Phases, Writing
      <3>2. QED
        BY <1>1, <1>6, <2>3, <3>1, OneThreadMoves DEF Register, TypeOK
    <2>4. QED
      BY <1>6, <2>2, <2>3 DEF Register
  <1>7. CASE Place(t)
    <2> DEFINE x == id[t]
    <2>1. x \in Ids /\ FileOf(x) \in Paths /\ body[t] \in Bodies
      BY <1>1, <1>7 DEF Place, TypeOK, Bodies, FileOf, Paths, Ids
    <2>2. TypeOK'
      BY <1>1, <1>7, <2>1 DEF Place, TypeOK, Phases
    <2>3. ASSUME NEW y \in Documents
          PROVE  Kept(y)'
      <3>1. CASE x = y
        BY <1>1, <1>7, <3>1, DocumentFiles DEF Place, TypeOK, Kept, Writing
      <3>2. CASE x # y
        <4>1. FileOf(x) # y
          BY <2>1, <3>2, DocumentFiles DEF Ids
        <4>2. QED
          BY <1>1, <1>7, <4>1 DEF Place, TypeOK, Kept
      <3>3. QED
        BY <3>1, <3>2
    <2>4. ASSUME NEW u \in Threads
          PROVE  Writing(u)'
      <3>1. CASE u = t
        BY <1>1, <1>7, <3>1, DocumentFiles DEF Place, TypeOK, Writing
      <3>2. CASE u # t
        <4>1. id[u] \in Documents /\ pc[u] = "record" =>
                 files'[id[u]] # None \/ id[u] \in damaged'
          <5>1. CASE FileOf(x) = id[u]
            BY <1>1, <1>7, <2>1, <5>1 DEF Place, TypeOK
          <5>2. CASE FileOf(x) # id[u]
            BY <1>1, <1>7, <5>2 DEF Place, TypeOK, Writing
          <5>3. QED
            BY <5>1, <5>2
        <4>2. QED
          BY <1>1, <1>7, <3>2, <4>1 DEF Place, TypeOK, Writing
      <3>3. QED
        BY <3>1, <3>2
    <2>5. QED
      BY <2>2, <2>3, <2>4 DEF ArtifactInv
  <1>8. CASE Record(t)
    <2>1. TypeOK'
      BY <1>1, <1>8 DEF Record, Ends, TypeOK, Phases, Bodies
    <2>2. ASSUME NEW y \in Documents
          PROVE  Kept(y)'
      BY <1>1, <1>8, DocumentFiles DEF Record, TypeOK, Kept, Writing
    <2>3. ASSUME NEW u \in Threads
          PROVE  Writing(u)'
      BY <1>1, <1>8 DEF Record, Ends, TypeOK, Writing
    <2>4. QED
      BY <2>1, <2>2, <2>3 DEF ArtifactInv
  <1>9. CASE Fail(t)
    BY <1>9, EndsKeeps DEF Fail
  <1>10. QED
    BY <1>2, <1>3, <1>4, <1>5, <1>6, <1>7, <1>8, <1>9 DEF Step

LEMMA ArtifactStep == ArtifactInv /\ [Next]_vars => ArtifactInv'
  <1> SUFFICES ASSUME ArtifactInv, [Next]_vars PROVE ArtifactInv'
    OBVIOUS
  <1>1. /\ TypeOK
        /\ \A x \in Documents : Kept(x)
        /\ \A u \in Threads : Writing(u)
    BY DEF ArtifactInv
  <1>2. CASE Crash
    <2>1. TypeOK'
      BY <1>1, <1>2 DEF Crash, TypeOK, Phases
    <2>2. QED
      BY <1>1, <1>2, <2>1 DEF Crash, ArtifactInv, Kept, Writing
  <1>3. ASSUME NEW p \in Paths, Damage(p)
        PROVE  ArtifactInv'
    <2>1. TypeOK'
      BY <1>1, <1>3, ArtifactAssumption DEF ArtifactAssumption, Damage, threadVars, TypeOK
    <2>2. \A x \in Documents : Kept(x)'
      BY <1>1, <1>3, DocumentFiles DEF Damage, TypeOK, Kept
    <2>3. \A u \in Threads : Writing(u)'
      BY <1>1, <1>3, DocumentFiles DEF Damage, threadVars, TypeOK, Writing
    <2>4. QED
      BY <2>1, <2>2, <2>3 DEF ArtifactInv
  <1>4. ASSUME NEW t \in Threads, Step(t)
        PROVE  ArtifactInv'
    BY <1>4, StepKeeps
  <1>5. CASE UNCHANGED vars
    BY <1>1, <1>5 DEF vars, threadVars, ArtifactInv, TypeOK, Kept, Writing
  <1>6. QED
    BY <1>2, <1>3, <1>4, <1>5 DEF Next

\* The inductive invariant holds in every reachable state.
THEOREM ArtifactsAreSound == Spec => []ArtifactInv
  BY InitArtifacts, ArtifactStep, PTL DEF Spec

\* Whoever writes, fails or dies at whatever moment: a recorded EPW, manifest or baseline
\* resolves unless somebody outside the program takes its file away.
THEOREM DocumentsAlwaysResolve == Spec => []DocumentsResolve
  <1>1. ArtifactInv => DocumentsResolve
    <2> SUFFICES ASSUME ArtifactInv, NEW x \in Documents, records[x] # None, x \notin damaged
                 PROVE  Resolves(x)
      BY DocumentFiles DEF DocumentsResolve, Sound
    <2>1. Kept(x) /\ FileOf(x) = x
      BY DocumentFiles DEF ArtifactInv
    <2>2. QED
      BY <2>1 DEF Kept, Resolves
  <1>2. QED
    BY <1>1, ArtifactsAreSound, PTL
-----------------------------------------------------------------------------
(***************************************************************************)
(* Exports: what is known of a ZIP and of the thread that makes it, where  *)
(* one thread exports and no two exports share a folder.                   *)
(***************************************************************************)
OneExporter == \A t, u \in Exporters : t = u
FoldersApart == \A e, f \in Exports : Folder[e] = Folder[f] => e = f

\* A recorded ZIP is the one its record is about, or somebody altered it.
ExportKept(x) == records[x] # None => files[FileOf(x)] = records[x] \/ FileOf(x) \in damaged

\* The thread that is moving a ZIP into place found no record of it, and there is none until
\* it writes its own: by then the file is the ZIP it made, or somebody altered it.
Exporting(t) ==
    id[t] \in Exports /\ pc[t] # "idle" =>
        /\ t \in Exporters
        /\ pc[t] \in {"place", "record"} => records[id[t]] = None
        /\ pc[t] = "record" => files[FileOf(id[t])] = body[t] \/ FileOf(id[t]) \in damaged

ExportInv ==
    /\ \A x \in Exports : ExportKept(x)
    /\ \A t \in Threads : Exporting(t)

LEMMA ExportFiles ==
    ASSUME FoldersApart, NEW e \in Exports
    PROVE  /\ FileOf(e) = Folder[e] /\ e \in Ids /\ e \notin Documents /\ FileOf(e) \in Paths
           /\ \A x \in Ids : FileOf(x) = FileOf(e) => x = e
  <1>1. FileOf(e) = Folder[e] /\ e \in Ids /\ e \notin Documents /\ FileOf(e) \in Paths
    BY ArtifactAssumption DEF ArtifactAssumption, FileOf, Ids, Paths
  <1>2. ASSUME NEW x \in Ids, FileOf(x) = FileOf(e)
        PROVE  x = e
    <2>1. CASE x \in Documents
      BY <1>1, <1>2, <2>1, DocumentFiles
    <2>2. CASE x \in Exports
      BY <1>1, <1>2, <2>2 DEF FileOf, FoldersApart
    <2>3. QED
      BY <2>1, <2>2 DEF Ids
  <1>3. QED
    BY <1>1, <1>2

LEMMA InitExports == Init => ExportInv
  <1> SUFFICES ASSUME Init PROVE ExportInv
    OBVIOUS
  <1>1. \A x \in Exports : ExportKept(x)
    BY DEF Init, ExportKept, Ids
  <1>2. \A t \in Threads : Exporting(t)
    BY DEF Init, Idle, Exporting
  <1>3. QED
    BY <1>1, <1>2 DEF ExportInv

\* A step that leaves files, records and damages alone need only keep the thread that takes it.
LEMMA OneExportMoves ==
    ASSUME ExportInv, NEW t \in Threads, Exporting(t)',
           UNCHANGED <<files, records, damaged>>,
           \A u \in Threads : u # t => pc'[u] = pc[u] /\ id'[u] = id[u] /\ body'[u] = body[u]
    PROVE  ExportInv'
  <1>1. \A x \in Exports : ExportKept(x)'
    BY DEF ExportInv, ExportKept
  <1>2. \A u \in Threads : Exporting(u)'
    BY DEF ExportInv, Exporting
  <1>3. QED
    BY <1>1, <1>2 DEF ExportInv

LEMMA EndsKeepsExports ==
    ASSUME TypeOK, ExportInv, NEW t \in Threads, Ends(t), UNCHANGED <<files, records, damaged>>
    PROVE  ExportInv'
  <1>1. Exporting(t)'
    BY DEF Ends, TypeOK, Exporting
  <1>2. QED
    BY <1>1, OneExportMoves DEF Ends, TypeOK

LEMMA PlaceKeepsExports ==
    ASSUME OneExporter, FoldersApart, TypeOK, ExportInv, NEW t \in Threads, Place(t)
    PROVE  ExportInv'
  <1> DEFINE x == id[t]
  <1>1. x \in Ids /\ FileOf(x) \in Paths
    BY ArtifactAssumption DEF ArtifactAssumption, Place, TypeOK, FileOf, Paths, Ids
  <1>2. ASSUME NEW e \in Exports
        PROVE  ExportKept(e)'
    <2>1. CASE e = x
      BY <2>1 DEF Place, TypeOK, ExportInv, ExportKept, Exporting
    <2>2. CASE e # x
      <3>1. FileOf(e) # FileOf(x)
        BY <1>1, <2>2, ExportFiles
      <3>2. QED
        BY <1>1, <3>1 DEF Place, TypeOK, ExportInv, ExportKept
    <2>3. QED
      BY <2>1, <2>2
  <1>3. ASSUME NEW u \in Threads
        PROVE  Exporting(u)'
    <2>1. CASE u = t
      BY <1>1, <2>1 DEF Place, TypeOK, ExportInv, Exporting
    <2>2. CASE u # t
      <3> SUFFICES ASSUME id[u] \in Exports, pc[u] # "idle"
                   PROVE  Exporting(u)'
        BY <2>2 DEF Place, TypeOK, Exporting
      <3>1. id[u] # x
        BY <2>2 DEF OneExporter, Place, ExportInv, Exporting
      <3>2. FileOf(id[u]) # FileOf(x)
        BY <1>1, <3>1, ExportFiles
      <3>3. QED
        BY <1>1, <2>2, <3>2 DEF Place, TypeOK, ExportInv, Exporting
    <2>3. QED
      BY <2>1, <2>2
  <1>4. QED
    BY <1>2, <1>3 DEF ExportInv

LEMMA RecordKeepsExports ==
    ASSUME OneExporter, TypeOK, ExportInv, NEW t \in Threads, Record(t)
    PROVE  ExportInv'
  <1>1. \A e \in Exports : ExportKept(e)'
    BY DEF Record, TypeOK, ExportInv, ExportKept, Exporting
  <1>2. ASSUME NEW u \in Threads
        PROVE  Exporting(u)'
    <2>1. CASE u = t
      BY <2>1 DEF Record, Ends, TypeOK, Exporting
    <2>2. CASE u # t
      <3>1. id[u] \in Exports /\ pc[u] # "idle" => id[u] # id[t]
        BY <2>2 DEF OneExporter, Record, ExportInv, Exporting
      <3>2. QED
        BY <2>2, <3>1 DEF Record, Ends, TypeOK, ExportInv, Exporting
    <2>3. QED
      BY <2>1, <2>2
  <1>3. QED
    BY <1>1, <1>2 DEF ExportInv

LEMMA StepKeepsExports ==
    ASSUME OneExporter, FoldersApart, TypeOK, ExportInv, NEW t \in Threads, Step(t)
    PROVE  ExportInv'
  <1>1. ASSUME NEW x \in Documents, NEW bytes, Begins(t, x, "place", bytes)
        PROVE  ExportInv'
    <2>1. x \notin Exports
      BY ArtifactAssumption DEF ArtifactAssumption
    <2>2. QED
      BY <1>1, <2>1, OneExportMoves DEF Begins, TypeOK, Exporting
  <1>2. ASSUME NEW x \in Fresh, Write(t, x)
        PROVE  ExportInv'
    BY <1>1, <1>2 DEF Write, Documents
  <1>3. ASSUME NEW x \in Baselines, RegisterBaseline(t, x)
        PROVE  ExportInv'
    BY <1>1, <1>3 DEF RegisterBaseline, Documents
  <1>4. ASSUME t \in Exporters, NEW x \in Exports, Export(t, x)
        PROVE  ExportInv'
    BY <1>4, OneExportMoves DEF Export, Begins, TypeOK, Exporting
  <1>5. CASE Build(t)
    BY <1>5, OneExportMoves DEF Build, TypeOK, ExportInv, Exporting
  <1>6. CASE Register(t)
    <2>1. CASE Ends(t)
      BY <1>6, <2>1, EndsKeepsExports DEF Register
    <2>2. CASE /\ records[id[t]] = None
               /\ pc' = [pc EXCEPT ![t] = "place"]
               /\ UNCHANGED <<id, body>>
      BY <1>6, <2>2, OneExportMoves DEF Register, TypeOK, ExportInv, Exporting
    <2>3. QED
      BY <1>6, <2>1, <2>2 DEF Register
  <1>7. CASE Place(t)
    BY <1>7, PlaceKeepsExports
  <1>8. CASE Record(t)
    BY <1>8, RecordKeepsExports
  <1>9. CASE Fail(t)
    BY <1>9, EndsKeepsExports DEF Fail
  <1>10. QED
    BY <1>2, <1>3, <1>4, <1>5, <1>6, <1>7, <1>8, <1>9 DEF Step

LEMMA ExportStep ==
    ASSUME OneExporter, FoldersApart
    PROVE  TypeOK /\ ExportInv /\ [Next]_vars => ExportInv'
  <1> SUFFICES ASSUME TypeOK, ExportInv, [Next]_vars PROVE ExportInv'
    OBVIOUS
  <1>1. CASE Crash
    BY <1>1 DEF Crash, ExportInv, ExportKept, Exporting
  <1>2. ASSUME NEW p \in Paths, Damage(p)
        PROVE  ExportInv'
    <2>1. \A q : files'[q] = files[q] \/ q = p
      BY <1>2 DEF Damage, TypeOK
    <2>2. \A x \in Exports : ExportKept(x)'
      BY <1>2, <2>1 DEF Damage, ExportInv, ExportKept
    <2>3. \A u \in Threads : Exporting(u)'
      BY <1>2, <2>1 DEF Damage, threadVars, ExportInv, Exporting
    <2>4. QED
      BY <2>2, <2>3 DEF ExportInv
  <1>3. ASSUME NEW t \in Threads, Step(t)
        PROVE  ExportInv'
    BY <1>3, StepKeepsExports
  <1>4. CASE UNCHANGED vars
    BY <1>4 DEF vars, threadVars, ExportInv, ExportKept, Exporting
  <1>5. QED
    BY <1>1, <1>2, <1>3, <1>4 DEF Next

\* Where one thread exports, to folders of their own: a registered export resolves to the ZIP
\* its record is about, whatever the other threads store, fail at or lose meanwhile.
THEOREM ExportsAlwaysResolve ==
    ASSUME OneExporter, FoldersApart
    PROVE  Spec => []ExportsResolve
  <1>1. Init => ExportInv
    BY InitExports
  <1>2. ArtifactInv /\ ExportInv /\ [Next]_vars => ExportInv'
    BY ExportStep DEF ArtifactInv
  <1>3. ExportInv => ExportsResolve
    BY DEF ExportInv, ExportKept, ExportsResolve, Sound, Resolves
  <1>4. QED
    BY <1>1, <1>2, <1>3, ArtifactsAreSound, PTL DEF Spec
-----------------------------------------------------------------------------
(***************************************************************************)
(* The lock.                                                               *)
(***************************************************************************)
\* The runners of a process that hold the root are finitely many.
LEMMA OwnersFinite ==
    ASSUME NEW p \in Processes
    PROVE  IsFiniteSet(Owners(p)) /\ Cardinality(Owners(p)) \in Nat
  BY LockAssumption, FS_Subset, FS_CardinalityType DEF LockAssumption, Owners

\* Two owners cannot be counted as one, nor one as none.
LEMMA OwnersCounted ==
    ASSUME NEW p \in Processes, NEW r \in Owners(p)
    PROVE  /\ Cardinality(Owners(p)) > 0
           /\ Cardinality(Owners(p) \ {r}) = Cardinality(Owners(p)) - 1
           /\ Cardinality(Owners(p)) = 1 <=> Owners(p) \ {r} = {}
  <1>1. IsFiniteSet(Owners(p)) /\ Cardinality(Owners(p)) \in Nat
    BY OwnersFinite
  <1>2. Cardinality(Owners(p) \ {r}) = Cardinality(Owners(p)) - 1
    BY <1>1, FS_RemoveElement
  <1>3. IsFiniteSet(Owners(p) \ {r}) /\ Cardinality(Owners(p) \ {r}) \in Nat
    BY <1>1, FS_RemoveElement, FS_CardinalityType
  <1>4. Cardinality(Owners(p) \ {r}) = 0 <=> Owners(p) \ {r} = {}
    BY <1>3, FS_EmptySet
  <1>5. QED
    BY <1>1, <1>2, <1>3, <1>4

\* A step that neither moves the lock nor changes who holds the root keeps the invariant.
LEMMA OwnersKept ==
    ASSUME LockInv, LockTypeOK', UNCHANGED <<held, flock>>,
           \A r \in Runners : phase'[r] \in Holding <=> phase[r] \in Holding,
           \A r \in Runners : pool'[r] # {} => phase[r] \in Holding
    PROVE  LockInv'
  <1>1. \A p \in Processes : Owners(p)' = Owners(p)
    BY DEF Owners
  <1>2. QED
    BY <1>1 DEF LockInv, Counted, HeldWhileOwned, WorksWhileHolding

\* Every step keeps the invariant.
LEMMA LockStep == LockInv /\ [LockNext]_lockVars => LockInv'
  <1> SUFFICES ASSUME LockInv, [LockNext]_lockVars PROVE LockInv'
    OBVIOUS
  <1> USE LockAssumption DEF LockAssumption
  <1>1. ASSUME NEW r \in Runners, Acquire(r)
        PROVE  LockInv'
    <2> DEFINE p == Home[r]
    <2>1. /\ p \in Processes /\ r \notin Owners(p)
          /\ Owners(p)' = Owners(p) \cup {r}
          /\ \A q \in Processes : q # p => Owners(q)' = Owners(q)
      BY <1>1 DEF LockInv, LockTypeOK, Acquire, Becomes, Owners, Holding
    <2>2. Cardinality(Owners(p)') = Cardinality(Owners(p)) + 1
      BY <2>1, OwnersFinite, FS_AddElement
    <2>3. Counted'
      BY <1>1, <2>1, <2>2 DEF LockInv, LockTypeOK, Counted, Acquire
    <2>4. flock' = p
      <3>1. held[p] = 0 => flock' = p
        BY <1>1 DEF Acquire
      <3>2. held[p] > 0 => Owners(p) # {}
        BY <2>1, FS_EmptySet DEF LockInv, Counted
      <3>3. held[p] \in Nat
        BY <2>1 DEF LockInv, LockTypeOK
      <3>4. QED
        BY <1>1, <2>1, <3>1, <3>2, <3>3 DEF LockInv, HeldWhileOwned, Acquire
    <2>5. \A q \in Processes : q # p => Owners(q) = {}
      <3>0. held[p] > 0 => Owners(p) # {}
        BY <2>1, FS_EmptySet DEF LockInv, Counted
      <3>1. held[p] > 0 => flock = p
        BY <3>0 DEF LockInv, HeldWhileOwned
      <3>2. flock = Free \/ flock = p
        BY <1>1, <3>1 DEF Acquire
      <3>3. QED
        BY <3>2 DEF LockInv, HeldWhileOwned
    <2>6. HeldWhileOwned'
      BY <2>1, <2>4, <2>5 DEF HeldWhileOwned
    <2>7. LockTypeOK' /\ WorksWhileHolding'
      BY <1>1, <2>1, <2>4 DEF LockInv, LockTypeOK, WorksWhileHolding, Acquire, Becomes, RunnerPhases, Holding
    <2>8. QED
      BY <2>3, <2>6, <2>7 DEF LockInv
  <1>2. ASSUME NEW r \in Runners, Release(r)
        PROVE  LockInv'
    <2> DEFINE p == Home[r]
    <2>1. /\ p \in Processes /\ r \in Owners(p)
          /\ Owners(p)' = Owners(p) \ {r}
          /\ \A q \in Processes : q # p => Owners(q)' = Owners(q)
      BY <1>2 DEF LockInv, LockTypeOK, Release, Becomes, Owners, Holding
    <2>2. /\ held[p] > 0
          /\ Cardinality(Owners(p)') = held[p] - 1
          /\ held[p] = 1 <=> Owners(p)' = {}
      <3>1. held[p] = Cardinality(Owners(p))
        BY <2>1 DEF LockInv, Counted
      <3>2. QED
        BY <2>1, <3>1, OwnersCounted
    <2>3. Counted'
      BY <1>2, <2>1, <2>2 DEF LockInv, LockTypeOK, Counted, Release
    <2>4. flock = p /\ \A q \in Processes : q # p => Owners(q) = {}
      BY <2>1 DEF LockInv, HeldWhileOwned
    <2>5. HeldWhileOwned'
      BY <1>2, <2>1, <2>2, <2>4 DEF HeldWhileOwned, Release
    <2>6. LockTypeOK'
      BY <1>2, <2>1, <2>2 DEF LockInv, LockTypeOK, Release, Becomes, RunnerPhases
    <2>7. WorksWhileHolding'
      BY <1>2 DEF LockInv, LockTypeOK, WorksWhileHolding, Release, Becomes
    <2>8. QED
      BY <2>3, <2>5, <2>6, <2>7 DEF LockInv
  <1>3. ASSUME NEW p \in Processes, Restart(p)
        PROVE  LockInv'
    <2>1. /\ Owners(p)' = {}
          /\ \A q \in Processes : q # p => Owners(q)' = Owners(q)
      BY <1>3 DEF Restart, Owners, Holding
    <2>2. Counted'
      BY <1>3, <2>1, FS_EmptySet DEF LockInv, LockTypeOK, Counted, Restart
    <2>3. HeldWhileOwned'
      BY <1>3, <2>1 DEF LockInv, HeldWhileOwned, Restart
    <2>4. LockTypeOK' /\ WorksWhileHolding'
      BY <1>3 DEF LockInv, LockTypeOK, WorksWhileHolding, Restart, RunnerPhases
    <2>5. QED
      BY <2>2, <2>3, <2>4 DEF LockInv
  <1>4. ASSUME NEW r \in Runners, Refuse(r) \/ Resume(r) \/ Close(r)
        PROVE  LockInv'
    <2>1. LockTypeOK'
      BY <1>4 DEF LockInv, LockTypeOK, Refuse, Resume, Close, Becomes, RunnerPhases
    <2>2. \A s \in Runners : phase'[s] \in Holding <=> phase[s] \in Holding
      BY <1>4 DEF LockInv, LockTypeOK, Refuse, Resume, Close, Becomes, Holding
    <2>3. \A s \in Runners : pool'[s] # {} => phase[s] \in Holding
      BY <1>4 DEF LockInv, LockTypeOK, WorksWhileHolding, Refuse, Resume, Close, Holding
    <2>4. QED
      BY <1>4, <2>1, <2>2, <2>3, OwnersKept DEF Refuse, Resume, Close
  <1>5. ASSUME NEW r \in Runners, NEW j \in Jobs, Submit(r, j) \/ SubmitLate(r, j) \/ Run(r, j)
        PROVE  LockInv'
    <2>1. LockTypeOK' /\ \A s \in Runners : pool'[s] # {} => phase[s] \in Holding
      BY <1>5 DEF LockInv, LockTypeOK, WorksWhileHolding, Submit, SubmitLate, Run, Holding
    <2>2. QED
      BY <1>5, <2>1, OwnersKept DEF Submit, SubmitLate, Run
  <1>6. CASE UNCHANGED lockVars
    BY <1>6 DEF lockVars, LockInv, LockTypeOK, Counted, HeldWhileOwned, WorksWhileHolding, Owners
  <1>7. QED
    BY <1>1, <1>2, <1>3, <1>4, <1>5, <1>6 DEF LockNext, RunnerStep

\* The root's file is locked by a process exactly as long as one of its runners holds it, and a
\* runner has jobs only while it holds it (acquire_runner_lock, release_runner_lock, close).
THEOREM LockIsSound == LockSpec => []LockInv
  <1>1. LockInit => LockInv
    <2>1. LockInit => \A p \in Processes : Owners(p) = {}
      BY DEF LockInit, Owners, Holding
    <2>2. QED
      BY <2>1, FS_EmptySet, LockAssumption DEF LockAssumption, LockInit, LockInv, LockTypeOK, RunnerPhases,
         Counted, HeldWhileOwned, WorksWhileHolding
  <1>2. QED
    BY <1>1, LockStep, PTL DEF LockSpec

\* Jobs of a data root are executed by one process at a time, for any number of processes and
\* runners, through closing pools and deaths.
THEOREM OneProcessRunsJobs == LockSpec => []OneProcessWorks
  <1>1. LockInv => OneProcessWorks
    <2> SUFFICES ASSUME LockInv, NEW r \in Runners, NEW s \in Runners,
                        pool[r] # {}, pool[s] # {}
                 PROVE  Home[r] = Home[s]
      BY DEF OneProcessWorks
    <2>1. r \in Owners(Home[r]) /\ s \in Owners(Home[s])
      BY DEF LockInv, WorksWhileHolding, Owners
    <2>2. Home[r] \in Processes /\ Home[s] \in Processes
      BY LockAssumption DEF LockAssumption
    <2>3. QED
      BY <2>1, <2>2 DEF LockInv, HeldWhileOwned
  <1>2. QED
    BY <1>1, LockIsSound, PTL
-----------------------------------------------------------------------------
(* The answers a fetch parses, and the request that gets one.              *)

\* A file that is to be written holds an answer the provider gave, and none that repeats a
\* credential: Get keeps it only then.
Writes == (Replay!Positions \ Secret) \X Replay!Versions \X {"body", "checksum"}

ReplayTypes ==
    /\ upstream \in Replay!Versions
    /\ bodies \in [Replay!Positions -> Replay!Stored]
    /\ checksums \in [Replay!Positions -> Replay!Stored \ {Torn}]
    /\ step \in [Fetchers -> {"idle", "ask", "check", "read", "write"}]
    /\ hashed \in [Fetchers -> Replay!Stored]
    /\ answers \in [Fetchers -> Seq(Replay!Versions \cup {Torn})]
    /\ \A f \in Fetchers : Len(answers[f]) <= Requests
    /\ writes \in [Fetchers -> Seq(Writes)]
    /\ \A n \in Replay!Positions \cap Secret : bodies[n] = Missing

\* A checksum is never that of a damaged body: one that agreed was whole when it was hashed, so it
\* can only have been damaged between the two looks at it.
LooksSound(f) ==
    /\ step[f] \in {"check", "read"} =>
          /\ Replay!At(f) \in Replay!Positions
          /\ bodies[Replay!At(f)] # Missing /\ checksums[Replay!At(f)] # Missing
          /\ bodies[Replay!At(f)] = Torn => hashed[f] = Torn \/ <<f, Replay!At(f)>> \in raced
    /\ step[f] = "read" => hashed[f] # Torn
    /\ \A n \in DOMAIN answers[f] : answers[f][n] = Torn => <<f, n>> \in raced
ReplayInv == ReplayTypes /\ \A f \in Fetchers : LooksSound(f)

LEMMA ReplayBegins == Replay!Init => ReplayInv
  BY FetchAssumption
  DEF FetchAssumption, ReplayInv, ReplayTypes, LooksSound, Replay!Init, Replay!Versions, Replay!Positions, Replay!Stored

\* The answer that a thread takes comes after those it has.
LEMMA TakeKeeps ==
    ASSUME ReplayInv, NEW f \in Fetchers, NEW a \in Replay!Versions \cup {Torn}, Replay!At(f) <= Requests,
           answers' = [answers EXCEPT ![f] = Append(@, a)], step' = [step EXCEPT ![f] = "ask"],
           hashed' = [hashed EXCEPT ![f] = Missing],
           UNCHANGED <<upstream, bodies, checksums, raced>>, writes' \in [Fetchers -> Seq(Writes)],
           a = Torn => <<f, Replay!At(f)>> \in raced
    PROVE  ReplayInv'
  <1> USE FetchAssumption DEF FetchAssumption
  <1>1. /\ answers[f] \in Seq(Replay!Versions \cup {Torn})
        /\ answers'[f] = Append(answers[f], a) /\ step'[f] = "ask"
        /\ \A g \in Fetchers \ {f} : answers'[g] = answers[g] /\ step'[g] = step[g] /\ hashed'[g] = hashed[g]
    BY DEF ReplayInv, ReplayTypes
  <1>2. /\ Append(answers[f], a) \in Seq(Replay!Versions \cup {Torn})
        /\ DOMAIN Append(answers[f], a) = 1..Replay!At(f) /\ Len(Append(answers[f], a)) = Replay!At(f)
        /\ \A n \in 1..Replay!At(f) : Append(answers[f], a)[n] = IF n = Replay!At(f) THEN a ELSE answers[f][n]
    BY <1>1 DEF Replay!At
  <1>3. ReplayTypes'
    BY <1>1, <1>2 DEF ReplayInv, ReplayTypes, Replay!Stored
  <1>4. LooksSound(f)'
    <2>1. \A n \in 1..Replay!At(f) : n = Replay!At(f) \/ n \in DOMAIN answers[f]
      BY <1>1 DEF Replay!At
    <2>2. \A n \in DOMAIN answers'[f] : answers'[f][n] = Torn => <<f, n>> \in raced'
      BY <1>1, <1>2, <2>1 DEF ReplayInv, LooksSound
    <2>3. QED
      BY <1>1, <2>2 DEF LooksSound
  <1>5. ASSUME NEW g \in Fetchers \ {f} PROVE LooksSound(g)'
    <2>1. Replay!At(g)' = Replay!At(g)
      BY <1>1 DEF Replay!At
    <2>2. QED
      BY <1>1, <2>1 DEF ReplayInv, LooksSound
  <1>6. QED
    BY <1>3, <1>4, <1>5 DEF ReplayInv

\* Replay.get: the body is hashed, compared, and read again, or a new answer is asked for.
LEMMA GetKeeps ==
    ASSUME ReplayInv, NEW f \in Fetchers,
           Replay!Hash(f) \/ Replay!Check(f) \/ Replay!Read(f) \/ Replay!Ask(f)
    PROVE  ReplayInv'
  <1> USE FetchAssumption DEF FetchAssumption
  <1>1. answers[f] \in Seq(Replay!Versions \cup {Torn})
    BY DEF ReplayInv, ReplayTypes
  <1>2. CASE Replay!Hash(f) \/ Replay!Check(f)
    <2>1. Replay!At(f) \in Replay!Positions
      <3>1. CASE Replay!Hash(f)
        BY <1>1, <3>1 DEF Replay!Hash, Replay!At, Replay!Positions
      <3>2. CASE Replay!Check(f)
        BY <3>2 DEF Replay!Check, ReplayInv, LooksSound
      <3>3. QED
        BY <1>2, <3>1, <3>2
    <2>2. /\ \E to \in {"check", "read"} : step' = [step EXCEPT ![f] = to]
          /\ hashed' \in [Fetchers -> Replay!Stored]
          /\ UNCHANGED <<upstream, bodies, checksums, answers, writes, raced>>
          /\ \A g \in Fetchers : Replay!At(g)' = Replay!At(g)
          /\ Replay!At(f) \in Replay!Positions
      <3>1. /\ UNCHANGED <<upstream, bodies, checksums, answers, writes, raced>>
            /\ \E to \in {"check", "read"} : step' = [step EXCEPT ![f] = to]
            /\ hashed' = hashed \/ hashed' = [hashed EXCEPT ![f] = bodies[Replay!At(f)]]
        BY <1>2 DEF Replay!Hash, Replay!Check, Replay!files
      <3>2. \A g \in Fetchers : Replay!At(g)' = Replay!At(g)
        BY <3>1 DEF Replay!At
      <3>3. QED
        BY <2>1, <3>1, <3>2 DEF ReplayInv, ReplayTypes
    <2>3. ReplayTypes'
      BY <2>2 DEF ReplayInv, ReplayTypes
    <2>4. LooksSound(f)'
      <3>1. CASE Replay!Hash(f)
        BY <2>2, <3>1 DEF Replay!Hash, Replay!Stands, ReplayInv, ReplayTypes, LooksSound
      <3>2. CASE Replay!Check(f)
        <4>1. hashed' = hashed /\ hashed[f] # Torn
          BY <2>2, <3>2 DEF Replay!Check, Replay!Recorded, ReplayInv, ReplayTypes, Replay!Stored
        <4>2. QED
          BY <2>2, <3>2, <4>1 DEF Replay!Check, ReplayInv, ReplayTypes, LooksSound
      <3>3. QED
        BY <1>2, <3>1, <3>2
    <2>5. ASSUME NEW g \in Fetchers \ {f} PROVE LooksSound(g)'
      <3>1. step'[g] = step[g] /\ hashed'[g] = hashed[g]
        BY <1>2 DEF Replay!Hash, Replay!Check, ReplayInv, ReplayTypes
      <3>2. QED
        BY <2>2, <3>1 DEF ReplayInv, LooksSound
    <2>6. QED
      BY <2>3, <2>4, <2>5 DEF ReplayInv
  <1>3. CASE Replay!Read(f)
    <2>1. /\ Replay!At(f) \in Replay!Positions /\ bodies[Replay!At(f)] \in Replay!Versions \cup {Torn}
          /\ bodies[Replay!At(f)] = Torn => <<f, Replay!At(f)>> \in raced
      BY <1>3 DEF Replay!Read, ReplayInv, ReplayTypes, LooksSound, Replay!Stored
    <2>2. Replay!At(f) <= Requests
      BY <2>1 DEF Replay!Positions
    <2>3. QED
      BY <1>3, <2>1, <2>2, TakeKeeps DEF Replay!Read, Replay!files, ReplayInv, ReplayTypes
  <1>4. CASE Replay!Ask(f)
    <2> DEFINE n == Replay!At(f)
               two == <<<<n, upstream, "body">>, <<n, upstream, "checksum">>>>
    <2>1. /\ n \in Replay!Positions /\ n <= Requests
          /\ writes' = IF n \in Secret THEN writes ELSE [writes EXCEPT ![f] = @ \o two]
      BY <1>1, <1>4 DEF Replay!Ask, Replay!At, Replay!Positions
    <2>2. writes' \in [Fetchers -> Seq(Writes)]
      <3>1. CASE n \in Secret
        BY <2>1, <3>1 DEF ReplayInv, ReplayTypes
      <3>2. CASE n \notin Secret
        <4>1. <<n, upstream, "body">> \in Writes /\ <<n, upstream, "checksum">> \in Writes
          BY <2>1, <3>2 DEF Writes, ReplayInv, ReplayTypes
        <4>2. two \in Seq(Writes)
          BY <4>1
        <4> HIDE DEF two
        <4>3. writes[f] \o two \in Seq(Writes)
          BY <4>2, ConcatProperties DEF ReplayInv, ReplayTypes
        <4>4. QED
          BY <2>1, <3>2, <4>3 DEF ReplayInv, ReplayTypes
      <3>3. QED
        BY <3>1, <3>2
    <2>3. upstream \in Replay!Versions /\ upstream # Torn
      BY DEF ReplayInv, ReplayTypes
    <2>4. QED
      BY <1>4, <2>1, <2>2, <2>3, TakeKeeps DEF Replay!Ask, Replay!files
  <1>5. QED
    BY <1>2, <1>3, <1>4

LEMMA WriteKeeps ==
    ASSUME ReplayInv, NEW f \in Fetchers, Replay!Write(f)
    PROVE  ReplayInv'
  <1> USE FetchAssumption DEF FetchAssumption
  <1> DEFINE w == Head(writes[f])
  <1>1. /\ writes[f] # <<>> /\ writes' = [writes EXCEPT ![f] = Tail(writes[f])]
        /\ \/ bodies' = [bodies EXCEPT ![w[1]] = w[2]] /\ checksums' = checksums
           \/ checksums' = [checksums EXCEPT ![w[1]] = w[2]] /\ bodies' = bodies
        /\ UNCHANGED <<upstream, answers, step, hashed, raced>>
    BY DEF Replay!Write
  <1>2. writes[f] \in Seq(Writes)
    BY DEF ReplayInv, ReplayTypes
  <1>3. w \in Writes /\ Tail(writes[f]) \in Seq(Writes)
    BY <1>1, <1>2, HeadTailProperties
  <1>4. w[1] \in Replay!Positions \ Secret /\ w[2] \in Replay!Versions
    BY <1>3 DEF Writes
  <1> HIDE DEF w
  <1>5. ReplayTypes'
    BY <1>1, <1>3, <1>4 DEF ReplayInv, ReplayTypes, Replay!Stored
  <1>6. w[2] # Torn /\ w[2] # Missing
    BY <1>4
  <1>7. ASSUME NEW g \in Fetchers PROVE LooksSound(g)'
    <2>1. Replay!At(g)' = Replay!At(g)
      BY <1>1 DEF Replay!At
    <2>2. QED
      BY <1>1, <1>4, <1>6, <2>1 DEF ReplayInv, ReplayTypes, LooksSound
  <1>8. QED
    BY <1>5, <1>7 DEF ReplayInv

\* A file is damaged under the eyes of whoever has hashed it and not yet read it again.
LEMMA TearKeeps ==
    ASSUME ReplayInv, NEW n \in Replay!Positions, Replay!Tear(n)
    PROVE  ReplayInv'
  <1> USE FetchAssumption DEF FetchAssumption
  <1>1. /\ bodies[n] # Missing /\ bodies' = [bodies EXCEPT ![n] = Torn] /\ raced \subseteq raced'
        /\ \A f \in Fetchers : step[f] \in {"check", "read"} /\ Replay!At(f) = n => <<f, n>> \in raced'
        /\ UNCHANGED <<upstream, checksums, step, hashed, answers, writes>>
    BY DEF Replay!Tear
  <1>2. ReplayTypes'
    BY <1>1 DEF ReplayInv, ReplayTypes, Replay!Stored
  <1>3. ASSUME NEW f \in Fetchers PROVE LooksSound(f)'
    <2>1. Replay!At(f)' = Replay!At(f)
      BY <1>1 DEF Replay!At
    <2>2. QED
      BY <1>1, <2>1 DEF ReplayInv, ReplayTypes, LooksSound
  <1>4. QED
    BY <1>2, <1>3 DEF ReplayInv

\* A fetch begins or ends.
LEMMA FetchEndsKeep ==
    ASSUME ReplayInv, NEW f \in Fetchers,
           Replay!Begin(f) \/ Replay!Parse(f) \/ Replay!Raise(f) \/ Replay!Done(f)
    PROVE  ReplayInv'
  <1> USE FetchAssumption DEF FetchAssumption
  <1>1. /\ UNCHANGED <<upstream, bodies, checksums, hashed>>
        /\ \E to \in {"idle", "ask", "write"} : step' = [step EXCEPT ![f] = to]
        /\ \/ answers' = answers /\ raced' = raced
           \/ answers' = [answers EXCEPT ![f] = <<>>] /\ raced' \in {raced, {r \in raced : r[1] # f}}
        /\ writes' = writes \/ writes' = [writes EXCEPT ![f] = <<>>]
    BY DEF Replay!Begin, Replay!Parse, Replay!Raise, Replay!Done, Replay!files
  <1>2. <<>> \in Seq(Replay!Versions \cup {Torn}) /\ <<>> \in Seq(Writes) /\ Len(<<>>) = 0 /\ DOMAIN <<>> = {}
    OBVIOUS
  <1>3. /\ answers' \in [Fetchers -> Seq(Replay!Versions \cup {Torn})]
        /\ \A g \in Fetchers : answers'[g] = <<>> \/ answers'[g] = answers[g]
    BY <1>1, <1>2 DEF ReplayInv, ReplayTypes
  <1>4. ReplayTypes'
    <2>1. writes' \in [Fetchers -> Seq(Writes)]
      BY <1>1, <1>2 DEF ReplayInv, ReplayTypes
    <2>2. \A g \in Fetchers : Len(answers'[g]) <= Requests
      BY <1>2, <1>3 DEF ReplayInv, ReplayTypes
    <2>3. QED
      BY <1>1, <1>3, <2>1, <2>2 DEF ReplayInv, ReplayTypes
  <1>5. LooksSound(f)'
    <2>1. step'[f] \notin {"check", "read"}
      BY <1>1 DEF ReplayInv, ReplayTypes
    <2>2. \A n \in DOMAIN answers'[f] : answers'[f][n] = Torn => <<f, n>> \in raced'
      BY <1>1, <1>2 DEF ReplayInv, ReplayTypes, LooksSound
    <2>3. QED
      BY <2>1, <2>2 DEF LooksSound
  <1>6. ASSUME NEW g \in Fetchers \ {f} PROVE LooksSound(g)'
    <2>1. answers'[g] = answers[g] /\ step'[g] = step[g] /\ \A n : <<g, n>> \in raced => <<g, n>> \in raced'
      BY <1>1 DEF ReplayInv, ReplayTypes
    <2>2. Replay!At(g)' = Replay!At(g)
      BY <2>1 DEF Replay!At
    <2>3. QED
      BY <1>1, <2>1, <2>2 DEF ReplayInv, LooksSound
  <1>7. QED
    BY <1>4, <1>5, <1>6 DEF ReplayInv

LEMMA ReplayKeeps == ReplayInv /\ (Replay!Next \/ UNCHANGED replayVars) => ReplayInv'
  <1> SUFFICES ASSUME ReplayInv, Replay!Next \/ UNCHANGED replayVars PROVE ReplayInv'
    OBVIOUS
  <1> USE FetchAssumption DEF FetchAssumption
  <1>1. CASE Replay!Publish
    BY <1>1 DEF Replay!Publish, Replay!files, ReplayInv, ReplayTypes, LooksSound, Replay!At, Replay!Versions, Replay!Stored
  <1>2. CASE Replay!Crash
    <2>1. <<>> \in Seq(Replay!Versions \cup {Torn}) /\ <<>> \in Seq(Writes) /\ Len(<<>>) = 0 /\ DOMAIN <<>> = {}
      OBVIOUS
    <2>2. ReplayTypes'
      BY <1>2, <2>1 DEF Replay!Crash, Replay!files, ReplayInv, ReplayTypes, Replay!Stored
    <2>3. \A f \in Fetchers : LooksSound(f)'
      BY <1>2, <2>1 DEF Replay!Crash, LooksSound
    <2>4. QED
      BY <2>2, <2>3 DEF ReplayInv
  <1>3. CASE UNCHANGED replayVars
    BY <1>3 DEF replayVars, ReplayInv, ReplayTypes, LooksSound, Replay!At
  <1>4. QED
    BY <1>1, <1>2, <1>3, GetKeeps, WriteKeeps, TearKeeps, FetchEndsKeep DEF Replay!Next

\* The requests of the attempts so far; after the redirect, those of the first host come on top.
Tries ==
    (IF host = "s3" THEN Retries + 1 ELSE 0) + attempt + (IF request = "send" THEN 0 ELSE 1)

HttpInv ==
    /\ host \in Http!Hosts /\ conditional \in BOOLEAN /\ attempt \in 0..Retries
    /\ request \in {"send", "body", "wait", "done"}
    /\ request = "wait" => attempt < Retries
    /\ sent \in Nat /\ sent <= Tries
    /\ slept \in Nat /\ slept <= 30 * (IF request = "body" THEN sent - 1 ELSE sent)
    /\ request # "done" => outcome = Http!Pending
    /\ outcome = Http!Answer(304) => conditional
    /\ outcome.kind = "error" => (outcome.retryable => attempt = Retries \/ 501 \in statuses)

LEMMA RetriesAre == Retries \in 0..5 /\ Waits \subseteq Nat
  BY FetchAssumption DEF FetchAssumption

LEMMA HttpBegins == Http!Init => HttpInv
  BY FetchAssumption
  DEF FetchAssumption, Http!Init, HttpInv, Tries, Http!Hosts, Http!Pending, Http!Answer

\* An exponential wait is 16 seconds at most: the last attempt is not waited for.
LEMMA WaitsAreShort ==
    ASSUME NEW n \in 0..4
    PROVE  Http!Power(n) \in 0..30
  <1>1. 2^0 = 1 /\ 2^1 = 2 /\ 2^2 = 4 /\ 2^3 = 8 /\ 2^4 = 16
    OBVIOUS
  <1>2. n = 0 \/ n = 1 \/ n = 2 \/ n = 3 \/ n = 4
    OBVIOUS
  <1>3. CASE n = 0  BY <1>1, <1>3 DEF Http!Power
  <1>4. CASE n = 1  BY <1>1, <1>4 DEF Http!Power
  <1>5. CASE n = 2  BY <1>1, <1>5 DEF Http!Power
  <1>6. CASE n = 3  BY <1>1, <1>6 DEF Http!Power
  <1>7. CASE n = 4  BY <1>1, <1>7 DEF Http!Power
  <1>8. QED
    BY <1>2, <1>3, <1>4, <1>5, <1>6, <1>7

\* An attempt that is not the last is slept for and repeated.
LEMMA AgainKeeps ==
    ASSUME HttpInv, NEW seconds \in 0..30, Http!Again(seconds),
           UNCHANGED <<method, host, conditional, attempt, chunks>>, statuses \subseteq statuses',
           \/ request = "send" /\ sent' = sent + 1
           \/ request = "body" /\ sent' = sent
    PROVE  HttpInv'
  <1> USE RetriesAre
  <1>1. request' = "wait" /\ attempt < Retries /\ slept' = slept + seconds /\ outcome' = outcome
    BY DEF Http!Again
  <1>2. sent' \in Nat /\ sent' <= Tries'
    BY <1>1 DEF HttpInv, Tries
  <1>3. slept' \in Nat /\ slept' <= 30 * sent'
    BY <1>1 DEF HttpInv
  <1>4. outcome' = Http!Pending /\ outcome' # Http!Answer(304) /\ outcome'.kind # "error"
    BY <1>1 DEF HttpInv, Http!Pending, Http!Answer
  <1>5. QED
    <2>1. attempt' \in 0..Retries /\ host' \in Http!Hosts /\ conditional' \in BOOLEAN /\ attempt' < Retries
      BY <1>1 DEF HttpInv
    <2>2. QED
      BY <1>1, <1>2, <1>3, <1>4, <2>1 DEF HttpInv

\* The caller gets its result.
LEMMA FinishKeeps ==
    ASSUME HttpInv, NEW result, Http!Finish(result),
           UNCHANGED <<method, host, conditional, attempt, chunks, slept>>,
           \/ request = "send" /\ sent' = sent + 1
           \/ request = "body" /\ sent' = sent,
           result = Http!Answer(304) => conditional,
           result.kind = "error" => (result.retryable => attempt = Retries \/ 501 \in statuses')
    PROVE  HttpInv'
  <1> USE RetriesAre
  <1>1. request' = "done" /\ outcome' = result
    BY DEF Http!Finish
  <1>2. sent' \in Nat /\ sent' <= Tries' /\ slept' \in Nat /\ slept' <= 30 * sent'
    BY <1>1 DEF HttpInv, Tries
  <1>3. attempt' \in 0..Retries /\ host' \in Http!Hosts /\ conditional' \in BOOLEAN
    BY DEF HttpInv
  <1>4. /\ outcome' = Http!Answer(304) => conditional'
        /\ outcome'.kind = "error" => (outcome'.retryable => attempt' = Retries \/ 501 \in statuses')
    BY <1>1
  <1>5. QED
    BY <1>1, <1>2, <1>3, <1>4 DEF HttpInv

\* What a request that is sent meets.
LEMMA SendKeeps ==
    ASSUME HttpInv,
           \/ Http!NotModified \/ Http!Accept \/ Http!TransportFails
           \/ \E status \in Http!Refusals \cup Http!Redirects : Http!Refuse(status)
           \/ \E status \in Http!Busy : Http!Retry(status)
    PROVE  HttpInv'
  <1> USE RetriesAre DEF Http!request
  <1>1. CASE Http!NotModified
    <2>1. Http!Answer(304).kind # "error"
      BY DEF Http!Answer
    <2>2. QED
      BY <1>1, <2>1, FinishKeeps DEF Http!NotModified, Http!Send
  <1>2. CASE Http!Accept
    <2>1. /\ request = "send" /\ request' = "body" /\ sent' = sent + 1 /\ statuses' = statuses \cup {200}
          /\ UNCHANGED <<method, host, conditional, attempt, outcome, slept>>
      BY <1>2 DEF Http!Accept, Http!Send
    <2>2. outcome' = Http!Pending /\ outcome' # Http!Answer(304) /\ outcome'.kind # "error"
      BY <2>1 DEF HttpInv, Http!Pending, Http!Answer
    <2>3. QED
      BY <2>1, <2>2 DEF HttpInv, Tries
  <1>3. CASE Http!TransportFails
    <2>1. CASE attempt = Retries
      <3> DEFINE result == Http!Failure("PROVIDER_UNAVAILABLE", TRUE)
      <3>1. result # Http!Answer(304)
        BY DEF Http!Failure, Http!Answer
      <3>2. QED
        BY <1>3, <2>1, <3>1, FinishKeeps DEF Http!TransportFails, Http!Send
    <2>2. CASE attempt # Retries
      <3>1. attempt \in 0..4 /\ Http!Again(Http!Power(attempt))
        BY <1>3, <2>2 DEF Http!TransportFails, HttpInv, Http!Again
      <3>2. Http!Power(attempt) \in 0..30
        BY <3>1, WaitsAreShort
      <3>3. QED
        BY <1>3, <3>1, <3>2, AgainKeeps DEF Http!TransportFails, Http!Send
    <2>3. QED
      BY <2>1, <2>2
  <1>4. ASSUME NEW status \in Http!Refusals \cup Http!Redirects, Http!Refuse(status)
        PROVE  HttpInv'
    <2> DEFINE result == Http!Failure(Http!Code(status), status >= 500 \/ status = 429)
    <2>1. result # Http!Answer(304) /\ result.retryable = (status >= 500 \/ status = 429)
      BY DEF Http!Failure, Http!Answer
    <2>2. status >= 500 \/ status = 429 => status \in Http!Busy \cup {501}
      BY DEF Http!Refusals, Http!Redirects, Http!Busy
    <2>3. status \in Http!Busy => attempt = Retries
      BY <1>4 DEF Http!Refuse
    <2>4. status \in statuses'
      BY <1>4 DEF Http!Refuse, Http!Send
    <2> HIDE DEF result
    <2>5. Http!Finish(result)
      BY <1>4 DEF Http!Refuse, result
    <2>6. result.retryable => attempt = Retries \/ 501 \in statuses'
      <3>1. result.retryable => status \in Http!Busy \/ status = 501
        BY <2>1, <2>2
      <3>2. QED
        BY <2>3, <2>4, <3>1
    <2>7. /\ request = "send" /\ sent' = sent + 1
          /\ UNCHANGED <<method, host, conditional, attempt, chunks, slept>>
      BY <1>4 DEF Http!Refuse, Http!Send
    <2>8. result # Http!Answer(304)
      BY <2>1
    <2>9. QED
      BY <2>5, <2>6, <2>7, <2>8, FinishKeeps
  <1>5. ASSUME NEW status \in Http!Busy, Http!Retry(status)
        PROVE  HttpInv'
    <2>1. /\ request = "send" /\ sent' = sent + 1 /\ statuses' = statuses \cup {status}
          /\ UNCHANGED <<method, host, conditional, attempt, chunks>>
          /\ \/ \E seconds \in Waits : Http!Again(Http!Least(seconds, 30))
             \/ Http!Again(Http!Least(Http!Power(attempt), 30))
      BY <1>5 DEF Http!Retry, Http!Send
    <2>2. ASSUME NEW seconds \in Nat
          PROVE  Http!Least(seconds, 30) \in 0..30
      BY DEF Http!Least
    <2>3. attempt < Retries /\ attempt \in Nat
      BY <2>1 DEF Http!Again, HttpInv
    <2>4. Http!Power(attempt) \in Nat
      <3>1. attempt \in 0..4
        BY <2>3
      <3>2. QED
        BY <3>1, WaitsAreShort
    <2>5. PICK seconds \in 0..30 : Http!Again(seconds)
      BY <2>1, <2>2, <2>4
    <2>6. QED
      BY <2>1, <2>5, AgainKeeps
  <1>6. QED
    BY <1>1, <1>2, <1>3, <1>4, <1>5

LEMMA HttpKeeps == HttpInv /\ (Http!Next \/ UNCHANGED httpVars) => HttpInv'
  <1> SUFFICES ASSUME HttpInv, Http!Next \/ UNCHANGED httpVars PROVE HttpInv'
    OBVIOUS
  <1> USE RetriesAre DEF Http!request
  <1>1. CASE Http!Wake
    BY <1>1 DEF Http!Wake, HttpInv, Tries, Http!Pending, Http!Answer
  <1>2. CASE Http!Read
    BY <1>2 DEF Http!Read, HttpInv, Tries
  <1>3. CASE Http!TooLarge \/ Http!Complete
    <2>1. PICK result \in {Http!Failure("RESOURCE_LIMIT", FALSE), Http!Answer(200)} :
             /\ request = "body" /\ Http!Finish(result)
             /\ UNCHANGED <<method, host, conditional, attempt, chunks, sent, slept, statuses>>
      BY <1>3 DEF Http!TooLarge, Http!Complete
    <2>2. result # Http!Answer(304) /\ (result.kind = "error" => ~result.retryable)
      BY DEF Http!Failure, Http!Answer
    <2>3. QED
      BY <2>1, <2>2, FinishKeeps
  <1>4. ASSUME NEW target \in Http!Hosts, Http!Redirect(target)
        PROVE  HttpInv'
    <2>1. /\ request = "send" /\ sent' = sent + 1 /\ host = "nlr" /\ host' = "s3"
          /\ conditional' = FALSE /\ attempt' = 0 /\ UNCHANGED <<request, outcome, slept>>
      BY <1>4 DEF Http!Redirect, Http!Send, Http!Follows
    <2>2. sent' <= Tries' /\ sent' \in Nat /\ slept' \in Nat /\ slept' <= 30 * sent'
      BY <2>1 DEF HttpInv, Tries
    <2>3. outcome' = Http!Pending /\ outcome' # Http!Answer(304) /\ outcome'.kind # "error"
      BY <2>1 DEF HttpInv, Http!Pending, Http!Answer
    <2>4. host' \in Http!Hosts /\ request' = "send" /\ attempt' \in 0..Retries
      BY <2>1 DEF Http!Hosts
    <2>5. conditional' \in BOOLEAN
      BY <2>1
    <2>6. QED
      BY <2>2, <2>3, <2>4, <2>5 DEF HttpInv
  <1>5. ASSUME NEW target \in Http!Hosts, Http!RedirectRefused(target)
        PROVE  HttpInv'
    <2> DEFINE result == Http!Failure("PROVIDER_UNAVAILABLE", FALSE)
    <2>1. result # Http!Answer(304) /\ ~result.retryable
      BY DEF Http!Failure, Http!Answer
    <2> HIDE DEF result
    <2>2. Http!Finish(result)
      BY <1>5 DEF Http!RedirectRefused, result
    <2>3. QED
      BY <1>5, <2>1, <2>2, FinishKeeps DEF Http!RedirectRefused, Http!Send
  <1>6. CASE UNCHANGED httpVars
    BY <1>6 DEF httpVars, HttpInv, Tries
  <1>7. QED
    BY <1>1, <1>2, <1>3, <1>4, <1>5, <1>6, SendKeeps DEF Http!Next

FetchInv == ReplayInv /\ HttpInv

\* A parse gets answers the provider once gave, for any number of threads that record the same task,
\* of damaged files and of deaths, unless a file is damaged between the hash of it and the second
\* look, and never one that repeats a credential from a file (_cached_fetch);
\* and a request is bounded by the attempts a caller may configure, its result fitting the answers
\* it got (HttpClient.request).
THEOREM RepliesAreAlwaysExact == RootSpec => []RepliesAreExact
  <1>1. RootInit => FetchInv
    BY ReplayBegins, HttpBegins DEF RootInit, FetchInv
  <1>2. FetchInv /\ [RootNext]_all => FetchInv'
    <2> SUFFICES ASSUME FetchInv, [RootNext]_all PROVE FetchInv'
      OBVIOUS
    <2>1. (Replay!Next \/ UNCHANGED replayVars) /\ (Http!Next \/ UNCHANGED httpVars)
      BY DEF RootNext, all, jobVars, fetchVars
    <2>2. QED
      BY <2>1, ReplayKeeps, HttpKeeps DEF FetchInv
  <1>3. FetchInv => RepliesAreExact
    <2> SUFFICES ASSUME FetchInv PROVE RepliesAreExact
      OBVIOUS
    <2>1. Replay!RepliesAreExact
      <3> SUFFICES ASSUME NEW f \in Fetchers, NEW n \in DOMAIN answers[f]
                   PROVE  /\ answers[f][n] \in Replay!Versions \/ (answers[f][n] = Torn /\ <<f, n>> \in raced)
                          /\ n \in Secret => bodies[n] = Missing
        BY DEF Replay!RepliesAreExact
      <3>1. answers[f] \in Seq(Replay!Versions \cup {Torn}) /\ Len(answers[f]) <= Requests
        BY DEF FetchInv, ReplayInv, ReplayTypes
      <3>2. n \in 1..Len(answers[f]) /\ n \in Replay!Positions
        BY <3>1, FetchAssumption DEF FetchAssumption, Replay!Positions
      <3>3. QED
        <4>1. answers[f][n] \in Replay!Versions \cup {Torn}
          BY <3>1, <3>2
        <4>2. answers[f][n] = Torn => <<f, n>> \in raced
          BY DEF FetchInv, ReplayInv, LooksSound
        <4>3. n \in Secret => bodies[n] = Missing
          BY <3>2 DEF FetchInv, ReplayInv, ReplayTypes
        <4>4. QED
          BY <4>1, <4>2, <4>3
    <2>2. Http!RequestsAreBounded
      BY FetchAssumption DEF FetchAssumption, FetchInv, HttpInv, Tries, Http!RequestsAreBounded
    <2>3. QED
      BY <2>1, <2>2 DEF RepliesAreExact
  <1>4. QED
    BY <1>1, <1>2, <1>3, PTL DEF RootSpec
-----------------------------------------------------------------------------
(* The clients of the MCP server, and what their persons were asked.       *)

JobIds == DOMAIN submitted

McpTypes ==
    /\ client \in [Conns -> {"host", "stdio", "own", "bare"}] /\ kept \subseteq Mcp!AllPlans
    /\ submitted \in Seq(McpJobs) /\ enqueued \subseteq JobIds /\ recovered \in BOOLEAN
    /\ book \in [Conns -> SUBSET Mcp!AllPlans] /\ call \in [Conns -> McpWaits \cup {None}]
    /\ yes \in [Conns -> [Mcp!AllPlans -> Nat]]
    /\ \A j \in JobIds : submitted[j].done \subseteq submitted[j].plan.outs
                          /\ (submitted[j].at # None => submitted[j].at \in submitted[j].plan.outs)

\* A job waits exactly if the runner has it.
Queued ==
    /\ \A j \in enqueued : submitted[j].state = "open"
    /\ recovered => \A j \in JobIds : submitted[j].state = "open" => j \in enqueued

\* What a submission or a retry that waits for its answer may rest on: the job it retries has ended,
\* so no file of it is made meanwhile, and what was missing is missing still.
WaitSound(w) ==
    /\ w.hash.kind = "weather" /\ w.hash.outs # {}
    /\ w.of # None =>
          /\ w.of \in JobIds /\ submitted[w.of].plan = w.hash /\ submitted[w.of].state \in Mcp!Terminal
          /\ w.hash.outs \ submitted[w.of].done # {}
Waiters == \A c \in Conns : call[c] # None => recovered /\ WaitSound(call[c])

\* What a job rests on that came of one.
JobSound(j) ==
    /\ submitted[j].of # None =>
          /\ submitted[j].of \in JobIds /\ submitted[submitted[j].of].state \in Mcp!Terminal
          /\ submitted[j].plan.outs \cap submitted[submitted[j].of].done = {}
    /\ submitted[j].by # None =>
          /\ submitted[j].plan.kind = "weather" /\ submitted[j].plan.outs # {}
          /\ submitted[j].plan.outs \subseteq submitted[j].said.outs
          /\ submitted[j].said = IF submitted[j].of = None THEN submitted[j].plan
                                 ELSE submitted[submitted[j].of].plan
          /\ yes[submitted[j].by][submitted[j].said] > 0

\* An approval is in the book, or granted to a call that waits to be submitted, or spent on a job.
Granted(c, p) == call[c] # None /\ call[c].answer = TRUE /\ call[c].hash = p
Made(c, p) == {j \in JobIds : submitted[j].by = c /\ submitted[j].said = p}
Spent(c, p) ==
    Cardinality(Made(c, p)) + (IF Granted(c, p) THEN 1 ELSE 0)
    + (IF client[c] = "host" /\ p \in book[c] THEN 1 ELSE 0)
Approved(c, p) ==
    /\ Granted(c, p) \/ p \in book[c] => yes[c][p] > 0
    /\ client[c] # "stdio" => Spent(c, p) <= yes[c][p]

McpInv ==
    /\ McpTypes /\ Queued /\ Waiters
    /\ \A j \in JobIds : JobSound(j)
    /\ \A c \in Conns : \A p \in Mcp!AllPlans : Approved(c, p)
    /\ Mcp!AnswersServe

\* The server's module counts as this one does.
LEMMA SizesAgree == \A S : Mcp!Cardinality(S) = Cardinality(S)
  BY DEF Cardinality, Mcp!Cardinality

\* Plans have finitely many outputs, and a part of a plan is a plan.
LEMMA PlansAre ==
    ASSUME NEW p \in Mcp!AllPlans
    PROVE  p \in Plans /\ IsFiniteSet(p.outs) /\ Cardinality(p.outs) \in Nat
  <1>1. CASE p \in Planned \cup Given
    BY <1>1, McpAssumption, FS_CardinalityType DEF McpAssumption
  <1>2. ASSUME NEW q \in Planned \cup Given, NEW o \in SUBSET q.outs, p = Mcp!Subplan(q, o)
        PROVE  p \in Plans /\ IsFiniteSet(p.outs) /\ Cardinality(p.outs) \in Nat
    <2>1. q \in Plans /\ IsFiniteSet(q.outs)
      BY McpAssumption DEF McpAssumption
    <2>2. p \in Plans /\ p.outs = o
      BY <1>2, <2>1 DEF Mcp!Subplan, Plans
    <2>3. QED
      BY <2>1, <2>2, FS_Subset, FS_CardinalityType
  <1>3. QED
    BY <1>1, <1>2 DEF Mcp!AllPlans

LEMMA PartsAre ==
    ASSUME NEW p \in Mcp!AllPlans, NEW o \in SUBSET p.outs
    PROVE  /\ Mcp!Subplan(p, o) \in Mcp!AllPlans
           /\ Mcp!Subplan(p, o).kind = p.kind /\ Mcp!Subplan(p, o).outs = o
  <1>1. p \in Plans
    BY PlansAre
  <1>2. Mcp!Subplan(p, o).kind = p.kind /\ Mcp!Subplan(p, o).outs = o
    BY <1>1 DEF Mcp!Subplan, Plans
  <1>3. CASE p \in Planned \cup Given
    BY <1>2, <1>3 DEF Mcp!AllPlans
  <1>4. ASSUME NEW q \in Planned \cup Given, NEW r \in SUBSET q.outs, p = Mcp!Subplan(q, r)
        PROVE  Mcp!Subplan(p, o) \in Mcp!AllPlans
    <2>1. q \in Plans
      BY McpAssumption DEF McpAssumption
    <2>2. p.outs = r /\ Mcp!Subplan(p, o) = Mcp!Subplan(q, o)
      BY <1>4, <2>1 DEF Mcp!Subplan, Plans
    <2>3. o \in SUBSET q.outs
      BY <2>2
    <2>4. QED
      BY <2>2, <2>3 DEF Mcp!AllPlans
  <1>5. QED
    BY <1>2, <1>3, <1>4 DEF Mcp!AllPlans

\* The text of an answer names what it is about, and is as long as it may be at most.
LEMMA TextServes ==
    ASSUME NEW ident, NEW n \in Nat, NEW odd \in BOOLEAN
    PROVE  LET t == Mcp!Text(Mcp!Data(ident, n, odd)) IN
           (\E i \in DOMAIN t : t[i] = ident) /\ Len(t) <= TextRows + 2
  <1> DEFINE d == Mcp!Data(ident, n, odd)
             lines == [i \in 1..n |-> "row"]
             few == Mcp!Cut(lines, 0, TextRows)
  <1>1. TextRows \in Nat
    BY McpAssumption DEF McpAssumption
  <1>2. d.ident = ident /\ d.size = n /\ d.odd = odd
    BY DEF Mcp!Data
  <1>3. lines \in Seq({"row"}) /\ Len(lines) = n
    OBVIOUS
  <1>4. Mcp!Min({0 + TextRows, Len(lines)}) \in {TextRows, n} /\ Mcp!Min({0 + TextRows, Len(lines)}) <= TextRows
        /\ Mcp!Min({0 + TextRows, Len(lines)}) <= n
    BY <1>1, <1>3 DEF Mcp!Min
  <1>5. few \in Seq({"row"}) /\ Len(few) <= TextRows
    <2> DEFINE m == Mcp!Min({0 + TextRows, Len(lines)})
    <2>1. m \in 0..n /\ m <= TextRows
      BY <1>1, <1>4
    <2>2. few = SubSeq(lines, 1, m)
      BY DEF Mcp!Cut
    <2> HIDE DEF m, lines
    <2>3. SubSeq(lines, 1, m) \in Seq({"row"}) /\ Len(SubSeq(lines, 1, m)) = m
      BY <1>3, <2>1, SubSeqProperties
    <2>4. QED
      BY <2>1, <2>2, <2>3
  <1> HIDE DEF few
  <1>6. CASE ~odd
    <2>1. Mcp!Text(d) = <<ident>> \o few
      BY <1>2, <1>6 DEF Mcp!Text, Mcp!Summary, few
    <2>2. Len(<<ident>> \o few) = 1 + Len(few) /\ (<<ident>> \o few)[1] = ident
      <3>1. <<ident>> \in Seq({ident, "row"}) /\ few \in Seq({ident, "row"})
        BY <1>5
      <3>2. QED
        BY <3>1
    <2>3. 1 \in DOMAIN (<<ident>> \o few)
      BY <1>5, <2>2
    <2>4. Len(<<ident>> \o few) <= TextRows + 2
      BY <1>1, <1>5, <2>2
    <2>5. QED
      BY <2>1, <2>2, <2>3, <2>4, Zenon
  <1>7. CASE odd
    BY <1>1, <1>2, <1>7 DEF Mcp!Text, Mcp!Stub
  <1>8. QED
    BY <1>6, <1>7

LEMMA GoodServes ==
    ASSUME NEW tool, NEW ident, NEW n \in Nat, NEW odd \in BOOLEAN,
           Mcp!Answers(Mcp!Good(tool, Mcp!Data(ident, n, odd))), tool = "submit" => ident \in JobIds'
    PROVE  Mcp!AnswersServe'
  <1> DEFINE d == Mcp!Data(ident, n, odd)
  <1>1. reply' = Mcp!Good(tool, d) /\ d.ident = ident
    BY DEF Mcp!Answers, Mcp!Data
  <1>2. (\E i \in DOMAIN Mcp!Text(d) : Mcp!Text(d)[i] = ident) /\ Len(Mcp!Text(d)) <= TextRows + 2
    BY TextServes
  <1> HIDE DEF d
  <1>3. reply'.tool = tool /\ reply'.code = "ok" /\ reply'.data = d /\ reply'.text = Mcp!Text(d)
    BY <1>1 DEF Mcp!Good
  <1>4. QED
    BY <1>1, <1>2, <1>3 DEF Mcp!AnswersServe, JobIds

LEMMA FailsServe ==
    ASSUME NEW tool, NEW code, code \notin {"ok", "MCP_TOOL_ERROR"}, Mcp!Fails(tool, code)
    PROVE  Mcp!AnswersServe'
  <1> DEFINE f == Mcp!Refused(code)
  <1>1. f.class = "openepw" /\ f.code = code
    BY DEF Mcp!Refused, Mcp!Failure
  <1> HIDE DEF f
  <1>2. Mcp!Told(f) = [json |-> TRUE, code |-> code, leaks |-> FALSE]
    BY <1>1 DEF Mcp!Told, Mcp!ToolError
  <1>3. reply'.code = code /\ reply'.leaks = FALSE /\ reply'.tool = tool
    BY <1>2 DEF Mcp!Fails, Mcp!Answers, Mcp!Bad, f
  <1>4. QED
    BY <1>3 DEF Mcp!AnswersServe

LEMMA SilenceServes == Mcp!Silent => Mcp!AnswersServe'
  BY DEF Mcp!Silent, Mcp!AnswersServe

\* The jobs a connection made of a plan are counted.
LEMMA MadeCounted ==
    ASSUME McpTypes, NEW c, NEW p
    PROVE  IsFiniteSet(Made(c, p)) /\ Cardinality(Made(c, p)) \in Nat
  <1>1. IsFiniteSet(JobIds)
    BY FS_Interval DEF McpTypes, JobIds
  <1>2. QED
    BY <1>1, FS_Subset, FS_CardinalityType DEF Made

\* Nothing is granted or put in the book that was not before.
LEMMA ApprovedLess ==
    ASSUME McpInv, NEW c \in Conns, NEW p \in Mcp!AllPlans, client' = client, Made(c, p)' = Made(c, p),
           Granted(c, p)' => Granted(c, p), p \in book'[c] => p \in book[c], yes'[c][p] = yes[c][p]
    PROVE  Approved(c, p)'
  <1>1. Approved(c, p) /\ Cardinality(Made(c, p)) \in Nat /\ yes[c][p] \in Nat
    BY MadeCounted DEF McpInv, McpTypes
  <1>2. QED
    BY <1>1 DEF Approved, Spent

\* A step that leaves the jobs as they are, and takes back no approval.
LEMMA CallsMove ==
    ASSUME McpInv, UNCHANGED <<client, submitted>>, McpTypes', Queued', Waiters', Mcp!AnswersServe',
           \A c \in Conns : \A p \in Mcp!AllPlans : yes'[c][p] >= yes[c][p] /\ Approved(c, p)'
    PROVE  McpInv'
  <1>1. JobIds' = JobIds /\ \A j \in JobIds : submitted[j] \in McpJobs
    BY DEF JobIds, McpInv, McpTypes
  <1>2. ASSUME NEW j \in JobIds
        PROVE  JobSound(j)'
    <2>1. JobSound(j)
      BY DEF McpInv
    <2>2. submitted[j].by # None => submitted[j].by \in Conns /\ submitted[j].said \in Mcp!AllPlans
      BY <1>1 DEF McpJobs
    <2>3. submitted[j].by # None => yes[submitted[j].by][submitted[j].said] \in Nat
          /\ yes'[submitted[j].by][submitted[j].said] \in Nat
      BY <2>2 DEF McpInv, McpTypes
    <2>4. QED
      BY <1>1, <2>1, <2>2, <2>3 DEF JobSound
  <1>3. QED
    BY <1>1, <1>2 DEF McpInv

\* A tool answers at once, or waits for the person's answer.
LEMMA AsksKeep ==
    ASSUME McpInv, NEW c \in Conns, UNCHANGED <<client, submitted, enqueued, recovered, book, yes>>,
           kept' \subseteq Mcp!AllPlans, Mcp!AnswersServe',
           \/ call' = call
           \/ \E w \in McpWaits : /\ call' = [call EXCEPT ![c] = w] /\ w.answer = None
                                  /\ recovered /\ WaitSound(w)
    PROVE  McpInv'
  <1> USE McpAssumption DEF McpAssumption
  <1>a. call \in [Conns -> McpWaits \cup {None}]
    BY DEF McpInv, McpTypes
  <1>b. /\ call' \in [Conns -> McpWaits \cup {None}]
        /\ \A d \in Conns : \/ call'[d] = call[d]
                            \/ call'[d] \in McpWaits /\ call'[d].answer = None /\ recovered /\ WaitSound(call'[d])
    <2>1. CASE call' = call
      BY <1>a, <2>1
    <2>2. ASSUME NEW w \in McpWaits, call' = [call EXCEPT ![c] = w], w.answer = None, recovered, WaitSound(w)
          PROVE  /\ call' \in [Conns -> McpWaits \cup {None}]
                 /\ \A d \in Conns : \/ call'[d] = call[d]
                                     \/ call'[d] \in McpWaits /\ call'[d].answer = None /\ recovered /\ WaitSound(call'[d])
      <3>1. call' \in [Conns -> McpWaits \cup {None}]
        BY <1>a, <2>2
      <3>2. ASSUME NEW d \in Conns, d # c
            PROVE  call'[d] = call[d]
        BY <1>a, <2>2, <3>2
      <3>3. call'[c] = w
        BY <1>a, <2>2
      <3>4. QED
        BY <2>2, <3>1, <3>2, <3>3, Zenon
    <2>3. QED
      BY <2>1, <2>2, Zenon
  <1>1. McpTypes'
    BY <1>b DEF McpInv, McpTypes, JobIds
  <1>2. Queued'
    BY DEF McpInv, Queued, JobIds
  <1>3. Waiters'
    <2> SUFFICES ASSUME NEW d \in Conns, call'[d] # None PROVE recovered' /\ WaitSound(call[d])'
      BY DEF Waiters
    <2>1. recovered /\ WaitSound(call'[d])
      BY <1>b DEF McpInv, Waiters
    <2>2. QED
      BY <2>1 DEF WaitSound, JobIds
  <1>4. ASSUME NEW d \in Conns, NEW p \in Mcp!AllPlans
        PROVE  yes'[d][p] >= yes[d][p] /\ Approved(d, p)'
    <2>1. Made(d, p)' = Made(d, p)
      BY DEF Made, JobIds
    <2>2. Granted(d, p)' => Granted(d, p)
      BY <1>b DEF Granted
    <2>3. yes'[d][p] = yes[d][p] /\ yes[d][p] \in Nat
      BY DEF McpInv, McpTypes
    <2>4. QED
      BY <2>1, <2>2, <2>3, ApprovedLess
  <1>5. QED
    BY <1>1, <1>2, <1>3, <1>4, CallsMove

\* Jobs move on: their plans, their keys and whose they are stay, and none is reopened; calls and
\* approvals may be dropped.
LEMMA JobsMove ==
    ASSUME McpInv, UNCHANGED <<client, kept, yes>>, Mcp!AnswersServe', Queued',
           enqueued' \subseteq JobIds, recovered' \in BOOLEAN,
           call' \in [Conns -> McpWaits \cup {None}], book' \in [Conns -> SUBSET Mcp!AllPlans],
           \A c \in Conns : /\ call'[c] # None => recovered' = recovered /\ call'[c] = call[c]
                            /\ book'[c] \subseteq book[c],
           submitted' \in Seq(McpJobs), Len(submitted') = Len(submitted),
           \A j \in JobIds :
              /\ submitted'[j].plan = submitted[j].plan /\ submitted'[j].of = submitted[j].of
              /\ submitted'[j].by = submitted[j].by /\ submitted'[j].said = submitted[j].said
              /\ submitted'[j].done \subseteq submitted[j].plan.outs
              /\ submitted'[j].at # None => submitted'[j].at \in submitted[j].plan.outs
              /\ submitted[j].state \in Mcp!Terminal =>
                    submitted'[j].state \in Mcp!Terminal /\ submitted'[j].done \subseteq submitted[j].done
    PROVE  McpInv'
  <1>1. JobIds' = JobIds
    BY DEF JobIds, McpInv, McpTypes
  <1>2. McpTypes'
    BY <1>1 DEF McpInv, McpTypes
  <1>3. Waiters'
    <2> SUFFICES ASSUME NEW c \in Conns, call'[c] # None PROVE recovered' /\ WaitSound(call[c])'
      BY DEF Waiters
    <2>1. recovered /\ WaitSound(call[c]) /\ call'[c] = call[c] /\ recovered'
      BY DEF McpInv, Waiters
    <2>2. QED
      BY <1>1, <2>1 DEF WaitSound
  <1>4. ASSUME NEW j \in JobIds
        PROVE  JobSound(j)'
    BY <1>1 DEF McpInv, JobSound
  <1>5. ASSUME NEW c \in Conns, NEW p \in Mcp!AllPlans
        PROVE  Approved(c, p)'
    <2>1. Made(c, p)' = Made(c, p)
      BY <1>1 DEF Made
    <2>2. Granted(c, p)' => Granted(c, p)
      BY DEF Granted
    <2>3. QED
      BY <2>1, <2>2, ApprovedLess
  <1>6. QED
    BY <1>1, <1>2, <1>3, <1>4, <1>5 DEF McpInv

\* The tools that only look, and those that make a plan or register a baseline.
LEMMA ToolsKeep ==
    ASSUME McpInv, client' = client, NEW c \in Conns, Mcp!Plan(c) \/ Mcp!Look(c) \/ Mcp!Register(c)
    PROVE  McpInv'
  <1>1. UNCHANGED <<client, submitted, enqueued, recovered, book, call, yes>>
    BY DEF Mcp!Plan, Mcp!Look, Mcp!Register, Mcp!Only
  <1>2. kept' \subseteq Mcp!AllPlans
    BY DEF Mcp!Plan, Mcp!Look, Mcp!Register, Mcp!AllPlans, McpInv, McpTypes
  <1>3. Mcp!AnswersServe'
    <2>1. CASE \E tool, code : code \notin {"ok", "MCP_TOOL_ERROR"} /\ Mcp!Fails(tool, code)
      BY <2>1, FailsServe
    <2>2. ASSUME NEW p \in Planned, Mcp!Answers(Mcp!Good("plan", Mcp!Data(p, Cardinality(p.outs), FALSE)))
          PROVE  Mcp!AnswersServe'
      <3> DEFINE n == Cardinality(p.outs)
      <3>1. n \in Nat
        BY PlansAre DEF Mcp!AllPlans
      <3>2. Mcp!Answers(Mcp!Good("plan", Mcp!Data(p, n, FALSE)))
        BY <2>2
      <3> HIDE DEF n
      <3>3. QED
        BY <3>1, <3>2, GoodServes
    <2>3. ASSUME NEW odd \in BOOLEAN, Mcp!Answers(Mcp!Good("look", Mcp!Data(None, TextRows + 1, odd)))
          PROVE  Mcp!AnswersServe'
      <3>1. TextRows + 1 \in Nat
        BY McpAssumption DEF McpAssumption
      <3>2. QED
        BY <2>3, <3>1, GoodServes
    <2>4. ASSUME Mcp!Answers(Mcp!Good("register", Mcp!Data(None, 0, FALSE)))
          PROVE  Mcp!AnswersServe'
      BY <2>4, GoodServes
    <2>5. ASSUME NEW class \in {"validation", "value", "other", "unknown"},
                 Mcp!Answers(Mcp!Bad("look", Mcp!Failure(class, None)))
          PROVE  Mcp!AnswersServe'
      <3> DEFINE f == Mcp!Failure(class, None)
      <3>1. f.class = class
        BY DEF Mcp!Failure
      <3> HIDE DEF f
      <3>2. Mcp!Told(f) \in [json : BOOLEAN, code : {"INVALID_REQUEST", "INTERNAL_ERROR", None}, leaks : {FALSE}]
            /\ (Mcp!Told(f).json => Mcp!Told(f).code \in {"INVALID_REQUEST", "INTERNAL_ERROR"})
        BY <2>5, <3>1 DEF Mcp!Told, Mcp!ToolError
      <3>3. reply'.tool = "look" /\ reply'.leaks = FALSE
            /\ reply'.code \in {"INVALID_REQUEST", "INTERNAL_ERROR", "MCP_TOOL_ERROR"}
        BY <2>5, <3>2 DEF Mcp!Answers, Mcp!Bad, f
      <3>4. QED
        BY <3>3 DEF Mcp!AnswersServe
    <2>6. CASE Mcp!Plan(c)
      <3>1. ASSUME NEW code \in {"FEATURE_SUSPENDED", "INVALID_REQUEST", "RESOURCE_LIMIT"}, Mcp!Fails("plan", code)
            PROVE  Mcp!AnswersServe'
        BY <2>1, <3>1
      <3>2. \/ \E code \in {"FEATURE_SUSPENDED", "INVALID_REQUEST", "RESOURCE_LIMIT"} : Mcp!Fails("plan", code)
            \/ \E p \in Planned : \/ Mcp!Fails("plan", "RESOURCE_LIMIT")
                                 \/ Mcp!Answers(Mcp!Good("plan", Mcp!Data(p, Cardinality(p.outs), FALSE)))
        BY <2>6, SizesAgree DEF Mcp!Plan, Mcp!Fails, Mcp!Answers
      <3>3. QED
        BY <2>2, <3>1, <3>2, Zenon
    <2>7. CASE Mcp!Look(c)
      BY <2>1, <2>3, <2>5, <2>7 DEF Mcp!Look
    <2>8. CASE Mcp!Register(c)
      BY <2>1, <2>4, <2>8 DEF Mcp!Register
    <2>9. QED
      BY <2>6, <2>7, <2>8
  <1>4. QED
    BY <1>1, <1>2, <1>3, AsksKeep

LEMMA InspectionsKeep ==
    ASSUME McpInv, client' = client, NEW c \in Conns, NEW j \in JobIds, Mcp!InspectJob(c, j) \/ Mcp!InspectArtifact(c, j)
    PROVE  McpInv'
  <1>1. UNCHANGED <<client, submitted, enqueued, recovered, book, call, yes, kept>>
    BY DEF Mcp!InspectJob, Mcp!InspectArtifact, Mcp!Only
  <1>2. kept' \subseteq Mcp!AllPlans
    BY <1>1 DEF McpInv, McpTypes
  <1>3. Mcp!AnswersServe'
    <2>1. CASE \E tool, code : code \notin {"ok", "MCP_TOOL_ERROR"} /\ Mcp!Fails(tool, code)
      BY <2>1, FailsServe
    <2>2. CASE \E tool, ident : \E n \in Nat : tool # "submit" /\ Mcp!Answers(Mcp!Good(tool, Mcp!Data(ident, n, FALSE)))
      BY <2>2, GoodServes
    <2>3. CASE Mcp!InspectJob(c, j)
      <3>1. submitted[j] \in McpJobs /\ submitted[j].done \subseteq submitted[j].plan.outs
        BY DEF McpInv, McpTypes, JobIds
      <3>2. submitted[j].plan \in Mcp!AllPlans
        BY <3>1 DEF McpJobs
      <3>3. Cardinality(submitted[j].done) \in Nat
        BY <3>1, <3>2, PlansAre, FS_Subset, FS_CardinalityType
      <3>4. CASE Mcp!Fails("job", "INVALID_ARTIFACT")
        BY <2>1, <3>4
      <3>5. CASE Mcp!Answers(Mcp!Good("job", Mcp!Data(j, Cardinality(submitted[j].done), FALSE)))
        BY <2>2, <3>3, <3>5
      <3>6. \/ Mcp!Fails("job", "INVALID_ARTIFACT")
            \/ Mcp!Answers(Mcp!Good("job", Mcp!Data(j, Cardinality(submitted[j].done), FALSE)))
        BY <2>3, SizesAgree DEF Mcp!InspectJob, Mcp!Fails, Mcp!Answers
      <3>7. QED
        BY <3>4, <3>5, <3>6
    <2>4. CASE Mcp!InspectArtifact(c, j)
      <3>1. CASE Mcp!Fails("artifact", "INVALID_ARTIFACT")
        BY <2>1, <3>1
      <3>2. ASSUME NEW o, NEW n \in {0, 2}, Mcp!Answers(Mcp!Good("artifact", Mcp!Data(o, n, FALSE)))
            PROVE  Mcp!AnswersServe'
        BY <2>2, <3>2
      <3>3. PICK o \in submitted[j].plan.outs :
               \/ Mcp!Answers(Mcp!Good("artifact", Mcp!Data(o, IF submitted[j].whole THEN 2 ELSE 0, FALSE)))
               \/ Mcp!Fails("artifact", "INVALID_ARTIFACT")
        BY <2>4 DEF Mcp!InspectArtifact
      <3>4. QED
        BY <3>1, <3>2, <3>3
    <2>5. QED
      BY <2>3, <2>4
  <1>4. QED
    BY <1>1, <1>2, <1>3, AsksKeep

\* A submission that is not refused waits for the person.
LEMMA ChecksKeep ==
    ASSUME McpInv, client' = client, NEW c \in Conns, UNCHANGED <<submitted, enqueued, recovered, book, yes>>,
           kept' \subseteq Mcp!AllPlans, recovered, NEW p \in Mcp!AllPlans, NEW of \in Nat \cup {None},
           NEW k \in Keys \cup {None}, NEW refused, refused \notin {"ok", "MCP_TOOL_ERROR"},
           refused = None => WaitSound(Mcp!Waiting(p, of, k)),
           Mcp!Checked(c, refused, Mcp!Waiting(p, of, k))
    PROVE  McpInv'
  <1> DEFINE w == Mcp!Waiting(p, of, k)
  <1>1. w \in McpWaits /\ w.answer = None
    BY DEF Mcp!Waiting, McpWaits
  <1> HIDE DEF w
  <1>2. \/ call' = call /\ \E code : code \notin {"ok", "MCP_TOOL_ERROR"} /\ Mcp!Fails("submit", code)
        \/ refused = None /\ call' = [call EXCEPT ![c] = w] /\ Mcp!Silent
    <2>1. CASE refused # None
      BY <2>1 DEF Mcp!Checked, w
    <2>2. CASE refused = None
      <3>1. Mcp!Asks(c, w)
        BY <2>2 DEF Mcp!Checked, w
      <3>2. CASE client[c] = "bare"
        BY <3>1, <3>2 DEF Mcp!Asks
      <3>3. CASE client[c] # "bare"
        BY <2>2, <3>1, <3>3 DEF Mcp!Asks
      <3>4. QED
        BY <3>2, <3>3
    <2>3. QED
      BY <2>1, <2>2
  <1>3. CASE call' = call /\ \E code : code \notin {"ok", "MCP_TOOL_ERROR"} /\ Mcp!Fails("submit", code)
    <2>1. Mcp!AnswersServe'
      BY <1>3, FailsServe
    <2>2. QED
      BY <1>3, <2>1, AsksKeep
  <1>4. CASE refused = None /\ call' = [call EXCEPT ![c] = w] /\ Mcp!Silent
    <2>1. Mcp!AnswersServe' /\ WaitSound(w)
      BY <1>4, SilenceServes DEF w
    <2>2. QED
      BY <1>1, <1>4, <2>1, AsksKeep
  <1>5. QED
    BY <1>2, <1>3, <1>4

LEMMA JobsAre ==
    ASSUME McpInv, NEW j \in JobIds
    PROVE  /\ submitted[j] \in McpJobs /\ submitted[j].done \subseteq submitted[j].plan.outs
           /\ submitted[j].plan \in Mcp!AllPlans /\ j \in Nat /\ j \in 1..Len(submitted)
  <1>1. /\ submitted[j] \in McpJobs /\ submitted[j].done \subseteq submitted[j].plan.outs
        /\ j \in Nat /\ j \in 1..Len(submitted)
    BY DEF McpInv, McpTypes, JobIds
  <1>2. QED
    BY <1>1 DEF McpJobs

\* What may be submitted has weather to make, and what may be retried has ended with some missing.
LEMMA RefusalsAre ==
    ASSUME McpInv, NEW p \in Mcp!AllPlans
    PROVE  /\ Mcp!SubmitRefused(p) \notin {"ok", "MCP_TOOL_ERROR"}
           /\ Mcp!SubmitRefused(p) = None => p.kind = "weather" /\ p.outs # {}
  <1>1. p.kind \in {"weather", "future"}
    BY PlansAre DEF Plans
  <1>2. None \notin {"FEATURE_SUSPENDED", "NO_EXECUTABLE_OUTPUTS", "ok", "MCP_TOOL_ERROR"}
    BY McpAssumption DEF McpAssumption, Codes
  <1>3. QED
    BY <1>1, <1>2 DEF Mcp!SubmitRefused

LEMMA RetryRefusalsAre ==
    ASSUME McpInv, NEW j \in JobIds
    PROVE  /\ Mcp!RetryRefused(j) \notin {"ok", "MCP_TOOL_ERROR"}
           /\ Mcp!RetryRefused(j) = None =>
                 /\ submitted[j].plan.kind = "weather" /\ submitted[j].state \in Mcp!Terminal
                 /\ submitted[j].plan.outs \ submitted[j].done # {}
  <1>1. submitted[j].plan \in Mcp!AllPlans
    BY JobsAre
  <1>2. submitted[j].plan.kind \in {"weather", "future"}
    BY <1>1, PlansAre DEF Plans
  <1>3. None \notin {"FEATURE_SUSPENDED", "INVALID_REQUEST", "NOTHING_TO_RETRY", "ok", "MCP_TOOL_ERROR"}
    BY McpAssumption DEF McpAssumption, Codes
  <1>4. QED
    BY <1>2, <1>3 DEF Mcp!RetryRefused, Mcp!Unmet, Mcp!Over

LEMMA SubmissionsKeep ==
    ASSUME McpInv, client' = client, NEW c \in Conns, NEW p \in Mcp!AllPlans, NEW k \in Keys \cup {None},
           Mcp!Submit(c, p, k) \/ (p \in Given /\ Mcp!Fetch(c, p, k))
    PROVE  McpInv'
  <1>1. recovered /\ UNCHANGED <<submitted, enqueued, recovered, book, yes>>
    BY DEF Mcp!Submit, Mcp!Fetch, Mcp!Calls
  <1>2. kept' \subseteq Mcp!AllPlans
    BY DEF Mcp!Submit, Mcp!Fetch, Mcp!AllPlans, McpInv, McpTypes
  <1>3. \/ Mcp!Checked(c, Mcp!SubmitRefused(p), Mcp!Waiting(p, None, k))
        \/ call' = call /\ \E code : code \notin {"ok", "MCP_TOOL_ERROR"} /\ Mcp!Fails("submit", code)
    <2>1. CASE Mcp!Submit(c, p, k) /\ p \notin kept
      BY <2>1 DEF Mcp!Submit
    <2>2. CASE Mcp!Submit(c, p, k) /\ p \in kept
      BY <2>2 DEF Mcp!Submit
    <2>3. CASE Mcp!Fetch(c, p, k)
      BY <2>3 DEF Mcp!Fetch
    <2>4. QED
      BY <2>1, <2>2, <2>3
  <1>4. CASE Mcp!Checked(c, Mcp!SubmitRefused(p), Mcp!Waiting(p, None, k))
    <2> DEFINE w == Mcp!Waiting(p, None, k)
    <2>1. w.hash = p /\ w.of = None
      BY DEF Mcp!Waiting
    <2> HIDE DEF w
    <2>2. Mcp!SubmitRefused(p) = None => WaitSound(w)
      BY <2>1, RefusalsAre DEF WaitSound
    <2>3. Mcp!SubmitRefused(p) \notin {"ok", "MCP_TOOL_ERROR"} /\ None \in Nat \cup {None}
      BY RefusalsAre
    <2>4. QED
      BY <1>1, <1>2, <1>4, <2>2, <2>3, ChecksKeep DEF w
  <1>5. CASE call' = call /\ \E code : code \notin {"ok", "MCP_TOOL_ERROR"} /\ Mcp!Fails("submit", code)
    <2>1. Mcp!AnswersServe'
      BY <1>5, FailsServe
    <2>2. QED
      BY <1>1, <1>2, <1>5, <2>1, AsksKeep
  <1>6. QED
    BY <1>3, <1>4, <1>5

LEMMA RetriesKeep ==
    ASSUME McpInv, client' = client, NEW c \in Conns, NEW j \in JobIds, NEW k \in Keys \cup {None},
           Mcp!Retry(c, j, k)
    PROVE  McpInv'
  <1>1. recovered /\ UNCHANGED <<kept, submitted, enqueued, recovered, book, yes>>
    BY DEF Mcp!Retry, Mcp!Calls
  <1>2. kept' \subseteq Mcp!AllPlans
    BY <1>1 DEF McpInv, McpTypes
  <1>3. submitted[j].plan \in Mcp!AllPlans /\ j \in Nat \cup {None}
    BY JobsAre
  <1> DEFINE w == Mcp!Waiting(submitted[j].plan, j, k)
  <1>4. w.hash = submitted[j].plan /\ w.of = j
    BY DEF Mcp!Waiting
  <1> HIDE DEF w
  <1>5. submitted[j].plan.outs # {} \/ submitted[j].plan.outs \ submitted[j].done = {}
    OBVIOUS
  <1>6. Mcp!RetryRefused(j) = None => WaitSound(w)
    BY <1>4, <1>5, RetryRefusalsAre DEF WaitSound
  <1>7. Mcp!RetryRefused(j) \notin {"ok", "MCP_TOOL_ERROR"} /\ Mcp!Checked(c, Mcp!RetryRefused(j), w)
    BY RetryRefusalsAre DEF Mcp!Retry, w
  <1>8. QED
    BY <1>1, <1>2, <1>3, <1>6, <1>7, ChecksKeep DEF w

\* The calls that wait keep what they rest on when the jobs stay as they are.
LEMMA WaitersStay ==
    ASSUME McpInv, UNCHANGED <<submitted, recovered>>,
           \A c \in Conns : call'[c] # None =>
               call[c] # None /\ call'[c].hash = call[c].hash /\ call'[c].of = call[c].of
    PROVE  Waiters'
  <1> SUFFICES ASSUME NEW c \in Conns, call'[c] # None PROVE recovered' /\ WaitSound(call[c])'
    BY DEF Waiters
  <1>1. recovered /\ WaitSound(call[c])
    BY DEF McpInv, Waiters
  <1>2. QED
    BY <1>1 DEF WaitSound, JobIds

LEMMA MadeStays == ASSUME UNCHANGED submitted, NEW c, NEW p PROVE Made(c, p)' = Made(c, p)
  BY DEF Made, JobIds

LEMMA ApproveKeeps ==
    ASSUME McpInv, client' = client, NEW c \in Conns, NEW p \in Mcp!AllPlans, Mcp!Approve(c, p)
    PROVE  McpInv'
  <1>1. /\ UNCHANGED <<kept, submitted, enqueued, recovered, call>>
        /\ book' = [book EXCEPT ![c] = @ \cup {p}] /\ yes' = [yes EXCEPT ![c][p] = @ + 1]
    BY DEF Mcp!Approve
  <1>2. /\ book \in [Conns -> SUBSET Mcp!AllPlans] /\ yes \in [Conns -> [Mcp!AllPlans -> Nat]]
    BY DEF McpInv, McpTypes
  <1>3. book' \in [Conns -> SUBSET Mcp!AllPlans] /\ yes' \in [Conns -> [Mcp!AllPlans -> Nat]]
    BY <1>1, <1>2
  <1>4. McpTypes'
    BY <1>1, <1>3 DEF McpInv, McpTypes, JobIds
  <1>5. Queued'
    BY <1>1 DEF McpInv, Queued, JobIds
  <1>6. Waiters' /\ Mcp!AnswersServe'
    BY <1>1, WaitersStay, SilenceServes DEF Mcp!Approve
  <1>7. ASSUME NEW d \in Conns, NEW q \in Mcp!AllPlans
        PROVE  yes'[d][q] >= yes[d][q] /\ Approved(d, q)'
    <2>1. Made(d, q)' = Made(d, q) /\ Granted(d, q)' = Granted(d, q) /\ yes[d][q] \in Nat
      BY <1>1, <1>2, MadeStays DEF Granted
    <2>2. CASE d # c \/ q # p
      <3>1. yes'[d][q] = yes[d][q] /\ (q \in book'[d] => q \in book[d])
        BY <1>1, <1>2, <2>2
      <3>2. QED
        BY <2>1, <3>1, ApprovedLess
    <2>3. CASE d = c /\ q = p
      <3>1. yes'[d][q] = yes[d][q] + 1
        BY <1>1, <1>2, <2>3
      <3>2. Approved(d, q) /\ Cardinality(Made(d, q)) \in Nat
        BY MadeCounted DEF McpInv
      <3>3. QED
        BY <2>1, <3>1, <3>2 DEF Approved, Spent
    <2>4. QED
      BY <2>2, <2>3
  <1>8. QED
    BY <1>1, <1>4, <1>5, <1>6, <1>7, CallsMove

LEMMA SaysSo ==
    ASSUME McpInv, NEW c \in Conns, Mcp!Asked(c), NEW answer \in BOOLEAN, Mcp!Says(c, answer)
    PROVE  /\ call[c] \in McpWaits /\ call'[c] \in McpWaits
           /\ call'[c].hash = call[c].hash /\ call'[c].of = call[c].of /\ call'[c].answer = answer
           /\ ~Granted(c, call[c].hash)
           /\ \A d \in Conns \ {c} : call'[d] = call[d]
           /\ call' \in [Conns -> McpWaits \cup {None}]
  <1>1. call \in [Conns -> McpWaits \cup {None}] /\ call[c] # None /\ call[c].answer = None
    BY DEF McpInv, McpTypes, Mcp!Asked
  <1>2. call[c] \in McpWaits
    BY <1>1
  <1> DEFINE w == [call[c] EXCEPT !.answer = answer]
  <1>3. w \in McpWaits /\ w.hash = call[c].hash /\ w.of = call[c].of /\ w.answer = answer
    BY <1>2 DEF McpWaits
  <1>4. call' = [call EXCEPT ![c] = w]
    BY DEF Mcp!Says
  <1> HIDE DEF w
  <1>5. call'[c] = w /\ \A d \in Conns \ {c} : call'[d] = call[d]
    BY <1>1, <1>4
  <1>6. call' \in [Conns -> McpWaits \cup {None}]
    BY <1>1, <1>3, <1>4
  <1>7. None # TRUE
    BY McpAssumption DEF McpAssumption
  <1>8. ~Granted(c, call[c].hash)
    BY <1>1, <1>7 DEF Granted
  <1>9. QED
    BY <1>2, <1>3, <1>5, <1>6, <1>8

\* A decision that is said leaves all of the invariant but the approvals.
LEMMA AnswersKeep ==
    ASSUME McpInv, UNCHANGED <<client, kept, submitted, enqueued, recovered>>, Mcp!Silent,
           NEW c \in Conns, Mcp!Asked(c), NEW answer \in BOOLEAN, Mcp!Says(c, answer),
           book' \in [Conns -> SUBSET Mcp!AllPlans], yes' \in [Conns -> [Mcp!AllPlans -> Nat]],
           NEW p \in Mcp!AllPlans, p = call[c].hash, yes'[c][p] >= yes[c][p], Approved(c, p)',
           \A d \in Conns : \A q \in Mcp!AllPlans :
               d # c \/ q # p => (q \in book'[d] => q \in book[d]) /\ yes'[d][q] = yes[d][q]
    PROVE  McpInv'
  <1>1. /\ call' \in [Conns -> McpWaits \cup {None}] /\ \A d \in Conns \ {c} : call'[d] = call[d]
        /\ call[c] \in McpWaits /\ call'[c] \in McpWaits
        /\ call'[c].hash = call[c].hash /\ call'[c].of = call[c].of /\ call'[c].answer = answer
    BY SaysSo
  <1>2. McpTypes'
    BY <1>1 DEF McpInv, McpTypes, JobIds
  <1>3. Queued'
    BY DEF McpInv, Queued, JobIds
  <1>4. call[c] # None
    BY DEF Mcp!Asked
  <1>5. Waiters'
    BY <1>1, <1>4, WaitersStay
  <1>6. ASSUME NEW d \in Conns, NEW q \in Mcp!AllPlans
        PROVE  yes'[d][q] >= yes[d][q] /\ Approved(d, q)'
    <2>1. CASE d = c /\ q = p
      BY <2>1
    <2>2. CASE d # c \/ q # p
      <3>1. yes'[d][q] = yes[d][q] /\ yes[d][q] \in Nat
        BY <2>2 DEF McpInv, McpTypes
      <3>2. q \in book'[d] => q \in book[d]
        BY <2>2
      <3>3. Granted(d, q)' => Granted(d, q)
        BY <1>1, <2>2 DEF Granted
      <3>4. QED
        BY <3>1, <3>2, <3>3, MadeStays, ApprovedLess
    <2>3. QED
      BY <2>1, <2>2
  <1>7. QED
    BY <1>2, <1>3, <1>5, <1>6, SilenceServes, CallsMove

LEMMA AnswerKeeps ==
    ASSUME McpInv, client' = client, NEW c \in Conns, Mcp!Answer(c)
    PROVE  McpInv'
  <1>1. call[c] \in McpWaits /\ Mcp!Asked(c)
    BY McpAssumption DEF McpAssumption, Mcp!Answer, Mcp!Asked, McpInv, McpTypes
  <1>2. PICK p \in Mcp!AllPlans : p = call[c].hash
    BY <1>1 DEF McpWaits
  <1>3. PICK answer \in BOOLEAN : answer = (p \in book[c])
    <2>1. (p \in book[c]) \in BOOLEAN
      OBVIOUS
    <2>2. QED
      BY <2>1, Zenon
  <1>4. /\ UNCHANGED <<client, kept, submitted, enqueued, recovered, yes>> /\ Mcp!Silent
        /\ Mcp!Says(c, answer) /\ client[c] \in {"host", "stdio"}
        /\ book' = [book EXCEPT ![c] = Mcp!Consume(c, p)]
    BY <1>2, <1>3 DEF Mcp!Answer
  <1>5. call'[c].hash = p /\ call'[c].answer = answer /\ ~Granted(c, p)
    BY <1>1, <1>2, <1>4, SaysSo
  <1>6. /\ book \in [Conns -> SUBSET Mcp!AllPlans] /\ yes \in [Conns -> [Mcp!AllPlans -> Nat]]
    BY DEF McpInv, McpTypes
  <1>7. Mcp!Consume(c, p) \subseteq book[c]
    BY DEF Mcp!Consume
  <1>8. book' \in [Conns -> SUBSET Mcp!AllPlans] /\ book'[c] = Mcp!Consume(c, p)
        /\ \A d \in Conns \ {c} : book'[d] = book[d]
    BY <1>4, <1>6, <1>7
  <1>9. Approved(c, p)'
    <2>1. Approved(c, p) /\ Cardinality(Made(c, p)) \in Nat /\ yes[c][p] \in Nat
      BY <1>6, MadeCounted DEF McpInv
    <2>2. Made(c, p)' = Made(c, p) /\ yes' = yes /\ client' = client
      BY <1>4, MadeStays
    <2>3. Granted(c, p)' => p \in book[c] /\ (client[c] = "host" => p \notin book'[c])
      BY <1>3, <1>5, <1>8 DEF Granted, Mcp!Consume
    <2>4. p \in book'[c] => p \in book[c]
      BY <1>7, <1>8
    <2>5. QED
      BY <1>4, <1>5, <2>1, <2>2, <2>3, <2>4 DEF Approved, Spent
  <1>10. QED
    BY <1>1, <1>2, <1>4, <1>6, <1>7, <1>8, <1>9, AnswersKeep

LEMMA DecideKeeps ==
    ASSUME McpInv, client' = client, NEW c \in Conns, Mcp!Decide(c)
    PROVE  McpInv'
  <1>1. call[c] \in McpWaits /\ Mcp!Asked(c)
    BY McpAssumption DEF McpAssumption, Mcp!Decide, Mcp!Asked, McpInv, McpTypes
  <1>2. PICK p \in Mcp!AllPlans : p = call[c].hash
    BY <1>1 DEF McpWaits
  <1>3. /\ UNCHANGED <<client, kept, submitted, enqueued, recovered, book>> /\ Mcp!Silent /\ client[c] = "own"
    BY DEF Mcp!Decide
  <1>4. PICK answer \in BOOLEAN :
           /\ Mcp!Says(c, answer)
           /\ IF answer THEN yes' = [yes EXCEPT ![c][p] = @ + 1] ELSE yes' = yes
    BY <1>2 DEF Mcp!Decide
  <1>5. call'[c].hash = p /\ call'[c].answer = answer /\ ~Granted(c, p)
    BY <1>1, <1>2, <1>4, SaysSo
  <1>6. /\ book \in [Conns -> SUBSET Mcp!AllPlans] /\ yes \in [Conns -> [Mcp!AllPlans -> Nat]]
    BY DEF McpInv, McpTypes
  <1>7. yes' \in [Conns -> [Mcp!AllPlans -> Nat]] /\ yes'[c][p] = (IF answer THEN yes[c][p] + 1 ELSE yes[c][p])
        /\ \A d \in Conns : \A q \in Mcp!AllPlans : d # c \/ q # p => yes'[d][q] = yes[d][q]
    BY <1>4, <1>6
  <1>8. Approved(c, p)'
    <2>1. Approved(c, p) /\ Cardinality(Made(c, p)) \in Nat /\ yes[c][p] \in Nat
      BY <1>6, MadeCounted DEF McpInv
    <2>2. Made(c, p)' = Made(c, p) /\ book' = book /\ client' = client
      BY <1>3, MadeStays
    <2>3. Granted(c, p)' => answer
      BY <1>5 DEF Granted
    <2>4. QED
      BY <1>3, <1>5, <1>7, <2>1, <2>2, <2>3 DEF Approved, Spent
  <1>9. yes'[c][p] >= yes[c][p]
    BY <1>6, <1>7
  <1>10. QED
    BY <1>1, <1>2, <1>3, <1>4, <1>6, <1>7, <1>8, <1>9, AnswersKeep

\* A call that ends without a job, and the end of the process.
LEMMA EndsKeep ==
    ASSUME McpInv, UNCHANGED <<client, kept, submitted, yes>>, Mcp!AnswersServe', Queued',
           enqueued' \subseteq JobIds, recovered' \in BOOLEAN,
           call' \in [Conns -> McpWaits \cup {None}], book' \in [Conns -> SUBSET Mcp!AllPlans],
           \A c \in Conns : /\ call'[c] # None => recovered' = recovered /\ call'[c] = call[c]
                            /\ book'[c] \subseteq book[c]
    PROVE  McpInv'
  <1>1. McpTypes
    BY DEF McpInv
  <1>2. submitted' \in Seq(McpJobs) /\ Len(submitted') = Len(submitted)
    BY <1>1 DEF McpTypes
  <1>3. \A j \in JobIds : submitted[j].done \subseteq submitted[j].plan.outs
                          /\ (submitted[j].at # None => submitted[j].at \in submitted[j].plan.outs)
    BY <1>1 DEF McpTypes
  <1>4. QED
    BY <1>2, <1>3, JobsMove

LEMMA DeclinedKeeps ==
    ASSUME McpInv, client' = client, NEW c \in Conns, Mcp!Declined(c) \/ Mcp!Vanish(c)
    PROVE  McpInv'
  <1>1. /\ UNCHANGED <<kept, submitted, enqueued, recovered, book, yes>> /\ call' = [call EXCEPT ![c] = None]
    BY DEF Mcp!Declined, Mcp!Vanish
  <1>2. Mcp!AnswersServe'
    BY FailsServe, SilenceServes DEF Mcp!Declined, Mcp!Vanish
  <1>3. McpTypes /\ Queued
    BY DEF McpInv
  <1>4. call' \in [Conns -> McpWaits \cup {None}] /\ \A d \in Conns : call'[d] # None => call'[d] = call[d]
    BY <1>1, <1>3 DEF McpTypes
  <1>5. Queued'
    BY <1>1, <1>3 DEF Queued, JobIds
  <1>6. QED
    BY <1>1, <1>2, <1>3, <1>4, <1>5, EndsKeep DEF McpTypes

LEMMA RestartKeeps ==
    ASSUME McpInv, client' = client, Mcp!Restart \/ Mcp!Enter
    PROVE  McpInv'
  <1>1. McpTypes /\ Mcp!AnswersServe'
    BY SilenceServes DEF McpInv, Mcp!Restart, Mcp!Enter
  <1>2. CASE Mcp!Restart
    <2>1. /\ UNCHANGED <<kept, yes>> /\ recovered' = FALSE /\ enqueued' = {}
          /\ book' = [c \in Conns |-> {}] /\ call' = [c \in Conns |-> None]
          /\ submitted' = [j \in JobIds |-> [submitted[j] EXCEPT !.at = None]]
      BY <1>2 DEF Mcp!Restart, JobIds
    <2>2. Queued'
      BY <2>1 DEF Queued
    <2>3. ASSUME NEW j \in JobIds
          PROVE  /\ submitted'[j] \in McpJobs /\ submitted'[j].at = None
                 /\ submitted'[j].plan = submitted[j].plan /\ submitted'[j].of = submitted[j].of
                 /\ submitted'[j].by = submitted[j].by /\ submitted'[j].said = submitted[j].said
                 /\ submitted'[j].done = submitted[j].done /\ submitted'[j].state = submitted[j].state
                 /\ submitted[j].done \subseteq submitted[j].plan.outs
      BY <2>1, JobsAre DEF McpJobs
    <2>4. submitted' \in Seq(McpJobs) /\ Len(submitted') = Len(submitted)
      <3>1. JobIds = 1..Len(submitted) /\ Len(submitted) \in Nat
        BY <1>1 DEF McpTypes, JobIds
      <3>2. submitted' \in [1..Len(submitted) -> McpJobs]
        BY <2>1, <2>3, <3>1
      <3>3. QED
        BY <3>1, <3>2
    <2>5. /\ call' \in [Conns -> McpWaits \cup {None}] /\ book' \in [Conns -> SUBSET Mcp!AllPlans]
          /\ \A c \in Conns : call'[c] = None /\ book'[c] = {}
      BY <2>1
    <2>6. QED
      BY <1>1, <2>1, <2>2, <2>3, <2>4, <2>5, JobsMove
  <1>3. CASE Mcp!Enter
    <2>1. /\ UNCHANGED <<kept, submitted, yes, book, call>> /\ recovered' = TRUE /\ ~recovered
          /\ enqueued' = {j \in JobIds : submitted[j].state \notin Mcp!Terminal}
      BY <1>3 DEF Mcp!Enter, Mcp!Over, JobIds
    <2>2. \A c \in Conns : call[c] = None
      BY <2>1 DEF McpInv, Waiters
    <2>3. \A j \in JobIds : submitted[j].state \in {"open", "cancelled", "ended"}
      BY JobsAre DEF McpJobs
    <2>4. Queued'
      BY <2>1, <2>3 DEF Queued, JobIds, Mcp!Terminal
    <2>5. QED
      BY <1>1, <2>1, <2>2, <2>4, EndsKeep DEF McpTypes
  <1>4. QED
    BY <1>2, <1>3

\* One job goes on, ends, is asked to stop or loses a file.
LEMMA JobMoves ==
    ASSUME McpInv, UNCHANGED <<client, kept, recovered, book, call, yes>>, Mcp!AnswersServe',
           NEW j \in JobIds, NEW job \in McpJobs, submitted' = [submitted EXCEPT ![j] = job],
           enqueued' = IF job.state = "open" THEN enqueued ELSE enqueued \ {j},
           job.state = "open" => submitted[j].state = "open",
           job.plan = submitted[j].plan, job.of = submitted[j].of, job.by = submitted[j].by,
           job.said = submitted[j].said, job.done \subseteq submitted[j].plan.outs,
           job.at # None => job.at \in submitted[j].plan.outs,
           submitted[j].state \in Mcp!Terminal => job.done \subseteq submitted[j].done
    PROVE  McpInv'
  <1>1. submitted \in Seq(McpJobs) /\ enqueued \subseteq JobIds /\ JobIds = 1..Len(submitted)
    BY DEF McpInv, McpTypes, JobIds
  <1>2. submitted' \in Seq(McpJobs) /\ Len(submitted') = Len(submitted)
        /\ submitted'[j] = job /\ \A i \in JobIds \ {j} : submitted'[i] = submitted[i]
    BY <1>1
  <1>3. job.state # "open" => job.state \in Mcp!Terminal
    BY DEF Mcp!Terminal, McpJobs
  <1>4. /\ \A i \in enqueued : submitted[i].state = "open"
        /\ recovered => \A i \in JobIds : submitted[i].state = "open" => i \in enqueued
    BY DEF McpInv, Queued
  <1>5. \A i \in JobIds : submitted[i].done \subseteq submitted[i].plan.outs
                          /\ (submitted[i].at # None => submitted[i].at \in submitted[i].plan.outs)
    BY DEF McpInv, McpTypes
  <1>6. ASSUME NEW i \in JobIds
        PROVE  /\ submitted'[i].plan = submitted[i].plan /\ submitted'[i].of = submitted[i].of
               /\ submitted'[i].by = submitted[i].by /\ submitted'[i].said = submitted[i].said
               /\ submitted'[i].done \subseteq submitted[i].plan.outs
               /\ submitted'[i].at # None => submitted'[i].at \in submitted[i].plan.outs
               /\ submitted[i].state \in Mcp!Terminal =>
                     submitted'[i].state \in Mcp!Terminal /\ submitted'[i].done \subseteq submitted[i].done
    <2>1. CASE i = j
      BY <1>2, <1>3, <2>1 DEF Mcp!Terminal
    <2>2. CASE i # j
      BY <1>2, <1>5, <2>2
    <2>3. QED
      BY <2>1, <2>2
  <1>7. Queued'
    <2>1. JobIds' = JobIds
      BY <1>1, <1>2 DEF JobIds
    <2>2. CASE job.state = "open"
      BY <1>2, <1>4, <2>1, <2>2 DEF Queued
    <2>3. CASE job.state # "open"
      BY <1>2, <1>4, <2>1, <2>3 DEF Queued
    <2>4. QED
      BY <2>2, <2>3
  <1>8. /\ enqueued' \subseteq JobIds /\ recovered' \in BOOLEAN
        /\ call' \in [Conns -> McpWaits \cup {None}] /\ book' \in [Conns -> SUBSET Mcp!AllPlans]
    BY <1>1 DEF McpInv, McpTypes
  <1>9. QED
    BY <1>2, <1>6, <1>7, <1>8, JobsMove

LEMMA RunsKeep ==
    ASSUME McpInv, client' = client, NEW j \in JobIds,
           \/ \E c \in Conns : Mcp!Cancel(c, j)
           \/ \E o \in submitted[j].plan.outs : Mcp!Begin(j, o)
           \/ Mcp!Make(j) \/ Mcp!End(j) \/ Mcp!Damage(j)
    PROVE  McpInv'
  <1> DEFINE old == submitted[j]
  <1>1. /\ old \in McpJobs /\ old.done \subseteq old.plan.outs /\ old.plan \in Mcp!AllPlans
        /\ (old.at # None => old.at \in old.plan.outs)
    BY JobsAre DEF McpInv, McpTypes
  <1>2. old.plan.outs \subseteq Nat
    BY <1>1, PlansAre DEF Plans
  <1>3. old.state \in {"open", "cancelled", "ended"} /\ old.cancel \in BOOLEAN
    BY <1>1 DEF McpJobs
  <1>4. /\ j \in enqueued => old.state = "open" /\ old.state \notin Mcp!Terminal
        /\ old.state # "open" => enqueued = enqueued \ {j}
    BY DEF McpInv, Queued, Mcp!Terminal
  <1>5. ASSUME NEW c \in Conns, Mcp!Cancel(c, j)
        PROVE  McpInv'
    <2>1. PICK flag \in BOOLEAN : submitted' = [submitted EXCEPT ![j].cancel = flag]
      <3> DEFINE flag == old.cancel \/ ~Mcp!Over(j)
      <3>1. flag \in BOOLEAN
        OBVIOUS
      <3>2. submitted' = [submitted EXCEPT ![j].cancel = flag]
        BY <1>5 DEF Mcp!Cancel
      <3> HIDE DEF flag
      <3>3. QED
        BY <3>1, <3>2
    <2> DEFINE job == [old EXCEPT !.cancel = flag]
    <2>2. /\ UNCHANGED <<kept, recovered, book, call, yes, enqueued>>
          /\ submitted' = [submitted EXCEPT ![j] = job]
          /\ Mcp!Answers(Mcp!Good("job", Mcp!Data(j, 0, FALSE)))
      BY <1>5, <2>1 DEF Mcp!Cancel, Mcp!Only
    <2>3. Mcp!AnswersServe'
      BY <2>2, GoodServes
    <2>4. job \in McpJobs
      BY <1>1 DEF McpJobs
    <2>5. /\ job.plan = old.plan /\ job.of = old.of /\ job.by = old.by /\ job.said = old.said
          /\ job.done = old.done /\ job.at = old.at /\ job.state = old.state
      BY <1>1 DEF McpJobs
    <2> HIDE DEF job
    <2>6. QED
      BY <1>1, <1>4, <2>2, <2>3, <2>4, <2>5, JobMoves
  <1>6. ASSUME NEW o \in old.plan.outs, Mcp!Begin(j, o)
        PROVE  McpInv'
    <2> DEFINE job == [old EXCEPT !.at = o]
    <2>1. /\ UNCHANGED <<kept, recovered, book, call, yes, enqueued>> /\ j \in enqueued
          /\ submitted' = [submitted EXCEPT ![j] = job]
      BY <1>6 DEF Mcp!Begin
    <2>2. Mcp!AnswersServe'
      BY <1>6, SilenceServes DEF Mcp!Begin
    <2>3. job \in McpJobs
      BY <1>1, <1>2 DEF McpJobs
    <2>4. /\ job.plan = old.plan /\ job.of = old.of /\ job.by = old.by /\ job.said = old.said
          /\ job.done = old.done /\ job.at = o /\ job.state = old.state
      BY <1>1 DEF McpJobs
    <2> HIDE DEF job
    <2>5. QED
      BY <1>1, <1>4, <2>1, <2>2, <2>3, <2>4, JobMoves
  <1>7. ASSUME Mcp!Make(j)
        PROVE  McpInv'
    <2> DEFINE job == [old EXCEPT !.at = None, !.done = @ \cup {old.at}]
    <2>1. /\ UNCHANGED <<kept, recovered, book, call, yes, enqueued>> /\ j \in enqueued /\ old.at # None
          /\ submitted' = [submitted EXCEPT ![j] = job]
      BY <1>7 DEF Mcp!Make
    <2>2. Mcp!AnswersServe'
      BY <1>7, SilenceServes DEF Mcp!Make
    <2>3. job \in McpJobs
      BY <1>1, <1>2, <2>1 DEF McpJobs
    <2>4. /\ job.plan = old.plan /\ job.of = old.of /\ job.by = old.by /\ job.said = old.said
          /\ job.done = old.done \cup {old.at} /\ job.at = None /\ job.state = old.state
      BY <1>1 DEF McpJobs
    <2> HIDE DEF job
    <2>5. QED
      BY <1>1, <1>4, <2>1, <2>2, <2>3, <2>4, JobMoves
  <1>8. ASSUME Mcp!End(j)
        PROVE  McpInv'
    <2>1. PICK over \in Mcp!Terminal :
             submitted' = [submitted EXCEPT ![j] = [old EXCEPT !.at = None, !.state = over]]
      BY <1>8 DEF Mcp!End, Mcp!Terminal
    <2> DEFINE job == [old EXCEPT !.at = None, !.state = over]
    <2>2. /\ UNCHANGED <<kept, recovered, book, call, yes>> /\ enqueued' = enqueued \ {j} /\ j \in enqueued
      BY <1>8 DEF Mcp!End
    <2>3. Mcp!AnswersServe'
      BY <1>8, SilenceServes DEF Mcp!End
    <2>4. job \in McpJobs /\ job.state = over /\ job.state # "open"
      BY <1>1 DEF McpJobs, Mcp!Terminal
    <2>5. /\ job.plan = old.plan /\ job.of = old.of /\ job.by = old.by /\ job.said = old.said
          /\ job.done = old.done /\ job.at = None
      BY <1>1 DEF McpJobs
    <2> HIDE DEF job
    <2>6. QED
      BY <1>1, <1>4, <2>1, <2>2, <2>3, <2>4, <2>5, JobMoves DEF job
  <1>9. ASSUME Mcp!Damage(j)
        PROVE  McpInv'
    <2>1. PICK job : /\ submitted' = [submitted EXCEPT ![j] = job]
                     /\ \/ \E o \in old.done : job = [old EXCEPT !.done = @ \ {o}]
                        \/ job = [old EXCEPT !.whole = FALSE]
      BY <1>9 DEF Mcp!Damage
    <2>2. /\ UNCHANGED <<kept, recovered, book, call, yes, enqueued>> /\ old.state # "open"
      BY <1>9 DEF Mcp!Damage, Mcp!Over, Mcp!Terminal
    <2>3. Mcp!AnswersServe'
      BY <1>9, SilenceServes DEF Mcp!Damage
    <2>4. job \in McpJobs
      BY <1>1, <2>1 DEF McpJobs
    <2>5. job.plan = old.plan /\ job.of = old.of /\ job.by = old.by /\ job.said = old.said
          /\ job.done \subseteq old.done /\ job.state = old.state /\ job.at = old.at
      BY <1>1, <2>1 DEF McpJobs
    <2>6. QED
      BY <1>1, <1>4, <2>1, <2>2, <2>3, <2>4, <2>5, JobMoves
  <1>10. QED
    BY <1>5, <1>6, <1>7, <1>8, <1>9

\* What a confirmed call runs: the plan that was asked about, or the part of it that is missing.
LEMMA RunsAre ==
    ASSUME McpInv, NEW c \in Conns, NEW w \in McpWaits, w = call[c]
    PROVE  /\ WaitSound(w) /\ w.hash \in Mcp!AllPlans
           /\ Mcp!Runs(w) \in Mcp!AllPlans /\ Mcp!Runs(w).kind = "weather" /\ Mcp!Runs(w).outs # {}
           /\ Mcp!Runs(w).outs \subseteq w.hash.outs
           /\ w.hash = IF w.of = None THEN Mcp!Runs(w) ELSE submitted[w.of].plan
           /\ w.of # None => Mcp!Runs(w).outs \cap submitted[w.of].done = {}
  <1>1. WaitSound(w) /\ w.hash \in Mcp!AllPlans
    BY McpAssumption DEF McpAssumption, McpInv, Waiters, McpWaits
  <1>2. CASE w.of = None
    BY <1>1, <1>2 DEF WaitSound, Mcp!Runs
  <1>3. CASE w.of # None
    <2> DEFINE missing == Mcp!Unmet(w.of)
    <2>1. /\ submitted[w.of].plan = w.hash /\ missing = w.hash.outs \ submitted[w.of].done /\ missing # {}
          /\ w.hash.kind = "weather"
      BY <1>1, <1>3 DEF WaitSound, Mcp!Unmet
    <2>2. Mcp!Runs(w) = Mcp!Subplan(w.hash, missing)
      BY <1>3, <2>1 DEF Mcp!Runs
    <2> HIDE DEF missing
    <2>3. /\ Mcp!Runs(w) \in Mcp!AllPlans /\ Mcp!Runs(w).kind = "weather" /\ Mcp!Runs(w).outs = missing
      BY <1>1, <2>1, <2>2, PartsAre
    <2>4. QED
      BY <1>1, <1>3, <2>1, <2>3
  <1>4. QED
    BY <1>2, <1>3

\* The new job is at the end, and the jobs before it stay where they are.
LEMMA JobAdded ==
    ASSUME McpInv, NEW job \in McpJobs, submitted' = Append(submitted, job)
    PROVE  LET n == Len(submitted) + 1 IN
           /\ submitted' \in Seq(McpJobs) /\ JobIds' = JobIds \cup {n} /\ n \notin JobIds /\ n \in Nat
           /\ submitted'[n] = job /\ \A j \in JobIds : submitted'[j] = submitted[j]
  BY DEF McpInv, McpTypes, JobIds

LEMMA JobStarts ==
    ASSUME McpInv, UNCHANGED <<client, kept, recovered, book, yes>>, Mcp!AnswersServe',
           NEW c \in Conns, NEW w \in McpWaits, w = call[c], w.answer = TRUE, call' = [call EXCEPT ![c] = None],
           NEW n \in Nat, n \notin JobIds, JobIds' = JobIds \cup {n}, enqueued' = enqueued \cup {n},
           submitted' \in Seq(McpJobs), \A j \in JobIds : submitted'[j] = submitted[j],
           NEW job \in McpJobs, submitted'[n] = job,
           job.plan = Mcp!Runs(w), job.of = w.of, job.by = c, job.said = w.hash, job.state = "open", job.done = {},
           job.at = None
    PROVE  McpInv'
  <1>1. w.of \in Nat \cup {None} /\ w.hash \in Mcp!AllPlans
    BY RunsAre DEF McpWaits
  <1>2. McpTypes /\ Queued
    BY DEF McpInv
  <1>3. call' \in [Conns -> McpWaits \cup {None}] /\ call'[c] = None /\ \A d \in Conns \ {c} : call'[d] = call[d]
    BY <1>2 DEF McpTypes
  <1>4. McpTypes'
    <2>1. \A j \in JobIds' : submitted'[j].done \subseteq submitted'[j].plan.outs
             /\ (submitted'[j].at # None => submitted'[j].at \in submitted'[j].plan.outs)
      BY <1>2, JobsAre DEF McpTypes
    <2>2. QED
      BY <1>2, <1>3, <2>1 DEF McpTypes
  <1>5. Queued'
    <2>1. ASSUME NEW j \in enqueued'
          PROVE  submitted'[j].state = "open"
      <3>1. j \in enqueued => j \in JobIds /\ submitted[j].state = "open"
        BY <1>2 DEF Queued, McpTypes
      <3>2. QED
        BY <3>1
    <2>2. ASSUME recovered', NEW j \in JobIds', submitted'[j].state = "open"
          PROVE  j \in enqueued'
      BY <1>2, <2>2 DEF Queued
    <2>3. QED
      BY <2>1, <2>2 DEF Queued
  <1>6. Waiters'
    <2> SUFFICES ASSUME NEW d \in Conns, call'[d] # None PROVE recovered' /\ WaitSound(call[d])'
      BY DEF Waiters
    <2>1. PICK v : v = call[d]
      OBVIOUS
    <2>2. recovered /\ WaitSound(v) /\ call'[d] = v
      BY <1>3, <2>1 DEF McpInv, Waiters
    <2>3. v.of # None => v.of \in JobIds' /\ submitted'[v.of] = submitted[v.of]
      BY <2>2 DEF WaitSound
    <2>4. WaitSound(v)'
      BY <2>2, <2>3 DEF WaitSound
    <2>5. QED
      BY <2>2, <2>4
  <1>7. Granted(c, w.hash) /\ Approved(c, w.hash) /\ yes[c][w.hash] > 0
    BY <1>1, McpAssumption DEF McpAssumption, Granted, McpInv, Approved
  <1>8. ASSUME NEW j \in JobIds'
         PROVE  JobSound(j)'
    <2>1. CASE j \in JobIds
      <3>1. JobSound(j)
        BY <2>1 DEF McpInv
      <3>2. QED
        BY <2>1, <3>1 DEF JobSound
    <2>2. CASE j = n
      <3>1. submitted'[j] = job /\ yes' = yes
        BY <2>2
      <3>2. w.of # None => w.of \in JobIds /\ submitted[w.of].state \in Mcp!Terminal /\ submitted'[w.of] = submitted[w.of]
        BY RunsAre DEF WaitSound
      <3>3. /\ submitted'[j].plan = Mcp!Runs(w) /\ submitted'[j].of = w.of /\ submitted'[j].by = c
            /\ submitted'[j].said = w.hash
        BY <3>1
      <3>4. /\ Mcp!Runs(w).kind = "weather" /\ Mcp!Runs(w).outs # {} /\ Mcp!Runs(w).outs \subseteq w.hash.outs
            /\ yes'[c][w.hash] > 0
        BY <1>7, <3>1, RunsAre
      <3>5. CASE w.of = None
        <4>1. w.hash = Mcp!Runs(w)
          BY <3>5, RunsAre
        <4>2. QED
          BY <3>3, <3>4, <3>5, <4>1 DEF JobSound
      <3>6. CASE w.of # None
        <4>1. /\ w.of \in JobIds' /\ submitted'[w.of].state \in Mcp!Terminal /\ submitted'[w.of].plan = w.hash
              /\ Mcp!Runs(w).outs \cap submitted'[w.of].done = {}
          <5>1. submitted[w.of].plan = w.hash /\ Mcp!Runs(w).outs \cap submitted[w.of].done = {}
            BY <3>6, RunsAre
          <5>2. submitted'[w.of] = submitted[w.of] /\ w.of \in JobIds
            BY <3>2, <3>6
          <5>3. QED
            BY <3>2, <3>6, <5>1, <5>2
        <4>2. QED
          BY <3>3, <3>4, <3>6, <4>1 DEF JobSound
      <3>7. QED
        BY <3>5, <3>6
    <2>3. QED
      BY <2>1, <2>2
  <1>9. ASSUME NEW d \in Conns, NEW p \in Mcp!AllPlans
         PROVE  Approved(d, p)'
    <2>1. CASE d = c /\ p = w.hash
      <3>1. Made(d, p)' = Made(d, p) \cup {n} /\ n \notin Made(d, p)
        <4>1. submitted'[n].by = d /\ submitted'[n].said = p
          BY <2>1
        <4>2. \A j : j \in Made(d, p)' <=> j \in Made(d, p) \cup {n}
          BY <4>1 DEF Made
        <4>3. QED
          BY <4>2 DEF Made
      <3>2. IsFiniteSet(Made(d, p)) /\ Cardinality(Made(d, p)) \in Nat
        BY <1>2, MadeCounted
      <3>3. Cardinality(Made(d, p) \cup {n}) = Cardinality(Made(d, p)) + 1
        BY <3>1, <3>2, FS_AddElement
      <3>4. Cardinality(Made(d, p)') = Cardinality(Made(d, p)) + 1
        BY <3>1, <3>3
      <3>5. ~Granted(d, p)' /\ Granted(d, p) /\ Approved(d, p)
        BY <1>3, <1>7, <2>1 DEF Granted
      <3>6. QED
        BY <3>2, <3>4, <3>5 DEF Approved, Spent
    <2>2. CASE d # c \/ p # w.hash
      <3>1. Made(d, p)' = Made(d, p)
        BY <2>2 DEF Made
      <3>2. Granted(d, p)' => Granted(d, p)
        BY <1>3 DEF Granted
      <3>3. QED
        BY <3>1, <3>2, ApprovedLess
    <2>3. QED
      BY <2>1, <2>2
  <1>10. QED
    BY <1>4, <1>5, <1>6, <1>8, <1>9 DEF McpInv

LEMMA ConfirmedKeeps ==
    ASSUME McpInv, client' = client, NEW c \in Conns, Mcp!Confirmed(c)
    PROVE  McpInv'
  <1>1. McpTypes /\ Queued /\ call[c] # None
    BY DEF McpInv, Mcp!Confirmed
  <1>2. PICK w \in McpWaits : w = call[c]
    BY <1>1 DEF McpTypes
  <1>3. /\ UNCHANGED <<kept, recovered, book, yes>> /\ call' = [call EXCEPT ![c] = None] /\ w.answer = TRUE
    BY <1>2 DEF Mcp!Confirmed
  <1>4. ASSUME NEW j \in Mcp!Prior(w), UNCHANGED <<submitted, enqueued>>,
               \/ Mcp!Fails("submit", "IDEMPOTENCY_CONFLICT")
               \/ Mcp!Answers(Mcp!Good("submit", Mcp!Data(j, 0, FALSE)))
        PROVE  McpInv'
    <2>1. j \in JobIds'
      BY <1>4 DEF Mcp!Prior, JobIds
    <2>2. Mcp!AnswersServe'
      BY <1>4, <2>1, FailsServe, GoodServes
    <2>3. call' \in [Conns -> McpWaits \cup {None}] /\ \A d \in Conns : call'[d] # None => call'[d] = call[d]
      BY <1>1, <1>3 DEF McpTypes
    <2>4. Queued'
      BY <1>1, <1>3, <1>4 DEF Queued, JobIds
    <2>5. QED
      BY <1>1, <1>3, <1>4, <2>2, <2>3, <2>4, EndsKeep DEF McpTypes
  <1>5. ASSUME submitted' = Append(submitted, Mcp!Job(c, w)), enqueued' = enqueued \cup {Len(submitted) + 1},
               Mcp!Answers(Mcp!Good("submit", Mcp!Data(Len(submitted) + 1, 0, FALSE)))
        PROVE  McpInv'
    <2>1. Len(submitted) + 1 \in JobIds'
      <3>1. submitted \in Seq(McpJobs)
        BY <1>1 DEF McpTypes
      <3> HIDE DEF JobIds
      <3> DEFINE job == Mcp!Job(c, w)
      <3> HIDE DEF job
      <3>2. Len(Append(submitted, job)) = Len(submitted) + 1 /\ DOMAIN Append(submitted, job) = 1..(Len(submitted) + 1)
            /\ Len(submitted) \in Nat
        BY <3>1
      <3>3. QED
        BY <1>5, <3>2 DEF JobIds, job
    <2>2. Mcp!AnswersServe'
      BY <1>5, <2>1, GoodServes
    <2> DEFINE job == Mcp!Job(c, w)
    <2>3. /\ job.plan = Mcp!Runs(w) /\ job.of = w.of /\ job.by = c /\ job.said = w.hash
          /\ job.state = "open" /\ job.done = {} /\ job.at = None
      BY DEF Mcp!Job
    <2>4. Mcp!Runs(w) \in Mcp!AllPlans /\ w.key \in Keys \cup {None} /\ w.of \in Nat \cup {None} /\ w.hash \in Mcp!AllPlans
      BY <1>2, RunsAre DEF McpWaits
    <2>5. job \in McpJobs
      BY <2>4 DEF McpJobs, Mcp!Job
    <2> HIDE DEF job
    <2>6. PICK n : n = Len(submitted) + 1
      OBVIOUS
    <2>7. /\ submitted' \in Seq(McpJobs) /\ JobIds' = JobIds \cup {n} /\ n \notin JobIds /\ n \in Nat
          /\ submitted'[n] = job /\ \A j \in JobIds : submitted'[j] = submitted[j]
      BY <1>5, <2>5, <2>6, JobAdded DEF job
    <2>8. enqueued' = enqueued \cup {n} /\ UNCHANGED <<client, kept, recovered, book, yes>>
      BY <1>3, <1>5, <2>6
    <2>9. QED
      BY <1>2, <1>3, <2>2, <2>3, <2>5, <2>7, <2>8, JobStarts
  <1>6. ASSUME NEW code, code \notin {"ok", "MCP_TOOL_ERROR"}, UNCHANGED <<submitted, enqueued>>,
               Mcp!Fails("submit", code)
        PROVE  McpInv'
    <2>1. call' \in [Conns -> McpWaits \cup {None}] /\ \A d \in Conns : call'[d] # None => call'[d] = call[d]
      BY <1>1, <1>3 DEF McpTypes
    <2>2. Queued' /\ Mcp!AnswersServe'
      BY <1>1, <1>3, <1>6, FailsServe DEF Queued, JobIds
    <2>3. QED
      BY <1>1, <1>3, <1>6, <2>1, <2>2, EndsKeep DEF McpTypes
  <1>7. w.of # None => Mcp!RetryRefused(w.of) \notin {"ok", "MCP_TOOL_ERROR"}
    <2>1. w.of # None => w.of \in JobIds
      BY <1>1, <1>2 DEF McpInv, Waiters, WaitSound
    <2>2. QED
      BY <2>1, RetryRefusalsAre
  <1>8. \/ /\ w.of # None /\ UNCHANGED <<submitted, enqueued>>
           /\ Mcp!Fails("submit", Mcp!RetryRefused(w.of))
        \/ \E j \in Mcp!Prior(w) :
              /\ UNCHANGED <<submitted, enqueued>>
              /\ \/ Mcp!Fails("submit", "IDEMPOTENCY_CONFLICT")
                 \/ Mcp!Answers(Mcp!Good("submit", Mcp!Data(j, 0, FALSE)))
        \/ /\ submitted' = Append(submitted, Mcp!Job(c, w)) /\ enqueued' = enqueued \cup {Len(submitted) + 1}
           /\ Mcp!Answers(Mcp!Good("submit", Mcp!Data(Len(submitted) + 1, 0, FALSE)))
    BY <1>2 DEF Mcp!Confirmed, Mcp!Fails, Mcp!Answers
  <1>9. QED
    BY <1>4, <1>5, <1>6, <1>7, <1>8

\* A cut goes on to where it should end, or to the end of the sequence.
Last(s, n) == IF n <= Len(s) THEN n ELSE Len(s)

LEMMA CutsAre ==
    ASSUME NEW S, NEW s \in Seq(S), NEW offset \in 0..Len(s), NEW limit \in Nat
    PROVE  /\ Last(s, offset + limit) \in offset..Len(s)
           /\ Mcp!Cut(s, offset, limit) \in Seq(S)
           /\ Len(Mcp!Cut(s, offset, limit)) = Last(s, offset + limit) - offset
           /\ \A i \in 1..(Last(s, offset + limit) - offset) : Mcp!Cut(s, offset, limit)[i] = s[offset + i]
  <1>0. PICK last : last = Last(s, offset + limit)
    OBVIOUS
  <1>1. Len(s) \in Nat /\ offset \in Nat /\ last \in offset..Len(s) /\ last \in Nat
    BY <1>0 DEF Last
  <1>2. Mcp!Min({offset + limit, Len(s)}) = last
    BY <1>0, <1>1 DEF Mcp!Min, Last
  <1>3. Mcp!Cut(s, offset, limit) = SubSeq(s, offset + 1, last)
    BY <1>2 DEF Mcp!Cut
  <1>4. \A i \in (offset + 1)..last : s[i] \in S
    BY <1>1
  <1>5. /\ SubSeq(s, offset + 1, last) \in Seq(S)
        /\ Len(SubSeq(s, offset + 1, last)) = IF offset + 1 <= last THEN last - (offset + 1) + 1 ELSE 0
        /\ \A i \in 1..(last - (offset + 1) + 1) : SubSeq(s, offset + 1, last)[i] = s[(offset + 1) + i - 1]
    <2>1. offset + 1 \in Int /\ last \in Int
      BY <1>1
    <2>2. QED
      BY <1>4, <2>1, SubSeqProperties
  <1>6. last - (offset + 1) + 1 = last - offset
        /\ (IF offset + 1 <= last THEN last - (offset + 1) + 1 ELSE 0) = last - offset
        /\ \A i \in Int : (offset + 1) + i - 1 = offset + i
    BY <1>1
  <1>7. QED
    BY <1>0, <1>1, <1>3, <1>5, <1>6

LEMMA FirstCutsAre ==
    ASSUME NEW S, NEW s \in Seq(S), NEW limit \in Nat
    PROVE  /\ Mcp!Cut(s, 0, limit) \in Seq(S) /\ Len(Mcp!Cut(s, 0, limit)) = Last(s, limit)
           /\ \A i \in 1..Last(s, limit) : Mcp!Cut(s, 0, limit)[i] = s[i]
  <1>1. PICK zero : zero = 0
    OBVIOUS
  <1>2. zero \in 0..Len(s) /\ zero + limit = limit
    BY <1>1
  <1>3. /\ Mcp!Cut(s, zero, limit) \in Seq(S) /\ Len(Mcp!Cut(s, zero, limit)) = Last(s, zero + limit) - zero
        /\ \A i \in 1..(Last(s, zero + limit) - zero) : Mcp!Cut(s, zero, limit)[i] = s[zero + i]
    BY <1>2, CutsAre, Zenon
  <1>4. Last(s, limit) - zero = Last(s, limit) /\ \A i \in 1..Last(s, limit) : zero + i = i
    BY <1>1 DEF Last
  <1>5. QED
    BY <1>1, <1>2, <1>3, <1>4

\* Cuts that follow each other join, and a sequence is cut exactly if it is longer.
LEMMA CutsJoin ==
    ASSUME NEW S, NEW s \in Seq(S), NEW n \in 0..Len(s), NEW m \in Nat
    PROVE  Mcp!Cut(s, 0, n) \o Mcp!Cut(s, n, m) = Mcp!Cut(s, 0, n + m)
  <1> DEFINE last == Last(s, n + m)
             first == Mcp!Cut(s, 0, n)
             next == Mcp!Cut(s, n, m)
             both == Mcp!Cut(s, 0, n + m)
  <1>1. Len(s) \in Nat /\ n \in Nat /\ n + m \in Nat /\ last \in n..Len(s) /\ n = Last(s, n)
    BY DEF Last
  <1>2. first \in Seq(S) /\ Len(first) = n /\ \A i \in 1..n : first[i] = s[i]
    BY <1>1, FirstCutsAre, Zenon
  <1>3. next \in Seq(S) /\ Len(next) = last - n /\ \A i \in 1..(last - n) : next[i] = s[n + i]
    BY CutsAre, Zenon
  <1>4. both \in Seq(S) /\ Len(both) = last /\ \A i \in 1..last : both[i] = s[i]
    BY <1>1, FirstCutsAre, Zenon
  <1> HIDE DEF first, next, both, last
  <1>5. /\ first \o next \in Seq(S) /\ Len(first \o next) = last
        /\ \A i \in 1..last : (first \o next)[i] = IF i <= n THEN first[i] ELSE next[i - n]
    <2>1. Len(first) + Len(next) = last
      BY <1>1, <1>2, <1>3
    <2>2. QED
      BY <1>2, <1>3, <2>1, ConcatProperties
  <1>6. ASSUME NEW i \in 1..last
        PROVE  (first \o next)[i] = both[i]
    <2>1. CASE i <= n
      <3>1. i \in 1..n
        BY <1>1, <2>1
      <3>2. first[i] = s[i]
        BY <1>2, <3>1
      <3>3. QED
        BY <1>4, <1>5, <2>1, <3>2
    <2>2. CASE ~(i <= n)
      <3>1. i - n \in 1..(last - n) /\ n + (i - n) = i
        BY <1>1, <2>2
      <3>2. next[i - n] = s[i]
        BY <1>3, <3>1
      <3>3. QED
        BY <1>4, <1>5, <2>2, <3>2
    <2>3. QED
      BY <2>1, <2>2
  <1>7. first \o next = both
    BY <1>4, <1>5, <1>6, SeqEqual
  <1>8. QED
    BY <1>7 DEF first, next, both

LEMMA CutsTell ==
    ASSUME NEW S, NEW s \in Seq(S), NEW n \in Nat
    PROVE  /\ Mcp!Cut(s, 0, Len(s)) = s
           /\ Len(s) > n <=> Mcp!Cut(s, 0, n) # s
  <1>1. Len(s) \in Nat /\ 0 \in 0..Len(s)
    OBVIOUS
  <1>2. ASSUME NEW m \in Nat, Len(s) <= m
        PROVE  Mcp!Cut(s, 0, m) = s
    <2>1. /\ Mcp!Cut(s, 0, m) \in Seq(S) /\ Len(Mcp!Cut(s, 0, m)) = Len(s)
          /\ \A i \in 1..Len(s) : Mcp!Cut(s, 0, m)[i] = s[i]
      <3>1. Len(s) = Last(s, m)
        BY <1>1, <1>2 DEF Last
      <3>2. QED
        BY <3>1, FirstCutsAre, Zenon
    <2>2. QED
      BY <2>1, SeqEqual
  <1>3. ASSUME Len(s) > n
        PROVE  Len(Mcp!Cut(s, 0, n)) = n
    <2>1. n = Last(s, n)
      BY <1>1, <1>3 DEF Last
    <2>2. QED
      BY <2>1, FirstCutsAre, Zenon
  <1>4. QED
    <2>1. Mcp!Cut(s, 0, Len(s)) = s
      BY <1>1, <1>2
    <2>2. CASE Len(s) > n
      <3>1. Mcp!Cut(s, 0, n) # s
        BY <1>1, <1>3, <2>2
      <3>2. QED
        BY <2>1, <2>2, <3>1
    <2>3. CASE ~(Len(s) > n)
      <3>1. Mcp!Cut(s, 0, n) = s
        BY <1>1, <1>2, <2>3
      <3>2. QED
        BY <2>1, <2>3, <3>1
    <2>4. QED
      BY <2>2, <2>3

LEMMA PagesAlwaysCover == McpInv => Mcp!PagesCover
  <1> SUFFICES ASSUME McpInv, NEW p \in kept
               PROVE  /\ \A n \in 0..Len(Mcp!Rows(p)) :
                            Mcp!Page(p, 0, n) \o Mcp!Page(p, n, PageSize) = Mcp!Page(p, 0, n + PageSize)
                      /\ Mcp!Page(p, 0, Len(Mcp!Rows(p))) = Mcp!Rows(p)
                      /\ Mcp!Truncated(p) <=> Mcp!Page(p, 0, PageSize) # Mcp!Rows(p)
    BY DEF Mcp!PagesCover
  <1>1. p \in Mcp!AllPlans /\ PageSize \in Nat
    BY McpAssumption DEF McpAssumption, McpInv, McpTypes
  <1>2. PICK n \in Nat : n = Cardinality(p.outs) /\ n = Mcp!Cardinality(p.outs)
    BY <1>1, PlansAre, SizesAgree
  <1>3. PICK s : s = Mcp!Rows(p)
    OBVIOUS
  <1>4. s = [i \in 1..n |-> CHOOSE o \in p.outs : Mcp!Cardinality({q \in p.outs : q <= o}) = i]
    BY <1>2, <1>3 DEF Mcp!Rows
  <1>5. PICK S : s \in Seq(S) /\ Len(s) = n
    <2> DEFINE at(i) == CHOOSE o \in p.outs : Mcp!Cardinality({q \in p.outs : q <= o}) = i
               T == {at(i) : i \in 1..n}
    <2>1. s = [i \in 1..n |-> at(i)]
      BY <1>4
    <2>2. \A i \in 1..n : at(i) \in T
      OBVIOUS
    <2> HIDE DEF at, T
    <2>3. s \in Seq(T) /\ Len(s) = n
      BY <2>1, <2>2
    <2>4. QED
      BY <2>3
  <1>6. Mcp!Truncated(p) <=> Len(s) > PageSize
    BY <1>2, <1>5 DEF Mcp!Truncated
  <1>7. ASSUME NEW m \in 0..Len(s)
        PROVE  Mcp!Page(p, 0, m) \o Mcp!Page(p, m, PageSize) = Mcp!Page(p, 0, m + PageSize)
    BY <1>1, <1>3, <1>5, CutsJoin DEF Mcp!Page
  <1>8. Mcp!Page(p, 0, Len(s)) = s /\ (Len(s) > PageSize <=> Mcp!Page(p, 0, PageSize) # s)
    BY <1>1, <1>3, <1>5, CutsTell DEF Mcp!Page
  <1>9. QED
    BY <1>3, <1>6, <1>7, <1>8

LEMMA McpBegins == RootInit => McpInv
  <1> SUFFICES ASSUME RootInit PROVE McpInv
    OBVIOUS
  <1> USE McpAssumption DEF McpAssumption
  <1>1. PICK s \in Cases : client = s.client /\ kept = s.kept /\ submitted = s.jobs
    BY DEF RootInit, Mcp!Init
  <1>2. /\ enqueued = {} /\ recovered = FALSE /\ book = [c \in Conns |-> {}]
        /\ call = [c \in Conns |-> None] /\ reply = None /\ yes = [c \in Conns |-> [p \in Mcp!AllPlans |-> 0]]
    BY DEF RootInit, Mcp!Init
  <1>3. \A j \in JobIds : submitted[j].by = None /\ submitted[j].of = None /\ submitted[j].state = "ended"
                          /\ submitted[j].done \subseteq submitted[j].plan.outs /\ submitted[j].at = None
    BY <1>1 DEF JobIds
  <1>4. McpTypes
    <2>1. client \in [Conns -> {"host", "stdio", "own", "bare"}] /\ kept \subseteq Mcp!AllPlans
          /\ submitted \in Seq(McpJobs)
      BY <1>1
    <2>2. /\ book \in [Conns -> SUBSET Mcp!AllPlans] /\ call \in [Conns -> McpWaits \cup {None}]
          /\ yes \in [Conns -> [Mcp!AllPlans -> Nat]]
      BY <1>2
    <2>3. QED
      BY <1>2, <1>3, <2>1, <2>2 DEF McpTypes
  <1>5. Queued /\ Waiters /\ Mcp!AnswersServe
    BY <1>2 DEF Queued, Waiters, Mcp!AnswersServe
  <1>6. \A j \in JobIds : JobSound(j)
    BY <1>3 DEF JobSound
  <1>7. ASSUME NEW c \in Conns, NEW p \in Mcp!AllPlans
        PROVE  Approved(c, p)
    <2>1. Made(c, p) = {}
      BY <1>3 DEF Made
    <2>2. Cardinality(Made(c, p)) = 0
      BY <2>1, FS_EmptySet
    <2>3. ~Granted(c, p) /\ p \notin book[c] /\ yes[c][p] = 0
      BY <1>2 DEF Granted
    <2>4. QED
      BY <2>2, <2>3 DEF Approved, Spent
  <1>8. QED
    BY <1>4, <1>5, <1>6, <1>7 DEF McpInv

LEMMA McpStays == ASSUME McpInv, UNCHANGED mcpVars PROVE McpInv'
  <1>1. UNCHANGED <<client, kept, submitted, enqueued, recovered, book, call, reply, yes>>
    BY DEF mcpVars
  <1>2. McpTypes /\ Queued /\ Mcp!AnswersServe
    BY DEF McpInv
  <1>3. Queued' /\ Mcp!AnswersServe'
    BY <1>1, <1>2 DEF Queued, JobIds, Mcp!AnswersServe
  <1>4. QED
    BY <1>1, <1>2, <1>3, EndsKeep DEF McpTypes

LEMMA McpKeeps == ASSUME McpInv, Mcp!Next PROVE McpInv'
  <1>1. client' = client
    BY DEF Mcp!Next
  <1>2. \A c \in Conns : DOMAIN yes[c] = Mcp!AllPlans
    BY DEF McpInv, McpTypes
  <1>3. DOMAIN submitted = JobIds
    BY DEF JobIds
  <1>4. CASE Mcp!Restart \/ Mcp!Enter
    BY <1>1, <1>4, RestartKeeps
  <1>5. ASSUME NEW c \in Conns,
               \/ Mcp!Plan(c) \/ Mcp!Look(c) \/ Mcp!Register(c) \/ Mcp!Answer(c) \/ Mcp!Decide(c)
               \/ Mcp!Declined(c) \/ Mcp!Confirmed(c) \/ Mcp!Vanish(c)
        PROVE  McpInv'
    BY <1>1, <1>5, ToolsKeep, AnswerKeeps, DecideKeeps, DeclinedKeeps, ConfirmedKeeps
  <1>6. ASSUME NEW c \in Conns, NEW p \in Mcp!AllPlans,
               Mcp!Approve(c, p) \/ \E k \in Keys \cup {None} : Mcp!Submit(c, p, k)
        PROVE  McpInv'
    BY <1>1, <1>6, ApproveKeeps, SubmissionsKeep
  <1>7. ASSUME NEW c \in Conns, NEW p \in Given, NEW k \in Keys \cup {None}, Mcp!Fetch(c, p, k)
        PROVE  McpInv'
    <2>1. p \in Mcp!AllPlans
      BY DEF Mcp!AllPlans
    <2>2. QED
      BY <1>1, <1>7, <2>1, SubmissionsKeep
  <1>8. ASSUME NEW c \in Conns, NEW j \in JobIds,
               \/ Mcp!InspectJob(c, j) \/ Mcp!InspectArtifact(c, j) \/ Mcp!Cancel(c, j)
               \/ \E k \in Keys \cup {None} : Mcp!Retry(c, j, k)
        PROVE  McpInv'
    BY <1>1, <1>8, InspectionsKeep, RetriesKeep, RunsKeep
  <1>9. ASSUME NEW j \in JobIds,
               \/ Mcp!Damage(j) \/ Mcp!Make(j) \/ Mcp!End(j)
               \/ \E o \in submitted[j].plan.outs : Mcp!Begin(j, o)
        PROVE  McpInv'
    BY <1>1, <1>9, RunsKeep
  <1>10. QED
    BY <1>2, <1>3, <1>4, <1>5, <1>6, <1>7, <1>8, <1>9 DEF Mcp!Next

\* For any number of connections, plans and jobs, whatever is called, approved and restarted while a
\* confirmation is awaited: no job runs weather that its client's person was not asked about and no more
\* jobs run than were approved, a retry makes nothing its job has, every answer names what it is about
\* or a fixed code and no input, the pages of a plan join and cover it, and no job waits for a runner.
THEOREM McpAlwaysHolds == RootSpec => []McpHolds
  <1>1. RootInit => McpInv
    BY McpBegins
  <1>2. McpInv /\ [RootNext]_all => McpInv'
    <2> SUFFICES ASSUME McpInv, [RootNext]_all PROVE McpInv'
      OBVIOUS
    <2>1. Mcp!Next \/ UNCHANGED mcpVars
      BY DEF RootNext, all
    <2>2. QED
      BY <2>1, McpStays, McpKeeps
  <1>3. McpInv => McpHolds
    <2> SUFFICES ASSUME McpInv PROVE Mcp!McpHolds
      BY DEF McpHolds
    <2>1. McpTypes /\ Queued /\ Mcp!AnswersServe /\ JobIds = DOMAIN submitted
      BY DEF McpInv, JobIds
    <2>2. Mcp!Consented
      <3>1. ASSUME NEW j \in DOMAIN submitted, submitted[j].by # None
            PROVE  /\ submitted[j].plan.kind = "weather" /\ submitted[j].plan.outs # {}
                   /\ submitted[j].plan.outs \subseteq submitted[j].said.outs
                   /\ submitted[j].said = IF submitted[j].of = None THEN submitted[j].plan
                                          ELSE submitted[submitted[j].of].plan
                   /\ yes[submitted[j].by][submitted[j].said] > 0
        BY <2>1, <3>1 DEF McpInv, JobSound
      <3>2. ASSUME NEW c \in Conns, client[c] # "stdio", NEW p \in DOMAIN yes[c]
            PROVE  Mcp!Cardinality({j \in DOMAIN submitted : submitted[j].by = c /\ submitted[j].said = p}) <= yes[c][p]
        <4>1. p \in Mcp!AllPlans
          BY <2>1 DEF McpTypes
        <4>2. Spent(c, p) <= yes[c][p] /\ yes[c][p] \in Nat
          BY <2>1, <3>2, <4>1 DEF McpInv, Approved, McpTypes
        <4>3. Cardinality(Made(c, p)) \in Nat
          BY <2>1, MadeCounted
        <4>4. Cardinality(Made(c, p)) <= yes[c][p]
          BY <4>2, <4>3 DEF Spent
        <4>5. Made(c, p) = {j \in DOMAIN submitted : submitted[j].by = c /\ submitted[j].said = p}
          BY DEF Made, JobIds
        <4>6. QED
          BY <4>4, <4>5, SizesAgree
      <3>3. QED
        BY <3>1, <3>2 DEF Mcp!Consented
    <2>3. Mcp!RetriesAreParts
      BY <2>1 DEF McpInv, JobSound, Mcp!RetriesAreParts
    <2>4. Mcp!NoneWaits
      <3>1. \A j \in JobIds : submitted[j].state \in {"open", "cancelled", "ended"}
        BY JobsAre DEF McpJobs
      <3>2. QED
        BY <2>1, <3>1 DEF Queued, Mcp!NoneWaits, Mcp!Over, Mcp!Terminal
    <2>5. QED
      BY <2>1, <2>2, <2>3, <2>4, PagesAlwaysCover DEF Mcp!McpHolds
  <1>4. QED
    BY <1>1, <1>2, <1>3, PTL DEF RootSpec
-----------------------------------------------------------------------------
(* Future: every file is made of the member its output was planned for.    *)

\* An output finds its member at its index, or at its place while it has no index; plans of an
\* older version have no ids.
SoundOutput(o) ==
    /\ DOMAIN o = {"place", "name", "id", "index"} /\ o.name \in 1..Len(plan.members)
    /\ o.id = IF asked.legacy THEN None ELSE o.name
    /\ IF o.index = None THEN o.place = o.name ELSE o.index = o.name
SoundItem(i) ==
    \A w \in i.weather : w.member = plan.members[w.output] /\ (Future!Pinned => w.version = plan.version)

\* A retry is of a job that has ended, and makes nothing whose file resolves.
Unresolved(j, o) ==
    \A i \in chain[j].items : \A w \in i.weather : w.output = o.name => <<j, i.key, w.output>> \in broken
SoundRetry(j) ==
    chain[j].of # None =>
        /\ chain[j].of \in DOMAIN chain /\ Future!Ended(chain[j].of)
        /\ \A o \in chain[j].outputs : Unresolved(chain[j].of, o)

\* What the rows of a job that has ended tell.
SoundRows(j) ==
    \A o \in chain[j].outputs :
        LET having == {i \in chain[j].items : \E w \in i.weather : w.output = o.name}
        IN IF chain[j].rows[o] = "succeeded" THEN having # {} ELSE \A i \in having : ~Future!Intact(j, i)
JobFields == {"outputs", "items", "of", "errors", "cancel", "state", "rows"}
SoundParts(j) ==
    /\ DOMAIN chain[j] = JobFields
    /\ \A o \in chain[j].outputs : SoundOutput(o)
    /\ \A i \in chain[j].items : SoundItem(i)
FutureJob(j) ==
    /\ SoundParts(j) /\ SoundRetry(j)
    /\ (Future!Ended(j) /\ ~asked.legacy) => SoundRows(j)

\* A run has the members that were planned; the items it does not keep have lost a file.
SoundMembers(source) ==
    source.state = "read" => \E v \in Nat :
        /\ source.members = [i \in 1..Len(plan.members) |-> [name |-> plan.members[i], version |-> v]]
        /\ Future!Pinned => v = plan.version
RunFields == {"job", "todo", "at", "kept", "source", "phase", "done", "errors"}
FutureRun ==
    /\ DOMAIN run = RunFields
    /\ run.job \in DOMAIN chain /\ ~Future!Ended(run.job) /\ run.todo \subseteq chain[run.job].outputs
    /\ run.phase \in {"source", "make", "save"} => run.at \in chain[run.job].outputs
    /\ run.phase = "make" => run.source.state = "read"
    /\ SoundMembers(run.source)
    /\ run.kept \subseteq chain[run.job].items
    /\ \A i \in chain[run.job].items \ run.kept : ~Future!Intact(run.job, i)

ChainTyped == chain \in Seq({chain[j] : j \in DOMAIN chain})
PlanStands == chain # <<>> => plan.members = Future!Members(plan.version)
FutureInv ==
    /\ version \in Nat /\ ChainTyped /\ PlanStands
    /\ \A j \in DOMAIN chain : FutureJob(j)
    /\ run # None => FutureRun

\* The jobs are a sequence.
LEMMA ChainIs ==
    ASSUME ChainTyped
    PROVE  Len(chain) \in Nat /\ DOMAIN chain = 1..Len(chain) /\ (chain = <<>> <=> DOMAIN chain = {})
  <1>1. Len(chain) \in Nat /\ DOMAIN chain = 1..Len(chain)
    BY LenProperties DEF ChainTyped
  <1>2. chain = <<>> <=> Len(chain) = 0
    BY EmptySeq DEF ChainTyped
  <1>3. QED
    BY <1>1, <1>2

LEMMA FunctionsAreSequences ==
    ASSUME NEW S, NEW n \in Nat, NEW f \in [1..n -> S]
    PROVE  f \in Seq(S)
  <1> DEFINE functions == {[1..m -> S] : m \in Nat}
  <1>1. [1..n -> S] \in functions
    OBVIOUS
  <1>2. f \in UNION functions
    BY <1>1
  <1>3. QED
    BY <1>2, SeqDef, Zenon

\* One job of them changes.
LEMMA ChainMoves ==
    ASSUME ChainTyped, NEW j \in DOMAIN chain, NEW x, chain' = [chain EXCEPT ![j] = x]
    PROVE  /\ ChainTyped' /\ DOMAIN chain' = DOMAIN chain /\ chain'[j] = x
           /\ \A k \in DOMAIN chain : k # j => chain'[k] = chain[k]
  <1> DEFINE S == {chain'[k] : k \in DOMAIN chain'}
  <1>1. DOMAIN chain' = DOMAIN chain /\ chain'[j] = x /\ \A k \in DOMAIN chain : k # j => chain'[k] = chain[k]
    OBVIOUS
  <1>2. Len(chain) \in Nat /\ DOMAIN chain = 1..Len(chain)
    BY ChainIs
  <1>3. chain' = [k \in 1..Len(chain) |-> chain'[k]]
    BY <1>2
  <1>4. \A k \in 1..Len(chain) : chain'[k] \in S
    BY <1>1, <1>2
  <1>5. chain' \in [1..Len(chain) -> S]
    BY <1>3, <1>4
  <1>6. chain' \in Seq(S)
    BY <1>2, <1>5, FunctionsAreSequences
  <1>7. QED
    BY <1>1, <1>6 DEF ChainTyped

\* One is added.
LEMMA ChainGrows ==
    ASSUME ChainTyped, NEW x, chain' = Append(chain, x)
    PROVE  LET n == Len(chain) + 1 IN
           /\ ChainTyped' /\ DOMAIN chain' = DOMAIN chain \cup {n} /\ n \notin DOMAIN chain /\ n \in Nat
           /\ chain'[n] = x /\ \A k \in DOMAIN chain : chain'[k] = chain[k]
  <1> DEFINE n == Len(chain) + 1
             S == {chain'[k] : k \in DOMAIN chain'}
             T == {chain[k] : k \in DOMAIN chain} \cup {x}
  <1>1. Len(chain) \in Nat /\ DOMAIN chain = 1..Len(chain)
    BY ChainIs
  <1>2. chain \in Seq(T) /\ x \in T
    BY <1>1, LenProperties, SeqDef DEF ChainTyped
  <1>3. chain' \in Seq(T) /\ Len(chain') = n /\ chain'[n] = x /\ \A k \in 1..Len(chain) : chain'[k] = chain[k]
    BY <1>2, AppendProperties
  <1>4. DOMAIN chain' = 1..n /\ chain' = [k \in 1..n |-> chain'[k]]
    BY <1>3, LenProperties
  <1>5. chain' \in [1..n -> S]
    BY <1>4
  <1>6. chain' \in Seq(S)
    <2>1. n \in Nat
      BY <1>1
    <2> HIDE DEF n
    <2>2. QED
      BY <1>5, <2>1, FunctionsAreSequences
  <1>7. QED
    BY <1>1, <1>3, <1>4, <1>6 DEF ChainTyped

\* A job that has not ended may change as long as its outputs, and what it is a retry of, stay.
LEMMA JobChanges ==
    ASSUME FutureInv, UNCHANGED <<plan, asked>>,
           NEW j \in DOMAIN chain, NEW x, ~Future!Ended(j), chain' = [chain EXCEPT ![j] = x],
           DOMAIN x = JobFields, x.outputs = chain[j].outputs, x.of = chain[j].of,
           \A i \in x.items : SoundItem(i),
           \A d \in broken : d[1] # j => d \in broken',
           (Future!Ended(j)' /\ ~asked.legacy) => SoundRows(j)'
    PROVE  ChainTyped' /\ DOMAIN chain' = DOMAIN chain /\ \A k \in DOMAIN chain' : FutureJob(k)'
  <1>1. /\ ChainTyped' /\ DOMAIN chain' = DOMAIN chain /\ chain'[j] = x
        /\ \A k \in DOMAIN chain : k # j => chain'[k] = chain[k]
    BY ChainMoves DEF FutureInv
  <1>2. ASSUME NEW k \in DOMAIN chain
        PROVE  SoundParts(k)'
    <2>1. FutureJob(k) /\ FutureJob(j)
      BY DEF FutureInv
    <2>2. \A o : SoundOutput(o)' <=> SoundOutput(o)
      BY DEF SoundOutput
    <2>3. \A i : SoundItem(i)' <=> SoundItem(i)
      BY DEF SoundItem, Future!Pinned
    <2>4. CASE k = j
      BY <1>1, <2>1, <2>2, <2>3, <2>4 DEF FutureJob, SoundParts
    <2>5. CASE k # j
      BY <1>1, <2>1, <2>2, <2>3, <2>5 DEF FutureJob, SoundParts
    <2>6. QED
      BY <2>4, <2>5
  <1>3. ASSUME NEW k \in DOMAIN chain
        PROVE  SoundRetry(k)'
    <2> SUFFICES ASSUME chain'[k].of # None
                 PROVE  /\ chain'[k].of \in DOMAIN chain' /\ Future!Ended(chain[k].of)'
                        /\ \A o \in chain'[k].outputs : Unresolved(chain[k].of, o)'
      <3>1. chain'[k].of = chain[k].of
        BY <1>1
      <3>2. QED
        BY <3>1 DEF SoundRetry, Unresolved, Future!Ended
    <2> DEFINE f == chain[k].of
    <2>1. chain'[k].of = f /\ chain'[k].outputs = chain[k].outputs
      BY <1>1
    <2>2. f \in DOMAIN chain /\ Future!Ended(f) /\ \A o \in chain[k].outputs : Unresolved(f, o)
      BY <2>1 DEF FutureInv, FutureJob, SoundRetry
    <2>3. f # j /\ chain'[f] = chain[f]
      BY <1>1, <2>2
    <2>4. ASSUME NEW o \in chain[k].outputs
          PROVE  Unresolved(f, o)'
      BY <2>2, <2>3, <2>4 DEF Unresolved
    <2>5. Future!Ended(f)'
      BY <2>2, <2>3 DEF Future!Ended
    <2>6. QED
      BY <1>1, <2>1, <2>2, <2>4, <2>5
  <1>4. ASSUME NEW k \in DOMAIN chain, Future!Ended(k)', ~asked.legacy
        PROVE  SoundRows(k)'
    <2>1. CASE k # j
      <3>1. chain'[k] = chain[k]
        BY <1>1, <2>1
      <3>2. Future!Ended(k)
        BY <1>4, <3>1 DEF Future!Ended
      <3>3. SoundRows(k)
        BY <1>4, <3>2 DEF FutureInv, FutureJob
      <3>4. \A i \in chain[k].items : ~Future!Intact(k, i) => ~Future!Intact(k, i)'
        BY <2>1 DEF Future!Intact
      <3>5. QED
        BY <3>1, <3>3, <3>4 DEF SoundRows
    <2>2. QED
      BY <1>4, <2>1
  <1>5. QED
    BY <1>1, <1>2, <1>3, <1>4 DEF FutureJob

\* Jobs that do not change stay sound while more files are lost.
LEMMA JobsStay ==
    ASSUME FutureInv, UNCHANGED <<chain, plan, asked>>, broken \subseteq broken'
    PROVE  ChainTyped' /\ \A k \in DOMAIN chain' : FutureJob(k)'
  <1>1. ChainTyped'
    BY DEF FutureInv, ChainTyped
  <1>2. ASSUME NEW k \in DOMAIN chain
        PROVE  FutureJob(k)'
    <2>1. FutureJob(k)
      BY DEF FutureInv
    <2>2. SoundParts(k)'
      BY <2>1 DEF FutureJob, SoundParts, SoundOutput, SoundItem, Future!Pinned
    <2>3. SoundRetry(k)'
      BY <2>1 DEF FutureJob, SoundRetry, Unresolved, Future!Ended
    <2>4. SoundRows(k) => SoundRows(k)'
      <3>1. \A i : ~Future!Intact(k, i) => ~Future!Intact(k, i)'
        BY DEF Future!Intact
      <3>2. QED
        BY <3>1 DEF SoundRows
    <2>5. QED
      BY <2>1, <2>2, <2>3, <2>4 DEF FutureJob, Future!Ended
  <1>3. QED
    BY <1>1, <1>2

LEMMA Unmoved ==
    ASSUME UNCHANGED <<plan, asked, chain, broken>>
    PROVE  /\ \A source : SoundMembers(source)' <=> SoundMembers(source)
           /\ \A j : (Future!Ended(j)' <=> Future!Ended(j)) /\ \A i : Future!Intact(j, i)' <=> Future!Intact(j, i)
  BY DEF SoundMembers, Future!Pinned, Future!Ended, Future!Intact

\* The run stays sound while jobs change other fields and more files are lost.
LEMMA RunStays ==
    ASSUME FutureInv, UNCHANGED <<run, plan, asked>>, DOMAIN chain \subseteq DOMAIN chain', broken \subseteq broken',
           \A j \in DOMAIN chain : /\ chain'[j].outputs = chain[j].outputs /\ chain'[j].items = chain[j].items
                                   /\ chain'[j].state = chain[j].state
    PROVE  run' # None => FutureRun'
  <1> SUFFICES ASSUME run # None PROVE FutureRun'
    OBVIOUS
  <1> DEFINE j == run.job
  <1>1. FutureRun /\ j \in DOMAIN chain
    BY DEF FutureInv, FutureRun
  <1>2. chain'[j].outputs = chain[j].outputs /\ chain'[j].items = chain[j].items /\ chain'[j].state = chain[j].state
    BY <1>1
  <1>3. SoundMembers(run.source)'
    BY <1>1 DEF FutureRun, SoundMembers, Future!Pinned
  <1>4. \A i : ~Future!Intact(j, i) => ~Future!Intact(j, i)'
    BY DEF Future!Intact
  <1>5. ~Future!Ended(j)'
    BY <1>1, <1>2 DEF FutureRun, Future!Ended
  <1>6. QED
    BY <1>1, <1>2, <1>3, <1>4, <1>5 DEF FutureRun

\* A version names the same members before and after a step that leaves the request alone.
LEMMA MembersKeep ==
    ASSUME UNCHANGED <<asked, holdings>>
    PROVE  \A v : Future!Members(v)' = Future!Members(v)
  <1>1. Future!Selected' = Future!Selected
    <2>1. Future!Offered' = Future!Offered
      BY DEF Future!Offered
    <2>2. Future!Sorted(Future!Offered)' = Future!Sorted(Future!Offered)
      BY <2>1
    <2>3. QED
      BY <2>2 DEF Future!Selected
  <1>2. \A v : Future!Kept(v)' = Future!Kept(v)
    BY DEF Future!Kept
  <1>3. QED
    BY <1>1, <1>2 DEF Future!Members

LEMMA PlanStays ==
    ASSUME PlanStands, UNCHANGED <<asked, holdings, plan>>, chain # <<>> \/ chain' = <<>>
    PROVE  PlanStands'
  BY MembersKeep DEF PlanStands

\* A step about the run that leaves the jobs and the files alone.
LEMMA RunChanges ==
    ASSUME FutureInv, UNCHANGED <<asked, holdings, version, plan, chain, broken>>, run' # None => FutureRun'
    PROVE  FutureInv'
  <1>1. ChainTyped' /\ \A k \in DOMAIN chain' : FutureJob(k)'
    BY JobsStay
  <1>2. PlanStands'
    BY PlanStays DEF FutureInv
  <1>3. QED
    BY <1>1, <1>2 DEF FutureInv

LEMMA PicksKeep ==
    ASSUME FutureInv, Future!Skip \/ Future!Pick
    PROVE  FutureInv'
  <1>1. UNCHANGED <<asked, holdings, version, plan, chain, broken>>
    BY DEF Future!Skip, Future!Pick
  <1>2. FutureRun
    BY DEF FutureInv, Future!Skip, Future!Pick
  <1>3. PICK o \in run.todo : run' = [run EXCEPT !.todo = @ \ {o}]
                              \/ run' = [run EXCEPT !.todo = @ \ {o}, !.at = o, !.phase = "source"]
    BY DEF Future!Skip, Future!Pick
  <1>4. /\ DOMAIN run' = RunFields /\ run'.job = run.job /\ run'.kept = run.kept /\ run'.source = run.source
        /\ run'.todo = run.todo \ {o}
        /\ \/ run'.phase = run.phase /\ run'.at = run.at
           \/ run'.phase = "source" /\ run'.at = o
    BY <1>2, <1>3 DEF FutureRun, RunFields
  <1>5. FutureRun'
    BY <1>1, <1>2, <1>4, Unmoved DEF FutureRun
  <1>6. QED
    BY <1>1, <1>5, RunChanges

\* What is fetched is what was planned, unless the source pins a version that is gone.
LEMMA MembersStand ==
    ASSUME PlanStands, chain # <<>>, ~Future!Pinned \/ version = plan.version
    PROVE  Future!Members(version) = plan.members
  BY DEF PlanStands, Future!Members, Future!Pinned

LEMMA SourceKeeps ==
    ASSUME FutureInv, Future!Source
    PROVE  FutureInv'
  <1>1. UNCHANGED <<asked, holdings, version, plan, chain, broken>> /\ run.phase = "source"
    BY DEF Future!Source
  <1>2. FutureRun
    BY DEF FutureInv, Future!Source
  <1> DEFINE Moved ==
        /\ DOMAIN run' = RunFields /\ run'.job = run.job /\ run'.kept = run.kept
        /\ run'.todo = run.todo /\ run'.at = run.at /\ run'.phase \in {"save", "make"}
        /\ run'.phase = "make" => run'.source.state = "read"
        /\ \/ run'.source = run.source \/ run'.source = Future!Lost
           \/ run'.source = Future!Fetched /\ (~Future!Pinned \/ version = plan.version)
  <1>3. Moved
    <2>1. DOMAIN run = RunFields
      BY <1>2 DEF FutureRun
    <2>2. ASSUME NEW code, run' = Future!Raise(code)
          PROVE  Moved
      BY <2>1, <2>2 DEF Future!Raise, RunFields
    <2>3. ASSUME NEW code, run' = [Future!Raise(code) EXCEPT !.source = Future!Lost]
          PROVE  Moved
      BY <2>1, <2>3 DEF Future!Raise, RunFields
    <2>4. ASSUME run.source.state = "read", run' = [run EXCEPT !.phase = "make"]
          PROVE  Moved
      BY <2>1, <2>4 DEF RunFields
    <2>5. ASSUME ~Future!Pinned \/ version = plan.version,
                 run' = [run EXCEPT !.source = Future!Fetched, !.phase = "make"]
          PROVE  Moved
      <3>1. Future!Fetched.state = "read"
        BY DEF Future!Fetched
      <3>2. QED
        BY <2>1, <2>5, <3>1 DEF RunFields
    <2> HIDE DEF Moved
    <2>6. QED
      BY <2>2, <2>3, <2>4, <2>5 DEF Future!Source
  <1>4. PICK source : source = run'.source
    OBVIOUS
  <1>5. SoundMembers(source)
    <2>1. CASE source = run.source
      BY <1>2, <2>1 DEF FutureRun
    <2>2. CASE source = Future!Lost
      BY <2>2 DEF Future!Lost, SoundMembers
    <2>3. CASE source = Future!Fetched /\ (~Future!Pinned \/ version = plan.version)
      <3>1. chain # <<>>
        BY <1>2, ChainIs DEF FutureInv, FutureRun
      <3>2. Future!Members(version) = plan.members
        BY <2>3, <3>1, MembersStand DEF FutureInv
      <3>3. source.members = [i \in 1..Len(plan.members) |-> [name |-> plan.members[i], version |-> version]]
        BY <2>3, <3>2 DEF Future!Fetched
      <3>4. QED
        BY <2>3, <3>3 DEF FutureInv, SoundMembers
    <2>4. QED
      BY <1>3, <1>4, <2>1, <2>2, <2>3
  <1>6. FutureRun'
    BY <1>1, <1>2, <1>3, <1>4, <1>5, Unmoved DEF FutureRun
  <1>7. QED
    BY <1>1, <1>6, RunChanges

\* A run begins with the items whose files resolve.
LEMMA BeginKeeps ==
    ASSUME FutureInv, Future!Begin
    PROVE  FutureInv'
  <1>1. UNCHANGED <<asked, holdings, version, plan, broken>>
    BY DEF Future!Begin
  <1>2. PICK j \in 1..Len(chain) :
           /\ chain[j].state \in {"queued", "running"} /\ chain' = [chain EXCEPT ![j].state = "running"]
           /\ \E done : run' = [job |-> j, todo |-> chain[j].outputs, at |-> None,
                                kept |-> {i \in chain[j].items : Future!Intact(j, i)},
                                source |-> Future!Unread, phase |-> "next", done |-> done, errors |-> chain[j].errors]
    BY DEF Future!Begin
  <1>3. j \in DOMAIN chain /\ ~Future!Ended(j)
    BY <1>2, ChainIs DEF FutureInv, Future!Ended
  <1>4. FutureJob(j)
    BY <1>3 DEF FutureInv
  <1> DEFINE x == [chain[j] EXCEPT !.state = "running"]
  <1>5. /\ DOMAIN x = JobFields /\ x.outputs = chain[j].outputs /\ x.of = chain[j].of /\ x.items = chain[j].items
        /\ x.state = "running"
    BY <1>4 DEF FutureJob, SoundParts, JobFields
  <1>6. chain' = [chain EXCEPT ![j] = x]
    BY <1>2
  <1> HIDE DEF x
  <1>7. chain'[j] = x
    BY <1>3, <1>6
  <1>8. ~Future!Ended(j)'
    BY <1>5, <1>7 DEF Future!Ended
  <1>9. ChainTyped' /\ DOMAIN chain' = DOMAIN chain /\ \A k \in DOMAIN chain' : FutureJob(k)'
    BY <1>1, <1>3, <1>4, <1>5, <1>6, <1>8, JobChanges DEF FutureJob, SoundParts
  <1>10. FutureRun'
    <2>1. \A i : Future!Intact(j, i)' <=> Future!Intact(j, i)
      BY <1>1 DEF Future!Intact
    <2>2. SoundMembers(Future!Unread)'
      BY DEF SoundMembers, Future!Unread
    <2>3. DOMAIN run' = RunFields /\ run'.job = j /\ run'.todo = chain[j].outputs /\ run'.phase = "next"
          /\ run'.source = Future!Unread /\ run'.kept = {i \in chain[j].items : Future!Intact(j, i)}
      BY <1>2 DEF RunFields
    <2>4. QED
      BY <1>3, <1>5, <1>7, <1>8, <1>9, <2>1, <2>2, <2>3 DEF FutureRun
  <1>11. PlanStands'
    BY <1>1, <1>3, PlanStays, ChainIs DEF FutureInv
  <1>12. QED
    BY <1>1, <1>9, <1>10, <1>11 DEF FutureInv

\* What a subplan keeps keeps its member.
LEMMA SubplansCarry ==
    ASSUME NEW outputs, NEW keys, \A o \in outputs : SoundOutput(o), NEW p \in Future!Subplan(outputs, keys)
    PROVE  /\ SoundOutput(p) /\ p.index = p.name
           /\ \E o \in outputs : Future!Key(o) \in keys /\ o.name = p.name
  <1>1. PICK o \in outputs :
           /\ Future!Key(o) \in keys
           /\ \E place : p = [o EXCEPT !.place = place, !.index = IF @ = None THEN o.place ELSE @]
    BY DEF Future!Subplan, Future!Moved
  <1>2. DOMAIN p = DOMAIN o /\ p.name = o.name /\ p.id = o.id /\ p.index = o.name
    BY <1>1 DEF SoundOutput
  <1>3. QED
    BY <1>1, <1>2, FutureAssumption DEF SoundOutput

LEMMA ChosenIs ==
    ASSUME FutureRun, \A o \in chain[run.job].outputs : SoundOutput(o), run.phase = "make"
    PROVE  SoundOutput(Future!Chosen) /\ Future!Chosen.index = Future!Chosen.name
  <1> DEFINE keys == {Future!Key(run.at)}
             chosen == Future!Subplan(chain[run.job].outputs, keys)
  <1>1. chosen # {}
    BY DEF FutureRun, Future!Subplan
  <1>2. Future!Chosen \in chosen
    BY <1>1 DEF Future!Chosen, Future!Current
  <1>3. QED
    BY <1>2, SubplansCarry

\* The item of an output is replaced, and what was lost of the one before is nobody's any more.
LEMMA StoresKeep ==
    ASSUME FutureInv, run # None, run.phase = "make", UNCHANGED <<asked, holdings, version, plan>>,
           NEW weather, NEW issues, Future!Stores(weather, issues),
           \A w \in weather : w.member = plan.members[w.output] /\ (Future!Pinned => w.version = plan.version)
    PROVE  FutureInv'
  <1> DEFINE j == run.job
             key == Future!Key(run.at)
             item == [key |-> key, weather |-> weather, issues |-> issues]
             x == [chain[j] EXCEPT !.items = {i \in @ : i.key # key} \cup {item}]
  <1>1. FutureRun /\ j \in DOMAIN chain /\ FutureJob(j) /\ ~Future!Ended(j)
    BY DEF FutureInv, FutureRun
  <1>2. item.key = key /\ item.weather = weather
    OBVIOUS
  <1>3. chain' = [chain EXCEPT ![j] = x]
    BY DEF Future!Stores
  <1>4. run' = [run EXCEPT !.phase = "save", !.kept = {i \in @ : i.key # key} \cup {item}]
    BY DEF Future!Stores
  <1>5. broken' = {d \in broken : d[1] # j \/ d[2] # key}
    BY DEF Future!Stores
  <1> HIDE DEF item
  <1>6. /\ DOMAIN x = JobFields /\ x.outputs = chain[j].outputs /\ x.of = chain[j].of /\ x.state = chain[j].state
        /\ x.items = {i \in chain[j].items : i.key # key} \cup {item}
    BY <1>1 DEF FutureJob, SoundParts, JobFields
  <1>7. SoundItem(item)
    BY <1>2 DEF SoundItem
  <1>8. \A i \in x.items : SoundItem(i)
    BY <1>1, <1>6, <1>7 DEF FutureJob, SoundParts
  <1> HIDE DEF x
  <1>9. chain'[j] = x
    BY <1>1, <1>3
  <1>10. ChainTyped' /\ DOMAIN chain' = DOMAIN chain /\ \A k \in DOMAIN chain' : FutureJob(k)'
    <2>1. PICK k : k = j
      OBVIOUS
    <2>2. k \in DOMAIN chain /\ ~Future!Ended(k) /\ chain' = [chain EXCEPT ![k] = x]
      BY <1>1, <1>3, <2>1
    <2>3. ~Future!Ended(k)'
      BY <1>1, <1>6, <1>9, <2>1 DEF Future!Ended
    <2>4. \A d \in broken : d[1] # k => d \in broken'
      BY <1>5, <2>1
    <2> HIDE DEF j
    <2>5. QED
      BY <1>6, <1>8, <2>1, <2>2, <2>3, <2>4, JobChanges
  <1>11. FutureRun'
    <2>1. /\ DOMAIN run' = RunFields /\ run'.job = j /\ run'.todo = run.todo /\ run'.at = run.at /\ run'.source = run.source
          /\ run'.phase = "save" /\ run'.kept = {i \in run.kept : i.key # key} \cup {item}
      BY <1>1, <1>4 DEF FutureRun, RunFields
    <2>2. \A s : SoundMembers(s)' <=> SoundMembers(s)
      BY DEF SoundMembers, Future!Pinned
    <2>3. ASSUME NEW i \in x.items \ run'.kept
          PROVE  \A k : k = j => ~Future!Intact(k, i)'
      <3>1. i \in chain[j].items \ run.kept /\ i.key # key
        BY <1>6, <2>1, <2>3
      <3>2. PICK w \in i.weather : <<j, i.key, w.output>> \in broken
        BY <1>1, <3>1 DEF FutureRun, Future!Intact
      <3>3. <<j, i.key, w.output>> \in broken'
        BY <1>5, <3>1, <3>2
      <3>4. QED
        BY <3>3 DEF Future!Intact
    <2>4. run'.kept \subseteq x.items
      BY <1>1, <1>6, <2>1 DEF FutureRun
    <2>5. \A k : k = j => ~Future!Ended(k)'
      BY <1>1, <1>6, <1>9 DEF Future!Ended
    <2>6. SoundMembers(run.source) /\ run.todo \subseteq chain[j].outputs /\ run.at \in chain[j].outputs
      BY <1>1 DEF FutureRun
    <2>7. QED
      BY <1>1, <1>6, <1>9, <1>10, <2>1, <2>2, <2>3, <2>4, <2>5, <2>6 DEF FutureRun
  <1>12. PlanStands'
    BY <1>1, PlanStays, ChainIs DEF FutureInv
  <1>13. QED
    BY <1>10, <1>11, <1>12 DEF FutureInv

\* The file that is made is of the member at the index its subplan gave it.
LEMMA MakeKeeps ==
    ASSUME FutureInv, Future!Make
    PROVE  FutureInv'
  <1>1. UNCHANGED <<asked, holdings, version, plan>> /\ run # None /\ run.phase = "make"
    BY DEF Future!Make
  <1>2. FutureRun /\ \A o \in chain[run.job].outputs : SoundOutput(o)
    BY <1>1 DEF FutureInv, FutureRun, FutureJob, SoundParts
  <1> DEFINE chosen == Future!Chosen
             member == run.source.members[chosen.index]
  <1>3. chosen.index = chosen.name /\ chosen.name \in 1..Len(plan.members)
    BY <1>1, <1>2, ChosenIs DEF SoundOutput
  <1>4. member.name = plan.members[chosen.name] /\ (Future!Pinned => member.version = plan.version)
    <2>1. PICK v \in Nat :
             /\ run.source.members = [i \in 1..Len(plan.members) |-> [name |-> plan.members[i], version |-> v]]
             /\ Future!Pinned => v = plan.version
      BY <1>1, <1>2 DEF FutureRun, SoundMembers
    <2>2. member = [name |-> plan.members[chosen.name], version |-> v]
      BY <1>3, <2>1
    <2>3. QED
      BY <2>1, <2>2
  <1>5. \A w \in {Future!Weather(chosen, member)} :
           w.member = plan.members[w.output] /\ (Future!Pinned => w.version = plan.version)
    BY <1>4 DEF Future!Weather
  <1>6. \E weather \in {{}, {Future!Weather(chosen, member)}} : \E issues : Future!Stores(weather, issues)
    BY DEF Future!Make
  <1> HIDE DEF chosen, member
  <1>7. QED
    BY <1>1, <1>5, <1>6, StoresKeep

LEMMA SaveKeeps ==
    ASSUME FutureInv, Future!Save
    PROVE  FutureInv'
  <1> DEFINE x == [chain[run.job] EXCEPT !.errors = run.errors]
  <1>1. /\ UNCHANGED <<asked, holdings, version, plan, broken>> /\ run # None
        /\ chain' = [chain EXCEPT ![run.job] = x] /\ run' = [run EXCEPT !.phase = "next", !.at = None]
    BY DEF Future!Save
  <1>2. FutureRun
    BY <1>1 DEF FutureInv
  <1>3. PICK j \in DOMAIN chain : j = run.job
    BY <1>2 DEF FutureRun
  <1>4. FutureJob(j) /\ ~Future!Ended(j)
    BY <1>2, <1>3 DEF FutureInv, FutureRun
  <1>5. /\ DOMAIN x = JobFields /\ x.outputs = chain[j].outputs /\ x.of = chain[j].of /\ x.items = chain[j].items
        /\ x.state = chain[j].state
    BY <1>3, <1>4 DEF FutureJob, SoundParts, JobFields
  <1> HIDE DEF x
  <1>6. chain'[j] = x
    BY <1>1, <1>3
  <1>7. ~Future!Ended(j)'
    BY <1>4, <1>5, <1>6 DEF Future!Ended
  <1>8. ChainTyped' /\ DOMAIN chain' = DOMAIN chain /\ \A k \in DOMAIN chain' : FutureJob(k)'
    BY <1>1, <1>3, <1>4, <1>5, <1>7, JobChanges DEF FutureJob, SoundParts
  <1>9. FutureRun'
    <2>1. /\ DOMAIN run' = RunFields /\ run'.job = j /\ run'.todo = run.todo /\ run'.source = run.source
          /\ run'.phase = "next" /\ run'.kept = run.kept
      BY <1>1, <1>2, <1>3 DEF FutureRun, RunFields
    <2>2. \A s : SoundMembers(s)' <=> SoundMembers(s)
      BY <1>1 DEF SoundMembers, Future!Pinned
    <2>3. \A i : Future!Intact(j, i)' <=> Future!Intact(j, i)
      BY <1>1 DEF Future!Intact
    <2>4. QED
      BY <1>2, <1>3, <1>5, <1>6, <1>7, <1>8, <2>1, <2>2, <2>3 DEF FutureRun
  <1>10. PlanStands'
    BY <1>1, <1>3, PlanStays, ChainIs DEF FutureInv
  <1>11. QED
    BY <1>1, <1>8, <1>9, <1>10 DEF FutureInv

\* A job is asked to stop.
LEMMA CancelKeeps ==
    ASSUME FutureInv, Future!Cancel
    PROVE  FutureInv'
  <1>1. UNCHANGED <<asked, holdings, version, plan, run, broken>>
    BY DEF Future!Cancel
  <1>2. PICK j \in 1..Len(chain) : ~Future!Ended(j) /\ chain' = [chain EXCEPT ![j].cancel = TRUE]
    BY DEF Future!Cancel
  <1>3. j \in DOMAIN chain
    BY ChainIs DEF FutureInv
  <1>4. FutureJob(j)
    BY <1>3 DEF FutureInv
  <1> DEFINE x == [chain[j] EXCEPT !.cancel = TRUE]
  <1>5. /\ DOMAIN x = JobFields /\ x.outputs = chain[j].outputs /\ x.of = chain[j].of /\ x.items = chain[j].items
        /\ x.state = chain[j].state
    BY <1>4 DEF FutureJob, SoundParts, JobFields
  <1>6. chain' = [chain EXCEPT ![j] = x]
    BY <1>2
  <1> HIDE DEF x
  <1>7. chain'[j] = x /\ \A k \in DOMAIN chain : k # j => chain'[k] = chain[k]
    BY <1>3, <1>6
  <1>8. ~Future!Ended(j)'
    BY <1>2, <1>5, <1>7 DEF Future!Ended
  <1>9. ChainTyped' /\ DOMAIN chain' = DOMAIN chain /\ \A k \in DOMAIN chain' : FutureJob(k)'
    BY <1>1, <1>2, <1>3, <1>4, <1>5, <1>6, <1>8, JobChanges DEF FutureJob, SoundParts
  <1>10. \A k \in DOMAIN chain : /\ chain'[k].outputs = chain[k].outputs /\ chain'[k].items = chain[k].items
                                 /\ chain'[k].state = chain[k].state
    BY <1>5, <1>7
  <1>11. run' # None => FutureRun'
    BY <1>1, <1>9, <1>10, RunStays
  <1>12. PlanStands'
    BY <1>1, <1>3, PlanStays, ChainIs DEF FutureInv
  <1>13. QED
    BY <1>1, <1>9, <1>11, <1>12 DEF FutureInv

\* A death, a loss, and a new version of what upstream serves.
LEMMA MishapsKeep ==
    ASSUME FutureInv, Future!Crash \/ Future!Damage \/ Future!Change
    PROVE  FutureInv'
  <1>1. UNCHANGED <<asked, holdings, plan, chain>> /\ broken \subseteq broken' /\ (run' = run \/ run' = None)
    BY DEF Future!Crash, Future!Damage, Future!Change
  <1>2. version' \in Nat
    BY DEF FutureInv, Future!Crash, Future!Damage, Future!Change
  <1>3. ChainTyped' /\ \A k \in DOMAIN chain' : FutureJob(k)'
    BY <1>1, JobsStay
  <1>4. run' # None => FutureRun'
    BY <1>1, RunStays
  <1>5. PlanStands'
    BY <1>1, PlanStays DEF FutureInv
  <1>6. QED
    BY <1>2, <1>3, <1>4, <1>5 DEF FutureInv

\* The rows of a job that ends tell what its items hold.
LEMMA RowsAre ==
    ASSUME FutureInv, run # None, ~asked.legacy, NEW issues,
           NEW o \in chain[run.job].outputs
    PROVE  LET weather == UNION {i.weather : i \in run.kept}
               row == Future!Row(o, weather, issues)
               having == {i \in chain[run.job].items : \E w \in i.weather : w.output = o.name}
           IN IF row = "succeeded" THEN having # {} ELSE \A i \in having : ~Future!Intact(run.job, i)
  <1> DEFINE weather == UNION {i.weather : i \in run.kept}
             row == Future!Row(o, weather, issues)
             having == {i \in chain[run.job].items : \E w \in i.weather : w.output = o.name}
  <1>1. FutureRun /\ SoundOutput(o)
    BY DEF FutureInv, FutureRun, FutureJob, SoundParts
  <1>2. o.id # None
    BY <1>1, FutureAssumption DEF SoundOutput
  <1>3. row = "succeeded" <=> \E i \in run.kept : \E w \in i.weather : w.output = o.name
    BY <1>2 DEF Future!Row
  <1>4. CASE row = "succeeded"
    BY <1>1, <1>3, <1>4 DEF FutureRun
  <1>5. CASE row # "succeeded"
    <2>1. \A i \in having : i \notin run.kept
      BY <1>3, <1>5
    <2>2. QED
      BY <1>1, <1>5, <2>1 DEF FutureRun
  <1>6. QED
    BY <1>4, <1>5

LEMMA FutureEndKeeps ==
    ASSUME FutureInv, Future!Finish
    PROVE  FutureInv'
  <1>1. UNCHANGED <<asked, holdings, version, plan, broken>> /\ run # None /\ run' = None
    BY DEF Future!Finish
  <1>2. FutureRun
    BY <1>1 DEF FutureInv
  <1>3. PICK j \in DOMAIN chain : j = run.job
    BY <1>2 DEF FutureRun
  <1>4. FutureJob(j) /\ ~Future!Ended(j)
    BY <1>2, <1>3 DEF FutureInv, FutureRun
  <1> DEFINE weather == UNION {i.weather : i \in run.kept}
  <1>5. PICK told, issues, state :
           /\ chain' = [chain EXCEPT ![j] = [chain[j] EXCEPT !.rows = told, !.errors = issues, !.state = state]]
           /\ told = [o \in chain[j].outputs |-> Future!Row(o, weather, issues)]
    <2> DEFINE issues == run.errors \cup (UNION {i.issues : i \in run.kept})
                         \cup (IF chain[j].cancel THEN {<<<<"all", 0>>, "CANCELLED">>} ELSE {})
               told == [o \in chain[j].outputs |-> Future!Row(o, weather, issues)]
               state == IF chain[j].cancel THEN "cancelled"
                        ELSE IF issues # {} \/ Future!Cardinality(weather) < Future!Cardinality(chain[j].outputs)
                             THEN "incomplete" ELSE "completed"
    <2>1. chain' = [chain EXCEPT ![j].rows = told, ![j].errors = issues, ![j].state = state]
      BY <1>3 DEF Future!Finish, Future!Current
    <2> HIDE DEF issues, state
    <2>2. told = [o \in chain[j].outputs |-> Future!Row(o, weather, issues)]
      OBVIOUS
    <2> HIDE DEF told
    <2>3. chain' = [chain EXCEPT ![j] = [chain[j] EXCEPT !.rows = told, !.errors = issues, !.state = state]]
      BY <2>1
    <2>4. QED
      BY <2>2, <2>3
  <1> DEFINE x == [chain[j] EXCEPT !.rows = told, !.errors = issues, !.state = state]
  <1>6. /\ DOMAIN x = JobFields /\ x.outputs = chain[j].outputs /\ x.of = chain[j].of /\ x.items = chain[j].items
        /\ x.rows = told
    BY <1>4 DEF FutureJob, SoundParts, JobFields
  <1> HIDE DEF x
  <1>7. chain' = [chain EXCEPT ![j] = x] /\ chain'[j] = x
    BY <1>5 DEF x
  <1>8. ~asked.legacy => SoundRows(j)'
    <2> SUFFICES ASSUME ~asked.legacy PROVE SoundRows(j)'
      OBVIOUS
    <2>1. ASSUME NEW o \in chain[j].outputs
          PROVE  LET having == {i \in chain[j].items : \E w \in i.weather : w.output = o.name}
                 IN IF told[o] = "succeeded" THEN having # {} ELSE \A i \in having : ~Future!Intact(j, i)
      BY <1>1, <1>3, <1>5, <2>1, RowsAre
    <2>2. \A i : Future!Intact(j, i)' <=> Future!Intact(j, i)
      BY <1>1 DEF Future!Intact
    <2>3. QED
      BY <1>6, <1>7, <2>1, <2>2 DEF SoundRows
  <1>9. ChainTyped' /\ DOMAIN chain' = DOMAIN chain /\ \A k \in DOMAIN chain' : FutureJob(k)'
    BY <1>1, <1>4, <1>6, <1>7, <1>8, JobChanges DEF FutureJob, SoundParts
  <1>10. PlanStands'
    BY <1>1, <1>3, PlanStays, ChainIs DEF FutureInv
  <1>11. QED
    BY <1>1, <1>9, <1>10 DEF FutureInv

\* A job with no items joins the others.
LEMMA JobJoins ==
    ASSUME FutureInv, UNCHANGED <<plan, asked, broken>>, NEW x, chain' = Append(chain, x), DOMAIN x = JobFields,
           \A o \in x.outputs : SoundOutput(o), x.items = {}, x.state = "queued", x.of \in DOMAIN chain,
           Future!Ended(x.of), \A o \in x.outputs : Unresolved(x.of, o)
    PROVE  /\ ChainTyped' /\ DOMAIN chain \subseteq DOMAIN chain' /\ \A k \in DOMAIN chain' : FutureJob(k)'
           /\ \A k \in DOMAIN chain : chain'[k] = chain[k]
  <1> DEFINE n == Len(chain) + 1
  <1>1. /\ ChainTyped' /\ DOMAIN chain' = DOMAIN chain \cup {n} /\ n \notin DOMAIN chain
        /\ chain'[n] = x /\ \A k \in DOMAIN chain : chain'[k] = chain[k]
    BY ChainGrows DEF FutureInv
  <1>2. \A k \in DOMAIN chain : Future!Ended(k) => Future!Ended(k)'
    BY <1>1 DEF Future!Ended
  <1>3. \A k \in DOMAIN chain : \A o : Unresolved(k, o) => Unresolved(k, o)'
    BY <1>1 DEF Unresolved
  <1>4. (\A o : SoundOutput(o)' <=> SoundOutput(o)) /\ (\A i : SoundItem(i)' <=> SoundItem(i))
    BY DEF SoundOutput, SoundItem, Future!Pinned
  <1>5. ASSUME NEW k \in DOMAIN chain
        PROVE  FutureJob(k)'
    <2>1. FutureJob(k) /\ chain'[k] = chain[k]
      BY <1>1 DEF FutureInv
    <2>2. SoundParts(k)'
      BY <1>4, <2>1 DEF FutureJob, SoundParts
    <2>3. SoundRetry(k)'
      BY <1>1, <1>2, <1>3, <2>1 DEF FutureJob, SoundRetry
    <2>4. \A i : Future!Intact(k, i)' <=> Future!Intact(k, i)
      BY DEF Future!Intact
    <2>5. (Future!Ended(k) <=> Future!Ended(k)') /\ (SoundRows(k) => SoundRows(k)')
      BY <2>1, <2>4 DEF Future!Ended, SoundRows
    <2>6. QED
      BY <2>1, <2>2, <2>3, <2>5 DEF FutureJob
  <1>6. ASSUME NEW k, k = n
        PROVE  FutureJob(k)'
    <2>1. chain'[k] = x /\ k \in DOMAIN chain'
      BY <1>1, <1>6
    <2>2. SoundParts(k)'
      BY <1>4, <2>1 DEF SoundParts
    <2>3. SoundRetry(k)'
      BY <1>1, <1>2, <1>3, <2>1 DEF SoundRetry
    <2>4. ~Future!Ended(k)'
      BY <2>1 DEF Future!Ended
    <2>5. QED
      BY <2>2, <2>3, <2>4 DEF FutureJob
  <1>7. QED
    BY <1>1, <1>5, <1>6

\* A retry gets the outputs that have no file that resolves, and each has its index.
LEMMA RetryKeeps ==
    ASSUME FutureInv, Future!RetryFailed
    PROVE  FutureInv'
  <1>1. UNCHANGED <<asked, holdings, version, plan, run, broken>>
    BY DEF Future!RetryFailed
  <1>2. PICK j \in 1..Len(chain) :
           /\ Future!Ended(j)
           /\ chain' = Append(chain, Future!NewJob(Future!Subplan(chain[j].outputs, Future!Unmade(j)), {}, j))
    BY DEF Future!RetryFailed
  <1>3. j \in DOMAIN chain
    BY ChainIs DEF FutureInv
  <1>4. \A o \in chain[j].outputs : SoundOutput(o)
    BY <1>3 DEF FutureInv, FutureJob, SoundParts
  <1> DEFINE outputs == Future!Subplan(chain[j].outputs, Future!Unmade(j))
             x == Future!NewJob(outputs, {}, j)
  <1>5. ASSUME NEW p \in outputs
        PROVE  SoundOutput(p) /\ Unresolved(j, p)
    <2>1. SoundOutput(p)
      BY <1>4, SubplansCarry
    <2>2. PICK o \in chain[j].outputs : Future!Key(o) \in Future!Unmade(j) /\ o.name = p.name
      BY <1>4, SubplansCarry
    <2>3. Future!Key(o) = IF asked.legacy THEN <<"name", o.name>> ELSE <<"id", o.name>>
      BY <1>4, FutureAssumption DEF SoundOutput, Future!Key
    <2>4. Future!Key(o) \notin Future!Produced(j)
      BY <2>2 DEF Future!Unmade
    <2>5. ASSUME NEW i \in chain[j].items, NEW w \in i.weather, w.output = p.name
          PROVE  <<j, i.key, w.output>> \in broken
      <3> SUFFICES ASSUME <<j, i.key, w.output>> \notin broken PROVE FALSE
        OBVIOUS
      <3> DEFINE resolving(k) == {v \in k.weather : <<j, k.key, v.output>> \notin broken}
      <3>1. w \in UNION {resolving(k) : k \in chain[j].items}
        <4>1. w \in resolving(i) /\ resolving(i) \in {resolving(k) : k \in chain[j].items}
          OBVIOUS
        <4> HIDE DEF resolving
        <4>2. QED
          BY <4>1
      <3>2. (IF asked.legacy THEN <<"name", w.output>> ELSE <<"id", w.output>>) \in Future!Produced(j)
        BY <3>1 DEF Future!Produced
      <3>3. QED
        BY <2>2, <2>3, <2>4, <2>5, <3>2
    <2>6. QED
      BY <2>1, <2>5 DEF Unresolved
  <1>6. DOMAIN x = JobFields /\ x.outputs = outputs /\ x.items = {} /\ x.state = "queued" /\ x.of = j
    BY DEF Future!NewJob, JobFields
  <1> HIDE DEF x, outputs
  <1>7. chain' = Append(chain, x)
    BY <1>2 DEF x, outputs
  <1>8. /\ ChainTyped' /\ DOMAIN chain \subseteq DOMAIN chain' /\ \A k \in DOMAIN chain' : FutureJob(k)'
        /\ \A k \in DOMAIN chain : chain'[k] = chain[k]
    BY <1>1, <1>2, <1>3, <1>5, <1>6, <1>7, JobJoins
  <1>9. run' # None => FutureRun'
    BY <1>1, <1>8, RunStays
  <1>10. PlanStands'
    BY <1>1, <1>3, PlanStays, ChainIs DEF FutureInv
  <1>11. QED
    BY <1>1, <1>8, <1>9, <1>10 DEF FutureInv

\* As many outputs as members.
LEMMA CountsAgree == Future!Count = Len(Future!Members(version))
  <1>1. CASE asked.method # "climate_profile"
    BY <1>1 DEF Future!Count
  <1>2. CASE asked.method = "climate_profile" /\ asked.profile = "ensemble"
    <2> DEFINE years == [n \in 1..Supply |-> n]
    <2>1. Future!Members(version) = years /\ Future!Count = Supply
      BY <1>2 DEF Future!Members, Future!Kept, Future!Names, Future!Count
    <2>2. Supply \in Nat /\ years \in [1..Supply -> 1..Supply]
      BY FutureAssumption
    <2>3. years \in Seq(1..Supply)
      BY <2>2, FunctionsAreSequences
    <2>4. Len(years) = Supply
      BY <2>2, <2>3, LenProperties
    <2>5. QED
      BY <2>1, <2>4
  <1>3. CASE asked.method = "climate_profile" /\ asked.profile # "ensemble"
    BY <1>3 DEF Future!Members, Future!Kept, Future!Count
  <1>4. QED
    BY <1>1, <1>2, <1>3

LEMMA PlanKeeps ==
    ASSUME FutureInv, Future!PlanFuture
    PROVE  FutureInv'
  <1>1. UNCHANGED <<asked, holdings, version, run, broken>> /\ chain = <<>>
    BY DEF Future!PlanFuture
  <1>2. run = None
    BY <1>1, ChainIs DEF FutureInv, FutureRun
  <1> DEFINE members == Future!Members(version)
             aged(done) == [key |-> <<"item", 0>>, issues |-> {},
                            weather |-> {Future!Weather(Future!Output(i), [name |-> members[i], version |-> version]) : i \in done}]
             outputs == {Future!Output(i) : i \in 1..Future!Count}
  <1>3. plan'.members = members /\ plan'.version = version
    BY DEF Future!PlanFuture
  <1>4. \E items \in {{}} \cup {{aged(done)} : done \in (SUBSET (1..Future!Count)) \ {{}}} :
           chain' = <<Future!NewJob(outputs, items, None)>>
    BY DEF Future!PlanFuture
  <1>5. PICK items \in {{}} \cup {{aged(done)} : done \in (SUBSET (1..Future!Count)) \ {{}}} :
           chain' = <<Future!NewJob(outputs, items, None)>>
    BY <1>4
  <1>6. ASSUME NEW i \in items
        PROVE  SoundItem(i)'
    <2>1. PICK done \in SUBSET (1..Future!Count) : i = aged(done)
      BY <1>5
    <2>2. \A w \in i.weather : w.member = members[w.output] /\ w.version = version
      <3> HIDE DEF members
      <3>1. QED
        BY <2>1 DEF Future!Weather, Future!Output
    <2> HIDE DEF members
    <2>3. QED
      BY <1>3, <2>2 DEF SoundItem
  <1>7. ASSUME NEW o \in outputs
        PROVE  SoundOutput(o)'
    <2>1. PICK i \in 1..Future!Count : o = Future!Output(i)
      OBVIOUS
    <2>2. i \in 1..Len(plan'.members)
      BY <1>3, CountsAgree
    <2>3. QED
      BY <1>1, <2>1, <2>2, FutureAssumption DEF SoundOutput, Future!Output
  <1> HIDE DEF outputs
  <1> DEFINE x == Future!NewJob(outputs, items, None)
  <1>8. /\ DOMAIN x = JobFields /\ x.outputs = outputs /\ x.items = items /\ x.state = "queued" /\ x.of = None
    BY DEF Future!NewJob, JobFields
  <1> HIDE DEF x
  <1>9. chain' = <<x>>
    BY <1>5 DEF x
  <1>10. DOMAIN chain' = {1} /\ chain'[1] = x
    BY <1>9
  <1>11. FutureJob(1)'
    <2>1. SoundParts(1)'
      BY <1>6, <1>7, <1>8, <1>10 DEF SoundParts
    <2>2. SoundRetry(1)' /\ ~Future!Ended(1)'
      BY <1>8, <1>10 DEF SoundRetry, Future!Ended
    <2>3. QED
      BY <2>1, <2>2 DEF FutureJob
  <1>12. ChainTyped'
    BY <1>9, <1>10 DEF ChainTyped
  <1>13. PlanStands'
    <2>1. (plan.members = Future!Members(version))'
      BY <1>1, <1>3, MembersKeep
    <2>2. QED
      BY <1>1, <1>3, <2>1 DEF PlanStands
  <1>14. QED
    BY <1>1, <1>2, <1>10, <1>11, <1>12, <1>13 DEF FutureInv

LEMMA FutureBegins == RootInit => FutureInv
  <1> SUFFICES ASSUME RootInit PROVE FutureInv
    OBVIOUS
  <1>1. version = 1 /\ chain = <<>> /\ run = None
    BY DEF RootInit, Future!Init
  <1>2. DOMAIN chain = {}
    BY <1>1
  <1>3. ChainTyped
    BY <1>1, EmptySeq DEF ChainTyped
  <1>4. QED
    BY <1>1, <1>2, <1>3 DEF FutureInv, PlanStands

LEMMA FutureKeeps == ASSUME FutureInv, Future!Next \/ UNCHANGED futureVars PROVE FutureInv'
  <1>1. CASE UNCHANGED futureVars
    <2>1. UNCHANGED <<asked, holdings, version, plan, chain, broken, run>>
      BY <1>1 DEF futureVars
    <2>2. run' # None => FutureRun'
      BY <2>1, RunStays
    <2>3. QED
      BY <2>1, <2>2, RunChanges
  <1>2. CASE Future!Next
    BY <1>2, PlanKeeps, BeginKeeps, PicksKeep, SourceKeeps, MakeKeeps, SaveKeeps, FutureEndKeeps,
       RetryKeeps, CancelKeeps, MishapsKeep DEF Future!Next
  <1>3. QED
    BY <1>1, <1>2

\* For any number of members, versions, deaths, losses and retries, of subplans and of plans of older
\* versions too: every file of future weather is made of the member its output was planned for, in the
\* version that was planned where the source pins one; a retry, of whatever job, makes nothing whose
\* file resolves; and the rows of a job that has ended tell what its items hold.
THEOREM FutureAlwaysHolds == RootSpec => []FutureHolds
  <1>1. FutureInv /\ [RootNext]_all => FutureInv'
    <2> SUFFICES ASSUME FutureInv, [RootNext]_all PROVE FutureInv'
      OBVIOUS
    <2>1. Future!Next \/ UNCHANGED futureVars
      BY DEF RootNext, all, fetchVars
    <2>2. QED
      BY <2>1, FutureKeeps
  <1>2. FutureInv => FutureHolds
    <2> SUFFICES ASSUME FutureInv PROVE Future!FutureHolds
      BY DEF FutureHolds
    <2>1. DOMAIN chain = 1..Len(chain)
      BY ChainIs DEF FutureInv
    <2>2. \A w \in Future!Made : /\ w.member = plan.members[w.output]
                                 /\ Future!Pinned => w.version = plan.version
      BY <2>1 DEF Future!Made, FutureInv, FutureJob, SoundParts, SoundItem
    <2>3. Future!FromItsMember
      BY <2>1, <2>2 DEF FutureInv, FutureJob, SoundRetry, Unresolved, Future!FromItsMember
    <2>4. Future!RowsTell
      <3> SUFFICES ASSUME ~asked.legacy, NEW j \in 1..Len(chain), Future!Ended(j), NEW o \in chain[j].outputs
                   PROVE  LET having == {i \in chain[j].items : \E w \in i.weather : w.output = o.id}
                          IN IF chain[j].rows[o] = "succeeded" THEN having # {}
                             ELSE \A i \in having : ~Future!Intact(j, i)
        BY DEF Future!RowsTell
      <3>1. SoundRows(j) /\ o.id = o.name
        BY <2>1 DEF FutureInv, FutureJob, SoundParts, SoundOutput
      <3>2. QED
        BY <3>1 DEF SoundRows
    <2>5. QED
      BY <2>3, <2>4 DEF Future!FutureHolds
  <1>3. QED
    BY <1>1, <1>2, FutureBegins, PTL DEF RootSpec
=============================================================================
