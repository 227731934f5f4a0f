--------------------------- MODULE CatalogProofs ---------------------------
(***************************************************************************)
(* Machine-checked proofs about the catalog of a server: its refresh, for  *)
(* every number of sources, threads, queries and publications; its         *)
(* installation at a start, for any packages, starts and deaths;           *)
(* and the cache of answers made from it, for every size of it and every   *)
(* number of generations and requests.                                     *)
(***************************************************************************)
EXTENDS MCCatalog, FiniteSetTheorems, NaturalsInduction, TLAPS

\* What a thread holds and has read fits the phase it is in: outside a source's lock it has no
\* source, and inside it the lock is its own.
Holds(t) ==
    /\ pc[t] \in {"idle", "next"} <=> src[t] = None
    /\ src[t] # None => lock[src[t]] = t

LockOwner == \A t \in Threads : Holds(t)

CatalogInv == TypeOK /\ LockOwner

\* The source a query looks at next is one of those it has left.
LEMMA LeastLeft ==
    ASSUME NEW S, S \subseteq Sources, S # {}
    PROVE  Least(S) \in S
  <1> DEFINE R == OpToRel(<, Nat)
  <1>1. S \subseteq Nat
    BY CatalogAssumption DEF CatalogAssumption
  <1>2. IsWellFoundedOn(R, Nat)
    BY NatLessThanWellFounded
  <1>3. PICK s \in S : \A r \in S : <<r, s>> \notin R
    <2> HIDE DEF R
    <2> QED  BY <1>1, <1>2, WFMin
  <1>4. \A r \in S : s <= r
    <2> SUFFICES ASSUME NEW r \in S PROVE ~ (r < s)
      BY <1>1
    <2>1. r \in Nat /\ s \in Nat /\ <<r, s>> \notin R
      BY <1>1, <1>3
    <2>2. QED
      BY <2>1 DEF OpToRel
  <1>5. QED
    BY <1>4 DEF Least

LEMMA OneGeneration ==
    /\ Cardinality({}) = 0
    /\ \A g : Cardinality({g}) = 1
  BY FS_EmptySet, FS_Singleton

\* A generation in which one record was replaced is a generation.
LEMMA Restaged ==
    ASSUME TypeOK, NEW t \in Threads, src[t] # None
    PROVE  [view[t] EXCEPT ![src[t]] = [ver |-> upstream[src[t]], checked |-> now]]
              \in Generations
  <1>1. /\ src[t] \in Sources /\ view[t] \in [Sources -> Records]
        /\ upstream[src[t]] \in 0..MaxVersion /\ now \in 0..MaxTime
    BY DEF TypeOK, Generations
  <1>2. [ver |-> upstream[src[t]], checked |-> now] \in Records
    BY <1>1 DEF Records
  <1>3. QED
    BY <1>1, <1>2 DEF Generations

LEMMA UnloadedIsGeneration == Unloaded \in Generations
  <1>1. [ver |-> 0, checked |-> 0] \in Records
    BY CatalogAssumption DEF CatalogAssumption, Records
  <1>2. QED
    BY <1>1 DEF Unloaded, Generations

LEMMA InitInv == Init => CatalogInv
  <1> SUFFICES ASSUME Init PROVE CatalogInv
    OBVIOUS
  <1>1. TypeOK
    BY CatalogAssumption, OneGeneration, UnloadedIsGeneration
    DEF CatalogAssumption, Init, ThreadsInit, TypeOK, Phases
  <1>2. LockOwner
    BY DEF Init, ThreadsInit, LockOwner, Holds
  <1>3. QED
    BY <1>1, <1>2 DEF CatalogInv

\* Each step of a thread keeps the types.
LEMMA WorkTypes ==
    ASSUME CatalogInv, NEW t \in Threads, Work(t)
    PROVE  TypeOK'
  <1> USE CatalogAssumption DEF CatalogAssumption
  <1>1. TypeOK /\ Holds(t) /\ pc[t] \in Phases /\ todo[t] \subseteq Sources
    BY DEF CatalogInv, LockOwner, TypeOK
  <1>2. CASE Take(t)
    <2> DEFINE s == Least(todo[t])
    <2>1. s \in Sources /\ s \in todo[t]
      BY <1>1, <1>2, LeastLeft DEF Take
    <2>2. view' \in [Threads -> Generations]
      <3>1. (\E g \in active : aged(g, s)) => (CHOOSE h \in active : TRUE) \in Generations
        BY <1>1 DEF TypeOK
      <3>2. QED
        BY <1>1, <1>2, <3>1 DEF Take, TypeOK
    <2>3. /\ lock' \in [Sources -> Threads \cup {None}]
          /\ src' \in [Threads -> Sources \cup {None}]
          /\ todo' \in [Threads -> SUBSET Sources]
          /\ pc' \in [Threads -> Phases]
      BY <1>1, <1>2, <2>1 DEF Take, TypeOK, Phases
    <2>4. QED
      BY <1>1, <1>2, <2>2, <2>3 DEF Take, TypeOK
  <1>3. CASE Stage(t)
    <2>1. src[t] # None
      BY <1>1, <1>3 DEF Stage, Goto, Holds
    <2>2. QED
      BY <1>1, <1>3, <2>1, Restaged DEF Stage, Goto, TypeOK, Phases
  <1>4. CASE Activate(t)
    <2>1. src[t] \in Sources /\ staged[t] \in Generations
      BY <1>1, <1>4 DEF Activate, Goto, Holds, TypeOK
    <2>2. staged[t][src[t]].checked \in 0..MaxTime
      BY <2>1 DEF Generations, Records
    <2>3. active' \in SUBSET Generations /\ Cardinality(active') <= 1
      <3>1. active' = {staged[t]}
        BY <1>4 DEF Activate
      <3>2. Cardinality(active') = 1
        BY <3>1, OneGeneration, Zenon
      <3>3. QED
        BY <2>1, <3>1, <3>2
    <2>4. QED
      BY <1>1, <1>4, <2>2, <2>3 DEF Activate, Goto, TypeOK, Phases
  <1>5. CASE Clear(t)
    BY <1>1, <1>5 DEF Clear, Goto, TypeOK, Phases
  <1>6. CASE Fail(t)
    <2>1. src[t] \in Sources
      BY <1>1, <1>6 DEF Fail, Holds, TypeOK
    <2>2. QED
      BY <1>1, <1>6, <2>1 DEF Fail, TypeOK, Phases
  <1>7. CASE Release(t)
    BY <1>1, <1>7, UnloadedIsGeneration DEF Release, Goto, TypeOK, Phases
  <1>8. CASE Return(t)
    BY <1>1, <1>8 DEF Return, Goto, TypeOK, Phases
  <1>9. QED
    BY <1>2, <1>3, <1>4, <1>5, <1>6, <1>7, <1>8 DEF Work, Unchanged, Changed

\* Each step of a thread leaves every lock with the thread whose source it is.
LEMMA WorkLocks ==
    ASSUME CatalogInv, NEW t \in Threads, Work(t)
    PROVE  LockOwner'
  <1> USE CatalogAssumption DEF CatalogAssumption
  <1>1. TypeOK /\ LockOwner
    BY DEF CatalogInv
  <1>2. CASE Take(t)
    <2> DEFINE s == Least(todo[t])
    <2>1. s \in Sources /\ lock[s] = None /\ pc[t] = "next"
      BY <1>1, <1>2, LeastLeft DEF Take, TypeOK
    <2>2. Holds(t)'
      BY <1>1, <1>2, <2>1 DEF Take, TypeOK, Holds
    <2>3. ASSUME NEW u \in Threads, u # t
          PROVE  Holds(u)'
      <3>1. src[u] # s
        BY <1>1, <2>1 DEF LockOwner, Holds
      <3>2. QED
        BY <1>1, <1>2, <2>1, <2>3, <3>1 DEF Take, TypeOK, LockOwner, Holds
    <2>4. QED
      BY <2>2, <2>3 DEF LockOwner
  <1>3. CASE Release(t)
    <2>1. Holds(t)'
      BY <1>1, <1>3 DEF Release, Goto, TypeOK, Holds
    <2>2. ASSUME NEW u \in Threads, u # t
          PROVE  Holds(u)'
      <3>1. src[u] # None => src[u] # src[t]
        BY <1>1, <2>2 DEF LockOwner, Holds
      <3>2. QED
        BY <1>1, <1>3, <2>2, <3>1 DEF Release, Goto, TypeOK, LockOwner, Holds
    <2>3. QED
      BY <2>1, <2>2 DEF LockOwner
  <1>4. CASE Stage(t) \/ Activate(t) \/ Clear(t) \/ Fail(t) \/ Return(t)
    BY <1>1, <1>4 DEF Stage, Activate, Clear, Fail, Return, Goto, TypeOK, LockOwner, Holds
  <1>5. QED
    BY <1>2, <1>3, <1>4 DEF Work, Unchanged, Changed

LEMMA InvStep == CatalogInv /\ [Next]_vars => CatalogInv'
  <1> SUFFICES ASSUME CatalogInv, [Next]_vars PROVE CatalogInv'
    OBVIOUS
  <1> USE CatalogAssumption DEF CatalogAssumption
  <1>1. TypeOK /\ LockOwner
    BY DEF CatalogInv
  <1>2. CASE Import
    <2>1. active' \in SUBSET Generations /\ Cardinality(active') <= 1
      <3>1. active' = {Unloaded}
        BY <1>2 DEF Import
      <3>2. Cardinality(active') = 1
        BY <3>1, OneGeneration, Zenon
      <3>3. QED
        BY <3>1, <3>2, UnloadedIsGeneration
    <2>2. QED
      BY <1>1, <1>2, <2>1 DEF Import, threadVars, CatalogInv, TypeOK, LockOwner, Holds
  <1>3. CASE Restart
    BY <1>1, <1>3, UnloadedIsGeneration
    DEF Restart, CatalogInv, TypeOK, LockOwner, Holds, Phases
  <1>4. CASE Tick
    BY <1>1, <1>4 DEF Tick, threadVars, CatalogInv, TypeOK, LockOwner, Holds
  <1>5. ASSUME NEW s \in Sources, Publish(s)
        PROVE  CatalogInv'
    BY <1>1, <1>5 DEF Publish, threadVars, CatalogInv, TypeOK, LockOwner, Holds
  <1>6. ASSUME NEW t \in Threads, Work(t)
        PROVE  CatalogInv'
    BY <1>6, WorkTypes, WorkLocks DEF CatalogInv
  <1>7. ASSUME NEW t \in Threads, NEW S \in (SUBSET Sources) \ {{}}, Query(t, S)
        PROVE  CatalogInv'
    <2>1. TypeOK'
      BY <1>1, <1>7 DEF Query, Goto, TypeOK, Phases
    <2>2. LockOwner'
      BY <1>1, <1>7 DEF Query, Goto, TypeOK, LockOwner, Holds
    <2>3. QED
      BY <2>1, <2>2 DEF CatalogInv
  <1>8. CASE UNCHANGED vars
    BY <1>1, <1>8 DEF vars, CatalogInv, TypeOK, LockOwner, Holds
  <1>9. QED
    BY <1>2, <1>3, <1>4, <1>5, <1>6, <1>7, <1>8 DEF Next

\* The inductive invariant holds in every reachable state.
THEOREM CatalogIsSound == Spec => []CatalogInv
  BY InitInv, InvStep, PTL DEF Spec

\* However many threads refresh the catalog, one at a time checks a source: the process-wide
\* lock that _source_lock hands out excludes every other thread from taking to releasing.
THEOREM OneThreadChecksASource == Spec => []OneChecker
  <1>1. CatalogInv => OneChecker
    BY DEF CatalogInv, LockOwner, Holds, OneChecker
  <1>2. QED
    BY <1>1, CatalogIsSound, PTL

\* With one source, what the active generation says of it is the last successful check.
LastCheckKnown ==
    /\ \A g \in active : \A s \in Sources : g[s].checked = checked[s]
    /\ active = {} => \A s \in Sources : checked[s] = 0

OneSourceInv == CatalogInv /\ LastCheckKnown /\ FetchedOncePerCadence

LEMMA OneSourceInit == Init => OneSourceInv
  <1> SUFFICES ASSUME Init PROVE OneSourceInv
    OBVIOUS
  <1>1. LastCheckKnown /\ FetchedOncePerCadence
    BY DEF Init, ThreadsInit, LastCheckKnown, FetchedOncePerCadence
  <1>2. QED
    BY <1>1, InitInv DEF OneSourceInv

LEMMA OneSourceStep ==
    ASSUME NEW s, Sources = {s}, OneSourceInv, [Next]_vars
    PROVE  OneSourceInv'
  <1> USE CatalogAssumption DEF CatalogAssumption
  <1>1. TypeOK /\ LockOwner /\ LastCheckKnown /\ FetchedOncePerCadence
    BY DEF OneSourceInv, CatalogInv
  <1>2. CatalogInv'
    BY InvStep DEF OneSourceInv
  <1>3. LastCheckKnown'
    <2>1. CASE Import
      BY <1>1, <2>1 DEF Import, LastCheckKnown, Unloaded
    <2>2. ASSUME NEW t \in Threads, Activate(t)
          PROVE  LastCheckKnown'
      <3>1. src[t] = s
        BY <1>1, <2>2 DEF Activate, Goto, LockOwner, Holds, TypeOK
      <3>2. QED
        BY <1>1, <2>2, <3>1 DEF Activate, TypeOK, LastCheckKnown
    <2>3. CASE UNCHANGED <<active, checked>>
      BY <1>1, <2>3 DEF LastCheckKnown
    <2>4. QED
      BY <2>1, <2>2, <2>3
      DEF Next, Work, Take, Unchanged, Changed, Stage, Clear, Fail, Release, Return, Restart,
          Tick, Publish, Query, vars
  <1>4. FetchedOncePerCadence'
    <2>1. ASSUME NEW t \in Threads, Take(t)
          PROVE  FetchedOncePerCadence'
      <3>1. Least(todo[t]) = s
        BY <1>1, <2>1, LeastLeft DEF Take, TypeOK
      <3>2. (\E g \in active : aged(g, s)) => now > checked[s] + Cadence[s]
        BY <1>1 DEF LastCheckKnown, aged
      <3>3. QED
        BY <1>1, <2>1, <3>1, <3>2 DEF Take, TypeOK, FetchedOncePerCadence
    <2>2. ASSUME NEW t \in Threads, Activate(t)
          PROVE  FetchedOncePerCadence'
      <3>1. src[t] = s /\ lock[s] = t
        BY <1>1, <2>2 DEF Activate, Goto, LockOwner, Holds, TypeOK
      <3>2. \A u \in Threads : pc[u] = "fetch" => u = t
        BY <1>1, <3>1 DEF LockOwner, Holds, TypeOK
      <3>3. QED
        BY <1>1, <2>2, <3>2 DEF Activate, Goto, TypeOK, FetchedOncePerCadence
    <2>3. CASE Tick
      <3>1. \A t \in Threads : pc[t] = "fetch" => src[t] = s
        BY <1>1 DEF LockOwner, Holds, TypeOK
      <3>2. checked[s] \in Nat /\ Cadence[s] \in Nat /\ now \in Nat
        BY <1>1 DEF TypeOK
      <3>3. QED
        BY <1>1, <2>3, <3>1, <3>2 DEF Tick, threadVars, FetchedOncePerCadence
    <2>4. ASSUME UNCHANGED <<now, checked>>,
                 \A t \in Threads : pc'[t] = "fetch" => pc[t] = "fetch" /\ src'[t] = src[t]
          PROVE  FetchedOncePerCadence'
      BY <1>1, <2>4 DEF FetchedOncePerCadence
    <2>5. ASSUME NEW t \in Threads, Stage(t) \/ Clear(t) \/ Fail(t) \/ Release(t) \/ Return(t)
          PROVE  FetchedOncePerCadence'
      BY <1>1, <2>4, <2>5 DEF Stage, Clear, Fail, Release, Return, Goto, TypeOK
    <2>6. ASSUME NEW t \in Threads, NEW S, Query(t, S)
          PROVE  FetchedOncePerCadence'
      BY <1>1, <2>4, <2>6 DEF Query, Goto, TypeOK
    <2>7. CASE Import \/ Restart \/ (\E r \in Sources : Publish(r)) \/ UNCHANGED vars
      BY <1>1, <2>4, <2>7 DEF Import, Restart, Publish, threadVars, vars, TypeOK
    <2>8. QED
      BY <2>1, <2>2, <2>3, <2>5, <2>6, <2>7 DEF Next, Work, Unchanged, Changed
  <1>5. QED
    BY <1>2, <1>3, <1>4 DEF OneSourceInv

\* While only one source is refreshed, no thread asks its provider again within the cadence of
\* the last successful check: refresh_if_relevant reads the generation under the source's lock.
THEOREM OneSourceIsCheckedOnce ==
    ASSUME NEW CONSTANT s, Sources = {s}
    PROVE  Spec => []FetchedOncePerCadence
  <1>1. OneSourceInv /\ [Next]_vars => OneSourceInv'
    BY OneSourceStep
  <1>2. OneSourceInv => FetchedOncePerCadence
    BY DEF OneSourceInv
  <1>3. QED
    BY <1>1, <1>2, OneSourceInit, PTL DEF Spec
-----------------------------------------------------------------------------
(* The catalog a start of the server serves, and the answers made from it. *)

\* What the marker vouches for: the masks of its package, and its catalog or one imported by hand.
Vouches(package, masks, catalog) == package # None => masks = package /\ catalog \in {package, Manual}

\* While masks and catalog are exchanged, nothing is vouched for, and what the start found can be
\* put back; before it and after it, masks, catalog and marker agree, unless a start ended inside.
InstallInv ==
    /\ broken \in BOOLEAN /\ at \in Install!Places
    /\ at \in {"down", "fetch", "move", "prepare", "serving"} => (~broken => Vouches(marker, current, served))
    /\ at \in {"fetch", "move"} => found = <<served, current, broken>>
    /\ at \in {"place", "activate"} =>
          /\ broken /\ found[3] \in BOOLEAN
          /\ ~found[3] => Vouches(marker, previous, served)
    /\ at = "activate" => current = pin
    /\ at \in {"discard", "mark"} => broken /\ served = pin /\ current = pin
    /\ at \in {"prepare", "serving"} =>
          broken \/ <<served, current, broken>> = found \/ (served = pin /\ current = pin /\ marker = pin)

LEMMA InstallBegins == Install!Init => InstallInv
  BY DEF Install!Init, InstallInv, Install!Places, Vouches

\* A start that has nothing to install, or whose download is refused.
LEMMA StartsKeep ==
    ASSUME InstallInv, Install!Start \/ Install!Fetch \/ Install!Refused \/ Install!Prepare
    PROVE  InstallInv'
  <1> USE DEF InstallInv, Install!Places, Install!disk, Install!counts, Install!Goto
  <1>1. CASE Install!Start
    <2>1. at = "down" /\ at' \in {"prepare", "fetch"} /\ found' = <<served, current, broken>>
          /\ UNCHANGED <<served, current, previous, marker, broken>>
      BY <1>1 DEF Install!Start
    <2>2. QED
      BY <2>1
  <1>2. CASE Install!Fetch
    BY <1>2 DEF Install!Fetch
  <1>3. CASE Install!Refused
    BY <1>3 DEF Install!Refused
  <1>4. CASE Install!Prepare
    BY <1>4 DEF Install!Prepare
  <1>5. QED
    BY <1>1, <1>2, <1>3, <1>4

\* The exchange of the masks and the activation of the catalog, done or put back.
LEMMA ExchangeKeeps ==
    ASSUME InstallInv,
           \/ Install!Move \/ Install!MoveFails \/ Install!Place \/ Install!PlaceFails
           \/ Install!Activate \/ Install!RollBack
    PROVE  InstallInv'
  <1> USE DEF InstallInv, Install!Places, Install!disk, Install!counts, Install!Goto
  <1>1. CASE Install!Move
    BY <1>1 DEF Install!Move
  <1>2. CASE Install!MoveFails
    BY <1>2 DEF Install!MoveFails
  <1>3. CASE Install!Place
    BY <1>3 DEF Install!Place
  <1>4. CASE Install!PlaceFails
    BY <1>4 DEF Install!PlaceFails
  <1>5. CASE Install!Activate
    BY <1>5 DEF Install!Activate
  <1>6. CASE Install!RollBack
    BY <1>6 DEF Install!RollBack
  <1>7. QED
    BY <1>1, <1>2, <1>3, <1>4, <1>5, <1>6

\* The marker, the end of a start, and what happens between two starts.
LEMMA EndsKeep ==
    ASSUME InstallInv,
           \/ Install!Discard \/ Install!WriteMarker \/ Install!MarkFails
           \/ Install!Stop \/ Install!Die \/ Install!Import
    PROVE  InstallInv'
  <1> USE DEF InstallInv, Install!Places, Install!disk, Install!counts, Install!Goto
  <1>1. CASE Install!Discard
    BY <1>1 DEF Install!Discard
  <1>2. CASE Install!WriteMarker
    BY <1>2 DEF Install!WriteMarker, Vouches
  <1>3. CASE Install!MarkFails
    BY <1>3 DEF Install!MarkFails
  <1>4. CASE Install!Stop
    BY <1>4 DEF Install!Stop
  <1>5. CASE Install!Die
    <2>1. /\ at' = "down" /\ broken' = broken /\ at # "down" /\ at # "serving"
          /\ UNCHANGED <<served, current, previous, marker, found>>
      BY <1>5 DEF Install!Die
    <2>2. QED
      BY <2>1
  <1>6. CASE Install!Import
    BY <1>6 DEF Install!Import, Vouches
  <1>7. QED
    BY <1>1, <1>2, <1>3, <1>4, <1>5, <1>6

LEMMA InstallKeeps == InstallInv /\ (Install!Next \/ UNCHANGED installVars) => InstallInv'
  <1> SUFFICES ASSUME InstallInv, Install!Next \/ UNCHANGED installVars PROVE InstallInv'
    OBVIOUS
  <1>1. CASE Install!Next
    BY <1>1, StartsKeep, ExchangeKeeps, EndsKeep DEF Install!Next
  <1>2. CASE UNCHANGED installVars
    BY <1>2 DEF installVars, InstallInv
  <1>3. QED
    BY <1>1, <1>2

\* Types of the cache of answers and of the requests that use it.
Moments == {"idle", "check", "mark", "look", "remark", "compute", "store", "return", "answered"}
Uses == {"mark", "look", "remark", "compute", "store", "return"}
Answers == [point : {k1, k2}, of : Nat \ {0}]
PointTypes ==
    /\ generation \in Nat \ {0} /\ cached \in Nat /\ cache \subseteq Answers
    /\ place \in [Callers -> Moments] /\ key \in [Callers -> {k1, k2}]
    /\ seen \in [Callers -> Nat] /\ answer \in [Callers -> Nat] /\ straddled \subseteq Nat

\* An answer from generation a may stand for b: it is no older, or a request carried it over.
Explains(a, b) == a >= b \/ \E h \in straddled : a < h /\ h <= b

\* What a request relies on: the answers in the cache stand for the generation it read, the one
\* it computed was carried over every activation since, and alone it finds what it stored.
Relies(c) ==
    /\ seen[c] <= generation
    /\ place[c] \in Uses => \A e \in cache : Explains(e.of, seen[c])
    /\ place[c] = "store" => answer[c] # 0 /\ \A h \in Nat : answer[c] < h /\ h <= generation => h \in straddled
    /\ place[c] = "answered" /\ answer[c] # 0 => Explains(answer[c], seen[c])
Met(c) ==
    c \notin met =>
        /\ place[c] \notin {"idle", "answered"} =>
              \A d \in Callers \ {c} : place[d] \in {"idle", "answered"}
        /\ place[c] = "return" => Points!Known(key[c])
        /\ place[c] = "answered" => answer[c] # 0
PointInv ==
    /\ PointTypes
    /\ cached <= generation /\ \A e \in cache : Explains(e.of, cached)
    /\ \A c \in Callers : Relies(c) /\ Met(c)

LEMMA PointsBegin == Points!Init => PointInv
  BY DEF Points!Init, PointInv, PointTypes, Moments, Uses, Relies, Met

\* An activation: whoever is under way carries what it computed over it.
LEMMA ActivationsKeep ==
    ASSUME PointInv, Points!Activate
    PROVE  PointInv'
  <1>1. /\ generation' = generation + 1 /\ straddled \subseteq straddled' /\ straddled' \subseteq Nat
        /\ UNCHANGED <<cached, cache, place, key, seen, answer, met>>
    BY DEF PointInv, PointTypes, Points!Activate, Points!locals
  <1>2. \A c \in Callers : place[c] = "store" => generation' \in straddled'
    BY DEF PointInv, PointTypes, Points!Activate, Points!UnderWay
  <1>3. \A a, b : Explains(a, b) => Explains(a, b)'
    BY <1>1 DEF Explains
  <1>4. ASSUME NEW c \in Callers PROVE Relies(c)'
    <2>1. place[c] = "store" => \A h \in Nat : answer[c] < h /\ h <= generation' => h \in straddled'
      BY <1>1, <1>2 DEF PointInv, PointTypes, Relies
    <2>2. QED
      BY <1>1, <1>3, <2>1 DEF PointInv, PointTypes, Relies
  <1>5. \A c \in Callers : Met(c)'
    BY <1>1 DEF PointInv, Met, Points!Known
  <1>6. QED
    BY <1>1, <1>3, <1>4, <1>5 DEF PointInv, PointTypes

\* What one request does leaves what the others rely on, as long as the answers in the cache
\* stand for every generation that is read.
LEMMA OthersRely ==
    ASSUME PointInv, PointTypes', NEW c \in Callers,
           UNCHANGED <<generation, straddled>>,
           \A d \in Callers \ {c} : place'[d] = place[d] /\ seen'[d] = seen[d] /\ answer'[d] = answer[d],
           \A e \in cache' \ cache : \A b \in Nat : b <= generation => Explains(e.of, b)
    PROVE  \A d \in Callers \ {c} : Relies(d)'
  BY DEF PointInv, PointTypes, Relies, Explains, Answers

LEMMA OthersAlone ==
    ASSUME PointInv, PointTypes', NEW c \in Callers, place[c] \notin {"idle", "answered"},
           UNCHANGED <<met, key>>,
           \A d \in Callers \ {c} : place'[d] = place[d] /\ answer'[d] = answer[d]
    PROVE  \A d \in Callers \ {c} : Met(d)'
  BY DEF PointInv, PointTypes, Met

\* A request finds the cache of its generation, or empties it.
LEMMA ChecksKeep ==
    ASSUME PointInv, NEW c \in Callers,
           Points!Keep(c) \/ Points!Clear(c) \/ Points!Mark(c) \/ Points!Hit(c) \/ Points!Miss(c) \/ Points!Remark(c)
    PROVE  PointInv'
  <1>1. /\ place[c] \in Uses \cup {"check"} /\ \E to \in Uses : place' = [place EXCEPT ![c] = to]
        /\ cache' \subseteq cache /\ cached' \in {0, cached, seen[c]}
        /\ UNCHANGED <<generation, key, seen, answer, straddled, met>>
    BY DEF PointInv, PointTypes, Points!Keep, Points!Clear, Points!Mark, Points!Hit, Points!Miss, Points!Remark, Points!Goto, Points!locals,
           Points!history, Uses
  <1>2. PointTypes' /\ cached' <= generation'
    BY <1>1 DEF PointInv, PointTypes, Relies, Moments, Uses
  <1>3. \A a, b : Explains(a, b) <=> Explains(a, b)'
    BY <1>1 DEF Explains
  <1>4. (\A e \in cache : Explains(e.of, cached))'
    <2>1. cached' = 0 => (\A e \in cache : Explains(e.of, cached))'
      BY <1>2 DEF Explains, PointTypes, Answers
    <2>2. cached' = seen[c] /\ place[c] \in Uses => (\A e \in cache : Explains(e.of, cached))'
      BY <1>1, <1>3 DEF PointInv, Relies
    <2>3. cached' = cached \/ cached' = 0 \/ (cached' = seen[c] /\ place[c] \in Uses)
      BY DEF PointInv, PointTypes, Points!Keep, Points!Clear, Points!Mark, Points!Hit, Points!Miss, Points!Remark, Points!Goto, Uses
    <2>4. QED
      BY <1>1, <1>3, <2>1, <2>2, <2>3 DEF PointInv
  <1>5. \A d \in Callers \ {c} : Relies(d)' /\ Met(d)'
    <2>1. place[c] \notin {"idle", "answered"}
      BY <1>1 DEF Uses
    <2>2. \A d \in Callers \ {c} : place'[d] = place[d]
      BY <1>1 DEF PointInv, PointTypes
    <2>3. QED
      BY <1>1, <1>2, <2>1, <2>2, OthersRely, OthersAlone
  <1>6. Relies(c)'
    <2>1. place'[c] # "store" /\ place'[c] # "answered"
      BY <1>1 DEF PointInv, PointTypes, Points!Keep, Points!Clear, Points!Mark, Points!Hit, Points!Miss, Points!Remark, Points!Goto
    <2>2. \A e \in cache' : Explains(e.of, seen[c])
      <3>1. CASE place[c] = "check"
        BY <1>1, <3>1 DEF PointInv, PointTypes, Points!Keep, Points!Clear, Points!Mark, Points!Hit, Points!Miss, Points!Remark, Points!Goto, Points!IsOld
      <3>2. CASE place[c] \in Uses
        BY <1>1, <3>2 DEF PointInv, Relies
      <3>3. QED
        BY <1>1, <3>1, <3>2
    <2>3. QED
      BY <1>1, <1>3, <2>1, <2>2 DEF PointInv, Relies
  <1>7. Met(c)'
    <2>1. place'[c] # "answered" /\ (place'[c] = "return" => Points!Known(key[c])')
      BY <1>1 DEF PointInv, PointTypes, Points!Keep, Points!Clear, Points!Mark, Points!Hit, Points!Miss, Points!Remark, Points!Goto, Points!Known
    <2>2. place[c] \notin {"idle", "answered"}
      BY <1>1 DEF Uses
    <2>3. QED
      BY <1>1, <2>1, <2>2 DEF PointInv, PointTypes, Met
  <1>8. QED
    BY <1>2, <1>4, <1>5, <1>6, <1>7 DEF PointInv

\* A request that begins beside others is known to have met them.
LEMMA BeginsKeep ==
    ASSUME PointInv, NEW c \in Callers, Points!Begin(c) \/ Points!Leave(c)
    PROVE  PointInv'
  <1>1. CASE Points!Leave(c)
    BY <1>1 DEF PointInv, PointTypes, Moments, Uses, Relies, Met, Explains, Points!Known, Points!Leave, Points!Goto, Points!locals, Points!history
  <1>2. CASE Points!Begin(c)
    <2>1. /\ place[c] = "idle" /\ place' = [place EXCEPT ![c] = "check"]
          /\ seen' = [seen EXCEPT ![c] = generation] /\ answer' = [answer EXCEPT ![c] = 0]
          /\ UNCHANGED <<generation, cached, cache, straddled>>
      BY <1>2 DEF Points!Begin, Points!Goto
    <2>2. PointTypes'
      BY <1>2, <2>1 DEF PointInv, PointTypes, Moments, Points!Begin
    <2>3. \A d \in Callers : Relies(d)'
      BY <2>1, <2>2 DEF PointInv, PointTypes, Relies, Explains, Uses
    <2>4. \A d \in Callers : Met(d)'
      <3> DEFINE others == {d \in Callers : Points!UnderWay(d)}
      <3>1. met' = IF others = {} THEN met \ {c} ELSE met \cup others \cup {c}
        BY <1>2 DEF Points!Begin
      <3>2. \A d \in Callers \ {c} : key'[d] = key[d] /\ place'[d] = place[d] /\ answer'[d] = answer[d]
        BY <1>2, <2>1 DEF PointInv, PointTypes, Points!Begin
      <3>3. CASE others = {}
        BY <2>1, <3>1, <3>2, <3>3 DEF PointInv, PointTypes, Met, Points!UnderWay, Points!Known
      <3>4. CASE others # {}
        BY <2>1, <3>1, <3>2, <3>4 DEF PointInv, PointTypes, Met, Points!UnderWay, Points!Known
      <3>5. QED
        BY <3>3, <3>4
    <2>5. QED
      BY <2>1, <2>2, <2>3, <2>4 DEF PointInv, Explains
  <1>3. QED
    BY <1>1, <1>2

\* It computes its answer and leaves it there.
LEMMA StoresKeep ==
    ASSUME PointInv, NEW c \in Callers, Points!Compute(c) \/ Points!Store(c)
    PROVE  PointInv'
  <1>1. CASE Points!Compute(c)
    <2>1. /\ place[c] = "compute" /\ place' = [place EXCEPT ![c] = "store"]
          /\ answer' = [answer EXCEPT ![c] = generation]
          /\ UNCHANGED <<generation, cached, cache, key, seen, straddled, met>>
      BY <1>1 DEF Points!Compute, Points!Goto, Points!history
    <2>2. PointTypes'
      BY <2>1 DEF PointInv, PointTypes, Moments
    <2>3. \A d \in Callers \ {c} : place'[d] = place[d] /\ answer'[d] = answer[d]
      BY <2>1 DEF PointInv, PointTypes
    <2>4. \A d \in Callers \ {c} : Relies(d)' /\ Met(d)'
      BY <2>1, <2>2, <2>3, OthersRely, OthersAlone
    <2>5. Relies(c)' /\ Met(c)'
      BY <2>1 DEF PointInv, PointTypes, Relies, Met, Explains, Uses
    <2>6. QED
      BY <2>1, <2>2, <2>4, <2>5 DEF PointInv, Explains
  <1>2. CASE Points!Store(c)
    <2> DEFINE e == [point |-> key[c], of |-> answer[c]]
    <2>1. /\ place[c] = "store" /\ place' = [place EXCEPT ![c] = "return"]
          /\ cache' = {d \in cache : d.point # key[c]} \cup {e}
          /\ UNCHANGED <<generation, cached, key, seen, answer, straddled, met>>
      BY <1>2 DEF Points!Store, Points!Goto, Points!locals, Points!history
    <2>2. /\ e \in Answers /\ e.point = key[c]
          /\ \A b \in Nat : b <= generation => Explains(e.of, b)
      BY <2>1 DEF PointInv, PointTypes, Relies, Answers, Explains
    <2> HIDE DEF e
    <2>3. PointTypes'
      BY <2>1, <2>2 DEF PointInv, PointTypes, Moments
    <2>4. cached' <= generation' /\ (\A d \in cache : Explains(d.of, cached))'
      BY <2>1, <2>2 DEF PointInv, PointTypes, Explains
    <2>5. \A d \in Callers \ {c} : place'[d] = place[d]
      BY <2>1 DEF PointInv, PointTypes
    <2>6. \A d \in Callers \ {c} : Relies(d)' /\ Met(d)'
      BY <2>1, <2>2, <2>3, <2>5, OthersRely, OthersAlone
    <2>7. Relies(c)'
      BY <2>1, <2>2, <2>3 DEF PointInv, PointTypes, Relies, Explains, Uses
    <2>8. Met(c)'
      BY <2>1, <2>2 DEF PointInv, PointTypes, Met, Points!Known
    <2>9. QED
      BY <2>3, <2>4, <2>6, <2>7, <2>8 DEF PointInv
  <1>3. QED
    BY <1>1, <1>2

\* It returns what the cache then holds.
LEMMA ReturnsKeep ==
    ASSUME PointInv, NEW c \in Callers, Points!Return(c)
    PROVE  PointInv'
  <1> DEFINE e == CHOOSE d \in cache : d.point = key[c]
  <1>1. /\ place[c] = "return" /\ place' = [place EXCEPT ![c] = "answered"]
        /\ answer' = [answer EXCEPT ![c] = IF Points!Known(key[c]) THEN e.of ELSE 0]
        /\ UNCHANGED <<generation, cached, cache, key, seen, straddled, met>>
    BY DEF Points!Return, Points!Goto, Points!history
  <1>2. Points!Known(key[c]) => e \in cache
    BY DEF Points!Known
  <1> HIDE DEF e
  <1>3. Points!Known(key[c]) => e.of \in Nat \ {0} /\ Explains(e.of, seen[c])
    BY <1>1, <1>2 DEF PointInv, PointTypes, Relies, Answers, Uses
  <1> DEFINE r == IF Points!Known(key[c]) THEN e.of ELSE 0
  <1>4. r \in Nat /\ (r # 0 => Explains(r, seen[c])) /\ (r = 0 => c \in met) /\ answer' = [answer EXCEPT ![c] = r]
    BY <1>1, <1>3 DEF PointInv, Met
  <1> HIDE DEF r
  <1>5. PointTypes'
    BY <1>1, <1>4 DEF PointInv, PointTypes, Moments
  <1>6. \A d \in Callers \ {c} : place'[d] = place[d] /\ answer'[d] = answer[d]
    BY <1>1, <1>4 DEF PointInv, PointTypes
  <1>7. \A d \in Callers \ {c} : Relies(d)' /\ Met(d)'
    BY <1>1, <1>5, <1>6, OthersRely, OthersAlone
  <1>8. Relies(c)' /\ Met(c)'
    BY <1>1, <1>4 DEF PointInv, PointTypes, Relies, Met, Explains, Uses
  <1>9. QED
    BY <1>1, <1>5, <1>7, <1>8 DEF PointInv, Explains

LEMMA PointsKeep ==
    ASSUME PointInv, Points!Next \/ UNCHANGED pointVars
    PROVE  PointInv'
  <1>1. CASE Points!Next
    BY <1>1, ActivationsKeep, BeginsKeep, ChecksKeep, StoresKeep, ReturnsKeep DEF Points!Next
  <1>2. CASE UNCHANGED pointVars
    BY <1>2 DEF pointVars, PointInv, PointTypes, Relies, Met, Explains, Points!Known
  <1>3. QED
    BY <1>1, <1>2

ServedInv == InstallInv /\ PointInv

\* A start serves the catalog it found or the whole package it was to install, and what the marker
\* vouches for is what is served, for any packages, starts and deaths, as long as no start ended
\* inside the exchange (deploy.py); and for any number of requests at once, a map point is answered
\* from a replaced generation only if a request under way carried that answer over an activation,
\* and fails only for a request that met another (catalog_point).
THEOREM OneCatalogIsServed == CatalogSpec => []ServesOneCatalog
  <1>1. CatalogInit => ServedInv
    BY InstallBegins, PointsBegin DEF CatalogInit, ServedInv
  <1>2. ServedInv /\ [CatalogNext]_all => ServedInv'
    <2> SUFFICES ASSUME ServedInv, [CatalogNext]_all PROVE ServedInv'
      OBVIOUS
    <2>1. (Install!Next \/ UNCHANGED installVars) /\ (Points!Next \/ UNCHANGED pointVars)
      BY DEF CatalogNext, Refreshes, all
    <2>2. QED
      BY <2>1, InstallKeeps, PointsKeep DEF ServedInv
  <1>3. ServedInv => ServesOneCatalog
    <2>1. InstallInv => Install!AllOrNothing /\ Install!MarkerIsTrue
      BY DEF InstallInv, Vouches, Install!AllOrNothing, Install!MarkerIsTrue
    <2>2. PointInv => Points!AnswersExplained
      BY DEF PointInv, Relies, Met, Explains, Points!AnswersExplained
    <2>3. QED
      BY <2>1, <2>2 DEF ServedInv, ServesOneCatalog
  <1>4. QED
    BY <1>1, <1>2, <1>3, PTL DEF CatalogSpec
=============================================================================
