----------------------------- MODULE MCEvidence -----------------------------
(***************************************************************************)
(* What answers rest on, for TLC: how evidence is collected (Ledger), and  *)
(* how coverage masks are taken from a provider's grid (Grid) or derived   *)
(* from a land-sea field (Domain).  They share no state; `subject` is the  *)
(* one a behaviour is about.                                               *)
(***************************************************************************)
EXTENDS Integers, Sequences, FiniteSets, TLC

CONSTANTS None,
          Batches, ArchiveLimit, Hops, Chunk, MaxDeaths, MaxLosses,  \* of Ledger
          Objects, Caps, Approved, Block, MaxRuns, MaxChanges         \* of Grid

VARIABLES subject,
          batch, ledger, bodies, flight, analysis, imported, wire, sent, deaths, losses,
          object, manifest, gridMask, meta, acquiring, given, built, seen, paid, tries, changes,
          scene, work, domain

ledgerVars == <<batch, ledger, bodies, flight, analysis, imported, wire, sent, deaths, losses>>
gridVars == <<object, manifest, gridMask, meta, acquiring, given, built, seen, paid, tries, changes>>
domainVars == <<scene, work, domain>>
evidenceVars == <<ledgerVars, gridVars, domainVars>>
-----------------------------------------------------------------------------
\* A page and its correction; a probe of a tight quota with an archive; two pages of one provider.
Approval(pr, pb, g, a, c, t, l, ar, of, e) ==
    [provider |-> pr, probe |-> pb, group |-> g, allowed |-> a, ceiling |-> c, total |-> t, limit |-> l,
     archive |-> ar, of |-> of, corrected |-> TRUE, errors |-> e]
page == Approval("ob", FALSE, "ob", 2, 3, 3, 2, FALSE, None, FALSE)
correction == Approval("ob", FALSE, "ob", 3, 3, 3, 2, FALSE, "page", FALSE)
probe == Approval("pvgis", TRUE, "pvgis", 2, 1, 4, 1, FALSE, None, TRUE)
archive == Approval("oedi", FALSE, "none", None, 3, 3, 2, TRUE, None, FALSE)
AllBatches ==
    {"page" :> page @@ "again" :> correction, "probe" :> probe @@ "zip" :> archive,
     "page" :> page @@ "other" :> [page EXCEPT !.limit = 1]}
Ledger == INSTANCE ResearchLedger

\* Budgets are numbers, and a group is limited for all of its requests or for none.
ApprovalType ==
    [provider : STRING, probe : BOOLEAN, group : STRING, allowed : Nat \cup {None}, ceiling : Nat, total : Nat,
     limit : Nat, archive : BOOLEAN, of : STRING \cup {None}, corrected : BOOLEAN, errors : BOOLEAN]
Outcomes ==
    {"revision_rejected", "provider_backoff", "provider_limit", "request_budget", "byte_budget", "deadline",
     "in_flight", "rate_limited", "not_modified", "redirect", "redirect_rejected", "redirect_limit", "http_error",
     "range_rejected", "byte_limit", "transport_error", "truncated_response", "sensitive_response", "saved"}
FlightType ==
    [id : STRING, hops : Nat, charged : Int, step : {"hop", "sent", "received", "kept"}, cap : Nat, read : Nat,
     outcome : Outcomes \cup {None}]
BatchSound(b) ==
    /\ IsFiniteSet(DOMAIN b) /\ DOMAIN b \subseteq STRING /\ \A i \in DOMAIN b : b[i] \in ApprovalType
    /\ \A i, j \in DOMAIN b : b[i].group = b[j].group /\ b[i].allowed = None => b[j].allowed = None
ASSUME LedgerAssumption ==
    /\ ArchiveLimit \in Nat /\ Hops \in Nat \ {0} /\ Chunk \in Nat
    /\ None \notin STRING /\ None \notin Nat /\ None \notin FlightType
    /\ \A b \in Batches : BatchSound(b)
-----------------------------------------------------------------------------
\* Versions with other rows, an unusable layout, invalid rows, a header too long for the caps.
Version(r, h, s, l, v) == [rows |-> r, header |-> h, spans |-> s, layout |-> l, valid |-> v]
AllVersions ==
    <<Version("a", 1, <<1, 2>>, TRUE, TRUE), Version("b", 1, <<1, 2>>, TRUE, TRUE),
      Version("c", 1, <<2>>, FALSE, TRUE), Version("d", 0, <<2>>, TRUE, FALSE), Version("a", 4, <<2>>, TRUE, TRUE)>>
Cap(b, r) == [bytes |-> b, requests |-> r]
AllCaps == {Cap(4, 4), Cap(4, 3), Cap(3, 4), Cap(9, 4)}
OwnersCap == Cap(5, 4)
Grid == INSTANCE GridEvidence WITH
    source <- object, mask <- gridMask, run <- acquiring, result <- given, spent <- paid, runs <- tries

CapType == [bytes : Nat, requests : Nat]
VersionType == [rows : STRING, header : Nat, spans : Seq(Nat), layout : BOOLEAN, valid : BOOLEAN]
Phases == {"known", "header", "table", "mask", "manifest"}
AcquisitionType ==
    [phase : Phases, etag : Nat, caps : CapType, bytes : Nat, requests : Nat, header : Nat, table : Seq(STRING)]
ManifestType ==
    [etag : Nat, meta : Seq(STRING), mask : SUBSET (Nat \X STRING), stale : BOOLEAN, bytes : Nat, requests : Nat]
ASSUME GridAssumption ==
    /\ None # "given" /\ None \notin AcquisitionType /\ None \notin ManifestType
    /\ Objects \in Seq(VersionType) /\ Objects # <<>> /\ Block \in Nat
    /\ Caps \subseteq CapType /\ Approved \in CapType /\ Approved.requests > 0
-----------------------------------------------------------------------------
\* Three rows of open, closed and enclosed water, one passage only across the date line.
Patterns ==
    {<<0, 0, 0, 0, 0, 0>>, <<2, 0, 0, 0, 0, 1>>, <<2, 2, 2, 2, 2, 0>>, <<0, 2, 2, 2, 2, 0>>,
     <<0, 0, 1, 2, 0, 0>>}
Field(rows) == [x \in (0..4) \X (0..5) |-> IF x[1] \in 1..3 THEN rows[x[1]][((x[2] + 3) % 6) + 1] ELSE 0]
Box(w, e, s, n) == [west |-> w, east |-> e, south |-> s, north |-> n]
AllScenes ==
    {[raw |-> Field(<<a, b, c>>), stations |-> s, shore |-> sh, probes |-> {<<<<0, 6>>, "outside">>}] :
        a, b, c \in Patterns, s \in {{}, {<<5, 11>>}},
        sh \in {{Box(3, 7, 2, 6)}, {Box(0, 2, 4, 8), Box(12, 16, 3, 6)}}}
SeaColumns ==
    [x \in (0..4) \X (0..4) |->
        IF x[1] = x[2] THEN CASE x[1] = 4 -> 3 [] x[1] = 3 -> 1 [] OTHER -> 0
        ELSE IF x \in {<<3, 4>>, <<4, 3>>} THEN 0 ELSE -1]
Domain == INSTANCE DomainMask WITH
    Scenes <- AllScenes, Rows <- 5, Columns <- 6, Across <- SeaColumns, InnerRows <- 1..2, OuterRows <- 0..3,
    OceanSeed <- <<0, 0>>, Land <- 2, Per <- 2,
    FineAcross <- [d \in 0..8 |-> CASE d = 0 -> 2 [] d = 1 -> 1 [] OTHER -> -1], Pad <- 1, Chunk <- 2,
    mask <- domain
-----------------------------------------------------------------------------
NoLedger ==
    /\ batch = None /\ ledger = None /\ bodies = {} /\ flight = None /\ analysis = None /\ imported = None
    /\ wire = 0 /\ sent = None /\ deaths = 0 /\ losses = 0
NoGrid == Grid!Init
NoDomain == scene = None /\ work = None /\ domain = None

NoEvidence == NoLedger /\ NoGrid /\ NoDomain
EvidenceInit ==
    \/ subject = "ledger" /\ Ledger!Init /\ NoGrid /\ NoDomain
    \/ subject = "grid" /\ Grid!Init /\ NoLedger /\ NoDomain
    \/ subject = "domain" /\ Domain!Init /\ NoLedger /\ NoGrid
EvidenceNext ==
    \/ subject = "ledger" /\ Ledger!Next /\ UNCHANGED <<subject, gridVars, domainVars>>
    \/ subject = "grid" /\ Grid!Next /\ UNCHANGED <<subject, ledgerVars, domainVars>>
    \/ subject = "domain" /\ Domain!Next /\ UNCHANGED <<subject, ledgerVars, gridVars>>
-----------------------------------------------------------------------------
\* Collection keeps to what was approved, asks nothing twice, and evidence is of whole bodies; a
\* grid's mask that loads is one version's, is stale once a newer was seen, and was paid within
\* approval.
EvidenceHolds == (subject = "ledger" => Ledger!CollectionHolds) /\ (subject = "grid" => Grid!EvidenceHolds)
=============================================================================
