---------------------------- MODULE ResearchLedger ----------------------------
(***************************************************************************)
(* How the evidence behind the availability catalog is gathered:           *)
(* Collector (scripts/mcp_research/collector.py) makes each approved       *)
(* request once, within budgets kept in a ledger that is saved before      *)
(* every hop; analyze (scripts/mcp_research/analysis.py) reads what was    *)
(* saved, and import_stage1 (openepw/availability/stage1.py) turns an      *)
(* analysis into a catalog.  The process may be killed at any step.        *)
(*                                                                         *)
(* What differs from request to request in the code (the approved rounds,  *)
(* provider caps and byte caps) is carried by the requests themselves.     *)
(***************************************************************************)
EXTENDS Integers, Sequences, FiniteSets, FiniteSetsExt

CONSTANTS None,
          Batches,       \* each: id -> [provider, probe, group, allowed, ceiling, total, limit, archive, of, corrected, errors]
          ArchiveLimit,  \* bytes approved for the scenario archive
          Hops,          \* requests of one redirect chain (4)
          Chunk,         \* by how much an error body may pass its allowance
          MaxDeaths, MaxLosses

VARIABLES batch,      \* the requests that may be made (scripts name them)
          ledger,     \* ledger.json: [records, attempts, charged, archive, blocked]
          bodies,     \* ids whose raw/<id>.body is whole
          flight,     \* None or the request under way: [id, hops, charged, step, cap, read, outcome]
          analysis,   \* analysis.json: None or [of, saved, errors]
          imported,   \* what the last import made its evidence of: None or [saved, bodies, ledger, analysis]
          wire, sent, \* history: bytes that were really read; how often each request was started
          deaths, losses

vars == <<batch, ledger, bodies, flight, analysis, imported, wire, sent, deaths, losses>>
history == <<wire, sent, deaths, losses>>
reading == <<batch, bodies, analysis, imported, losses>>
-----------------------------------------------------------------------------
Ids == DOMAIN batch
R(i) == batch[i]
Kind(i) == IF R(i).probe THEN "probe" ELSE "metadata"
Record(i) == {r \in ledger.records : r.id = i}
Saved == {r.id : r \in {x \in ledger.records : x.outcome = "saved"}}

\* Attempts are counted in hops, of finished and interrupted requests alike.
Hopped(i, n) == \E r \in Record(i) : n <= r.hops
Attempted == {i \in Ids : Hopped(i, 1)}
Attempts(group) ==
    Cardinality({x \in Ids \X (1..Hops) : R(x[1]).group = group /\ Hopped(x[1], x[2])})
IsSpent(i) == R(i).allowed # None /\ Attempts(R(i).group) >= R(i).allowed
Allowance(i) ==
    Min({R(i).limit, R(i).total - ledger.charged}
        \cup (IF R(i).archive THEN {ArchiveLimit - ledger.archive} ELSE {}))

\* A refused request may be corrected once, under an id of its own.
Revisable(i) ==
    \/ R(i).of = None
    \/ /\ \E r \in Record(R(i).of) : r.outcome # "saved"
       /\ R(i).corrected /\ R(R(i).of).of = None
       /\ ~\E r \in ledger.records : r.id # i /\ R(r.id).of = R(i).of
Refusals(i) ==
    IF ~Revisable(i) THEN {"revision_rejected"}
    ELSE IF R(i).provider \in ledger.blocked THEN {"provider_backoff"}
    ELSE IF IsSpent(i) THEN {"provider_limit"}
    ELSE IF Allowance(i) <= 0 THEN {"byte_budget"} ELSE {}

\* Each hop is checked again; the spacing between requests to a host may use up the deadline.
HopRefusals(i) ==
    IF IsSpent(i) THEN {"provider_limit"}
    ELSE IF ledger.attempts[Kind(i)] >= R(i).ceiling THEN {"request_budget"}
    ELSE IF Allowance(i) <= 0 THEN {"byte_budget", "deadline"} ELSE {"deadline"}
-----------------------------------------------------------------------------
\* save(): the record of the request under way as it stands, and the counters.
Put(records, i, hops, charged, outcome) ==
    {r \in records : r.id # i} \cup {[id |-> i, hops |-> hops, charged |-> charged, outcome |-> outcome]}
Finish(i, hops, charged, outcome) ==
    ledger' = [ledger EXCEPT !.records = Put(@, i, hops, charged, outcome)]

Init ==
    /\ batch \in Batches
    /\ ledger = [records |-> {}, attempts |-> [k \in {"probe", "metadata"} |-> 0],
                 charged |-> 0, archive |-> 0, blocked |-> {}]
    /\ bodies = {} /\ flight = None /\ analysis = None /\ imported = None
    /\ wire = 0 /\ sent = [i \in Ids |-> 0] /\ deaths = 0 /\ losses = 0

\* collect: whatever its outcome, a request in the ledger is not made again
\* (faulty: one that was interrupted is).
Unfinished(i) == \A r \in Record(i) : r.outcome = "in_flight"
Unknown(i) == Record(i) = {}
Refuse(i) ==
    /\ flight = None /\ Unknown(i)
    /\ \E o \in Refusals(i) : Finish(i, 0, 0, o)
    /\ UNCHANGED <<flight, reading, wire, sent, deaths>>
Begin(i) ==
    /\ flight = None /\ Unknown(i) /\ Refusals(i) = {}
    /\ flight' = [id |-> i, hops |-> 0, charged |-> 0, step |-> "hop", cap |-> Allowance(i),
                  read |-> 0, outcome |-> None]
    /\ UNCHANGED <<ledger, reading, history>>

At(step) == flight # None /\ flight.step = step
Stop ==
    /\ At("hop")
    /\ \E o \in HopRefusals(flight.id) : Finish(flight.id, flight.hops, flight.charged, o)
    /\ flight' = None
    /\ UNCHANGED <<reading, history>>

\* The whole allowance is charged and the ledger saved before anything is sent.
Reserve ==
    /\ At("hop")
    /\ HopRefusals(flight.id) = {"deadline"}
    /\ LET i == flight.id  cap == Min({flight.cap, Allowance(i)})
       IN /\ ledger' = [ledger EXCEPT
                 !.attempts[Kind(i)] = @ + 1, !.charged = @ + cap,
                 !.archive = IF R(i).archive THEN @ + cap ELSE @,
                 !.records = Put(@, i, flight.hops + 1, flight.charged + cap, "in_flight")]
          /\ flight' = [flight EXCEPT !.hops = @ + 1, !.charged = @ + cap, !.cap = cap, !.step = "sent"]
          /\ sent' = [sent EXCEPT ![i] = IF flight.hops = 0 THEN @ + 1 ELSE @]
    /\ UNCHANGED <<reading, wire, deaths>>

\* The answer.  A body of exactly the allowance counts only when its length was announced; the
\* body of an error is kept, in chunks, for some probes.
Answers ==
    {<<o, 0>> : o \in {"rate_limited", "not_modified", "redirect", "redirect_rejected", "http_error",
                       "range_rejected"}}
    \cup {<<o, n>> : o \in {"saved", "deadline", "transport_error", "truncated_response", "sensitive_response"},
                     n \in 0..flight.cap}
    \cup {<<"byte_limit", flight.cap>>}
    \cup (IF R(flight.id).errors THEN {<<"http_error", n>> : n \in 1..(flight.cap + Chunk)} ELSE {})
Receive ==
    /\ At("sent")
    /\ \E a \in Answers :
          /\ flight' = [flight EXCEPT !.outcome = a[1], !.read = a[2], !.step = "received"]
          /\ wire' = wire + a[2]
    /\ UNCHANGED <<ledger, reading, sent, deaths>>
\* An error nobody expected ends the request with its reservation.
Break ==
    /\ At("sent")
    /\ Finish(flight.id, flight.hops, flight.charged, "transport_error")
    /\ \E n \in 0..flight.cap : wire' = wire + n
    /\ flight' = None
    /\ UNCHANGED <<reading, sent, deaths>>

\* The body is replaced whole, or cannot be written and the request ends as one that failed.
Keep ==
    /\ At("received") /\ flight.outcome = "saved"
    /\ \/ bodies' = bodies \cup {flight.id} /\ flight' = [flight EXCEPT !.step = "kept"]
       \/ bodies' = bodies /\ flight' = [flight EXCEPT !.step = "kept", !.outcome = "transport_error"]
    /\ UNCHANGED <<batch, ledger, analysis, imported, history>>

\* The reservation shrinks to what was read; a redirect goes on while hops are left.
IsSettled == At("kept") \/ (At("received") /\ flight.outcome # "saved")
Settle ==
    /\ IsSettled
    /\ LET i == flight.id
           back == flight.read - flight.cap
           goesOn == flight.outcome = "redirect" /\ flight.hops < Hops
           outcome == IF flight.outcome = "redirect" /\ ~goesOn THEN "redirect_limit" ELSE flight.outcome
       IN /\ ledger' = [ledger EXCEPT
                 !.charged = @ + back, !.archive = IF R(i).archive THEN @ + back ELSE @,
                 !.blocked = IF outcome = "rate_limited" THEN @ \cup {R(i).provider} ELSE @,
                 !.records = Put(@, i, flight.hops, flight.charged + back, outcome)]
          /\ flight' = IF goesOn THEN [flight EXCEPT !.charged = @ + back, !.step = "hop", !.outcome = None]
                       ELSE None
    /\ UNCHANGED <<reading, history>>

\* The process is killed: what was read meanwhile counts, nothing is written.
Die ==
    /\ flight # None /\ deaths < MaxDeaths /\ deaths' = deaths + 1
    /\ \E n \in 0..(IF At("sent") THEN flight.cap ELSE 0) : wire' = wire + n
    /\ flight' = None
    /\ UNCHANGED <<ledger, reading, sent>>
-----------------------------------------------------------------------------
\* analyze: every saved snapshot is read and compared with its checksum.
Analyse ==
    /\ flight = None
    /\ analysis' = [of |-> ledger, saved |-> Saved, errors |-> Saved \ bodies]
    /\ UNCHANGED <<batch, ledger, bodies, flight, imported, history>>

\* import_stage1: an analysis of this very ledger without errors, and every snapshot once more.
Fits == analysis.of = ledger /\ analysis.errors = {}
Import ==
    /\ flight = None /\ analysis # None
    /\ Saved \subseteq bodies /\ Fits
    /\ imported' = [saved |-> Saved, of |-> analysis.saved, bodies |-> bodies]
    /\ UNCHANGED <<batch, ledger, bodies, flight, analysis, history>>

\* A snapshot is damaged or removed.
Lose(i) ==
    /\ i \in bodies /\ flight = None /\ losses < MaxLosses /\ losses' = losses + 1
    /\ bodies' = bodies \ {i}
    /\ UNCHANGED <<batch, ledger, flight, analysis, imported, wire, sent, deaths>>

Next ==
    \/ \E i \in Ids : Refuse(i) \/ Begin(i) \/ Lose(i)
    \/ Stop \/ Reserve \/ Receive \/ Break \/ Keep \/ Settle \/ Die \/ Analyse \/ Import
Spec == Init /\ [][Next]_vars
-----------------------------------------------------------------------------
Overrun == Chunk * Cardinality({i \in Attempted : R(i).errors})
Largest(S) == IF S = {} THEN 0 ELSE Max(S)

\* What crossed the wire is paid for, and nothing approved is passed: not the bytes, not the
\* requests of a kind or a group.  Only the last chunk of an error body may come on top.
BudgetsHold ==
    /\ wire <= ledger.charged + Overrun
    /\ ledger.charged <= Largest({R(i).total : i \in Attempted}) + Overrun
    /\ \A k \in {"probe", "metadata"} :
          ledger.attempts[k] <= Largest({R(i).ceiling : i \in {j \in Attempted : Kind(j) = k}})
    /\ \A i \in Attempted : R(i).allowed # None =>
          Attempts(R(i).group) <= Largest({R(j).allowed : j \in {x \in Attempted : R(x).group = R(i).group}})
\* No request is started twice and no more than one correction of it, whatever died in between.
NothingTwice ==
    /\ \A i \in Ids : sent[i] <= 1
    /\ \A i \in Ids : Cardinality({j \in Attempted : R(j).of = i}) <= 1
\* A record says "saved" of a body that was written whole, and an import has used all of them.
EvidenceIsWhole ==
    /\ losses = 0 => Saved \subseteq bodies
    /\ imported # None => imported.saved = imported.of /\ imported.saved \subseteq imported.bodies

CollectionHolds == BudgetsHold /\ NothingTwice /\ EvidenceIsWhole
=============================================================================
