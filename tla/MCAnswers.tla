----------------------------- MODULE MCAnswers -----------------------------
(***************************************************************************)
(* The way to an answer, for TLC, beside what it rests on (MCEvidence):    *)
(* what the person asks for (AgentRequest), what the catalog says of an    *)
(* option (Eligible), where a point lies to a mask (Mask), and how a       *)
(* request becomes a plan (Planning).  They share no state; `subject` is   *)
(* the one a behaviour is about.                                           *)
(***************************************************************************)
EXTENDS MCEvidence, AgentRequest

CONSTANTS p1, p2, amy, cds, tmy,
          Questions, Now   \* of Eligible

VARIABLES question, decision,
          masks, centred, coverage,
          request, stage, discovery, plan

eligibleVars == <<question, decision>>
maskVars == <<masks, centred, coverage>>
planVars == <<request, stage, discovery, plan>>
factVars == <<facts, form, mode, turn, agreed, spent>>
answerVars == <<eligibleVars, maskVars, planVars, factVars>>
all == <<subject, answerVars, evidenceVars>>
-----------------------------------------------------------------------------
\* Evidence: years, periods and windows of every kind, with and without a probe or a due check.
Evidence(k, y, f, t, w) ==
    [kind |-> k, years |-> y, from |-> f, to |-> t, cut |-> FALSE, window |-> w, probe |-> None,
     documented |-> TRUE, site |-> FALSE, other |-> FALSE, partial |-> FALSE, due |-> FALSE]
Plain ==
    {Evidence("actual", {1, 2}, None, None, None), Evidence("actual", {2}, None, None, None),
     Evidence("actual", {}, 2, None, None), Evidence("actual", {}, 1, 2, None),
     [Evidence("actual", {}, 1, 2, None) EXCEPT !.cut = TRUE],
     [Evidence("actual", {}, None, 2, None) EXCEPT !.documented = FALSE],
     Evidence("typical", {}, None, None, None), [Evidence("typical", {}, None, None, None) EXCEPT !.other = TRUE],
     Evidence("future", {}, None, None, 1), Evidence("future", {}, None, None, 2),
     [Evidence("future", {}, None, None, 1) EXCEPT !.partial = TRUE], Evidence("future", {}, None, None, None)}
Entries == {[e EXCEPT !.probe = p, !.due = d] : e \in Plain, p \in {None, "here", "elsewhere"}, d \in BOOLEAN}
One(S) == {<<e>> : e \in S}
Two ==
    {<<e, f>> : e \in {x \in Entries : x.probe = None \/ (x.probe = "elsewhere" /\ ~x.due)},
                f \in {x \in Plain : x.documented /\ ~x.partial /\ ~x.other /\ x.years = {}}}
Asked ==
    {<<"actual", {1}, None>>, <<"actual", {2}, None>>, <<"actual", {1, 2}, None>>, <<"actual", {2, 3}, None>>,
     <<"typical", {}, None>>, <<"future", {}, 1>>}
Question(a, p, f, b, v, l, w, es, d) ==
    [kind |-> a[1], years |-> a[2], window |-> a[3], provider |-> p, fits |-> f, barred |-> b, vague |-> v,
     land |-> l, place |-> w, entries |-> es, due |-> d]
AllQuestions ==
    {Question(a, p, TRUE, FALSE, FALSE, FALSE, w, es, FALSE) :
        a \in Asked, p \in {"nsrdb", "cds"}, w \in {None, "inside", "edge", "outside"}, es \in {<<>>} \cup One(Entries)}
    \cup {Question(a, p, TRUE, FALSE, FALSE, FALSE, w, es, FALSE) :
        a \in Asked, p \in {"nsrdb", "cds"}, w \in {"inside"}, es \in Two}
    \cup {Question(a, "cds", f, b, v, l, w, es, d) :
        a \in Asked, f \in BOOLEAN, b \in BOOLEAN, v \in BOOLEAN, l \in BOOLEAN, d \in BOOLEAN, w \in {None, "inside", "edge"}, es \in {<<>>} \cup One({x \in Plain : x.documented /\ ~x.other})}

Eligible == INSTANCE Eligibility

\* Years are numbers, and evidence is of a kind, a time and a place.
EntryType ==
    [kind : {"actual", "typical", "future"}, years : SUBSET Nat, from : Nat \cup {None}, to : Nat \cup {None},
     cut : BOOLEAN, window : Nat \cup {None}, probe : {None, "here", "elsewhere"}, documented : BOOLEAN,
     site : BOOLEAN, other : BOOLEAN, partial : BOOLEAN, due : BOOLEAN]
QuestionSound(q) ==
    /\ q \in [kind : {"actual", "typical", "future"}, years : SUBSET Nat, window : Nat \cup {None},
              provider : STRING, fits : BOOLEAN, barred : BOOLEAN, vague : BOOLEAN, land : BOOLEAN,
              place : {None, "inside", "edge", "outside"}, entries : Seq(EntryType), due : BOOLEAN]
    /\ IsFiniteSet(q.years) /\ \A n \in DOMAIN q.entries : IsFiniteSet(q.entries[n].years)
ASSUME QuestionAssumption ==
    Now \in Nat /\ None \notin {"here", "elsewhere", "supported"} /\ \A q \in Questions : QuestionSound(q)
-----------------------------------------------------------------------------
\* Runs that touch, overlap and reach the date line, of one or two masks.
Runs == {r \in (0..1) \X (0..3) \X (1..4) : r[2] < r[3]}
Footprint(runs, edge, fine, step) == [runs |-> runs, edge |-> edge, fine |-> fine, step |-> step]
Single == {<<Footprint({a, b}, None, {}, 1)>> : a \in Runs, b \in Runs}
Pairs ==
    {<<Footprint({a}, e, {<<1, 1>>}, 1), Footprint({b}, f, {}, s)>> :
        a \in Runs, b \in {r \in Runs : r[1] = 0}, e \in {None, {<<0, 1, 3>>}}, f \in {{}, None, {<<1, 0, 1>>}}, s \in {1, 2}}

Mask == INSTANCE CoverageMask WITH Rows <- 2, Columns <- 4, Masks <- Single \cup Pairs
-----------------------------------------------------------------------------
\* A station, two published files and a grid; points that collide, repeat or differ in height.
Item(p, d, pr, v, k, l, g, m, c) ==
    [provider |-> p, dataset |-> d, product |-> pr, variant |-> v, kind |-> k, listed |-> l,
     grade |-> g, missing |-> m, gated |-> c]
AllItems ==
    <<Item("noaa", "isd", "s1", None, "station", TRUE, 0, 1, FALSE), Item("file", "tmy", "f1", "new", "file", FALSE, 0, 0, FALSE),
      Item("file", "tmy", "f2", "old", "file", TRUE, 0, 0, FALSE), Item("grid", "era", None, None, "grid", FALSE, 0, 0, TRUE)>>
Point(key, rest, fractional) == [key |-> key, place |-> "pa", rest |-> rest, fractional |-> fractional]
low == Point("a", 0, FALSE)
high == Point("a", 60, FALSE)
Selection(p, d, pr) == [provider |-> p, dataset |-> d, product |-> pr, variant |-> None]
RequestFor(ps, pr, ys, ss, h) ==
    [points |-> ps, product |-> pr, years |-> ys, selections |-> ss, hybrid |-> h,
     providers |-> <<>>, dataset |-> None, product_id |-> None]
AllRequests ==
    {RequestFor(<<low, high>>, "historical", <<1>>, <<>>, None),
     RequestFor(<<low, low>>, "tmy", <<>>, <<Selection("file", "tmy", "f2"), Selection("file", "tmy", None)>>, None),
     RequestFor(<<low>>, "historical", <<1, 2>>, <<Selection("noaa", "isd", None), Selection("grid", "era", None)>>, None),
     RequestFor(<<low>>, "historical", <<1, 2>>, <<>>, <<"noaa", "grid">>),
     RequestFor(<<low, high>>, "historical", <<1, 2>>, <<>>, <<"noaa", "grid">>),
     RequestFor(<<low>>, "tmy", <<>>, <<>>, <<"noaa">>),
     RequestFor(<<Point("a", 30, TRUE)>>, "historical", <<1>>, <<>>, None),
     RequestFor(<<low, low, low>>, "historical", <<1, 2>>, <<>>, None),
     RequestFor(<<low>>, "historical", <<>>, <<>>, None),
     RequestFor(<<low>>, "tmy", <<>>, <<Selection("file", "tmy", None), Selection("file", "tmy", None)>>, None),
     RequestFor(<<low>>, "historical", <<1>>, <<>>, <<>>),
     [RequestFor(<<low>>, "historical", <<1>>, <<>>, None) EXCEPT !.providers = <<"grid", "noaa">>],
     [RequestFor(<<low>>, "tmy", <<>>, <<>>, None) EXCEPT !.dataset = "tmy", !.product_id = "f2"],
     RequestFor(<<low>>, "tmy", <<>>, <<[Selection("file", "tmy", None) EXCEPT !.variant = "old"]>>, None)}
Others == {RequestFor(<<high>>, "tmy", <<>>, <<>>, None), RequestFor(<<Point("b", 0, FALSE)>>, "tmy", <<>>, <<>>, None)}
AllFindings ==
    {f \in [1..4 -> {"supported", "unknown", "excluded", "expired", "absent"}] :
        /\ f[1] \in {"supported", "excluded"} /\ f[2] \in {"unknown", "expired"}
        /\ f[3] \in {"supported", "unknown", "excluded"} /\ f[4] \in {"unknown", "absent"}}

Planning == INSTANCE WeatherPlanning WITH
    Items <- AllItems, Requests <- AllRequests, Handed <- Others, Findings <- AllFindings,
    Providers <- <<"noaa", "file", "grid">>, MaxOutputs <- 4, MaxTasks <- 6, OptionLimit <- 3
-----------------------------------------------------------------------------
\* What the person may write: years plainly, years in a question, a place, a kind of data.
Says(ys, asked, k, p) == [years |-> ys, question |-> asked, kind |-> k, place |-> p]
Said == {Says({1}, FALSE, Unset, p1), Says({2}, TRUE, Unset, Unset), Says({}, FALSE, "typical", p2)}
SaidGroup == amy :> "direct" @@ cds :> "queued" @@ tmy :> "typical"
-----------------------------------------------------------------------------
NoQuestion == question = None /\ decision = None
NoMask == masks = None /\ centred = FALSE /\ coverage = None
NoRequest == request = None /\ stage = None /\ discovery = None /\ plan = None

NoWords == Init /\ mode = "guided"

NoAnswer == NoQuestion /\ NoMask /\ NoRequest /\ NoWords
AnswersInit ==
    \/ subject = "eligible" /\ Eligible!Init /\ NoMask /\ NoRequest /\ NoWords /\ NoEvidence
    \/ subject = "mask" /\ Mask!Init /\ NoQuestion /\ NoRequest /\ NoWords /\ NoEvidence
    \/ subject = "planning" /\ Planning!Init /\ NoQuestion /\ NoMask /\ NoWords /\ NoEvidence
    \/ subject = "facts" /\ Init /\ NoQuestion /\ NoMask /\ NoRequest /\ NoEvidence
    \/ EvidenceInit /\ NoAnswer
AnswersNext ==
    \/ subject = "eligible" /\ Eligible!Next /\ UNCHANGED <<subject, maskVars, planVars, factVars, evidenceVars>>
    \/ subject = "mask" /\ Mask!Next /\ UNCHANGED <<subject, eligibleVars, planVars, factVars, evidenceVars>>
    \/ subject = "planning" /\ Planning!Next /\ UNCHANGED <<subject, eligibleVars, maskVars, factVars, evidenceVars>>
    \/ subject = "facts" /\ Next /\ UNCHANGED <<subject, eligibleVars, maskVars, planVars, evidenceVars>>
    \/ EvidenceNext /\ UNCHANGED answerVars
AnswersSpec == AnswersInit /\ [][AnswersNext]_all
-----------------------------------------------------------------------------
\* What the catalog says of an option (_assess): "supported" rests on evidence for that point and
\* time, and a check that falls due only weakens it.
SupportIsEarned == Eligible!SupportedIsEvidenced /\ Eligible!DueOnlyWeakens

\* Where a mask puts a point: GridCoverage.where agrees with the squares its mask names, across the
\* date line too, and a derived mask says exactly what its rule says of every cell.
MasksAreTrue == Mask!WhereIsTrue /\ (subject = "domain" => Domain!DomainHolds)

\* Every demand of a request has its row; each status is right, no plan breaks its own rules, what
\* an output fetches is what its point asked for, and a planned row takes the best option that
\* leads to anything.
PlanHolds == Planning!PlanAccounts /\ Planning!OutputsFetchWhatWasAsked /\ Planning!BestIsPlanned
=============================================================================
