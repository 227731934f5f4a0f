---------------------------- MODULE AgentRequest ----------------------------
(***************************************************************************)
(* The facts of a weather request and the gates before a plan: Facts       *)
(* (agent/state.py), agent/gates.py, and what the guided rules, the forms  *)
(* and the model's calls do to them (agent/guided.py, agent/host.py,       *)
(* agent/policy_model.py).                                                 *)
(*                                                                         *)
(* The person writes, answers forms and switches modes; in agent mode the  *)
(* model calls tools.  Any tool may fail and leave what was done before it. *)
(* `agreed` is not in the code: it is what the person has said yes to.     *)
(* Bookkeeping of calls and strikes is in AgentTurn, Back in AgentHost.    *)
(***************************************************************************)
EXTENDS Naturals, FiniteSets

CONSTANTS Unset,
          Places, Years,
          Products,       \* the products an offer may be about
          Texts,          \* what the person may write: [years, question, kind, place]
          Group,          \* of each product: "direct" or "queued" (actual years), "typical"
          MaxInputs, MaxCalls

VARIABLES facts, form, mode,
          turn,           \* what the person wrote, while the model has its turn
          agreed,         \* [place, picks, years, asked]
          spent

vars == <<facts, form, mode, turn, agreed, spent>>

Kinds == {Unset, "historical", "typical"}
SomePlace == Places \cup {Unset}
\* A text names years, asks or not, and may name a kind and a place.
TextType == [years : SUBSET Years, question : BOOLEAN, kind : Kinds, place : SomePlace]
ASSUME TextAssumption == Texts \subseteq TextType

NoOffers == [ids |-> {}, years |-> {}]
NoFacts == [stage |-> "request", place |-> Unset, picking |-> FALSE, review |-> Unset, approved |-> Unset,
            pref |-> Unset, by |-> "text", offers |-> NoOffers, chosen |-> {}, recheck |-> FALSE,
            years |-> {}, asked |-> {}, plans |-> {}, jobs |-> "none"]
Nothing == [place |-> Unset, picks |-> {}, years |-> {}, asked |-> {}]

Init ==
    /\ facts = NoFacts /\ form = Unset /\ agreed = Nothing /\ turn = Unset
    /\ mode \in {"guided", "agent"}
    /\ spent = [inputs |-> 0, calls |-> 0]
-----------------------------------------------------------------------------
(* Facts. *)

Actual(q) == Group[q] # "typical"
Matches(q, k) == k = Unset \/ (k = "historical") = Actual(q)
NeedsYears(f) == \E q \in f.chosen : Actual(q)
Confirmed(f) == f.years \ f.asked
Reviewed(f) == f.review # Unset /\ f.approved = f.review

\* set_geography and change (faulty: products picked for another place are kept as they are).
SetPlaceKeeping(f, p) ==
    [f EXCEPT !.place = p, !.picking = FALSE, !.review = Unset, !.approved = Unset, !.offers = NoOffers,
              !.plans = {}]
SetPlace(f, p) ==
    [f EXCEPT !.place = p, !.picking = FALSE, !.review = Unset, !.approved = Unset, !.offers = NoOffers,
              !.recheck = f.chosen # {}, !.plans = {}]
SetPreference(f, k, by) ==
    [f EXCEPT !.pref = k, !.by = by, !.offers = NoOffers, !.plans = {},
              !.recheck = @ \/ \E q \in f.chosen : ~Matches(q, k)]
SetChosen(f, picks) == [f EXCEPT !.chosen = picks, !.recheck = FALSE, !.plans = {}]
SetYears(f, years, asked) ==
    [f EXCEPT !.years = years, !.asked = asked \cap years, !.plans = {},
              !.offers = IF years # f.years THEN NoOffers ELSE @]
ConfirmYears(f, years) ==
    IF years \cap f.asked = {} THEN f ELSE [f EXCEPT !.asked = @ \ years, !.plans = {}]
NewRequest(f) == NoFacts
-----------------------------------------------------------------------------
(* A session s is [facts, form, agreed].  What may happen to it is a set of sessions. *)

Session == [facts |-> facts, form |-> form, agreed |-> agreed]
Put(s, f) == [s EXCEPT !.facts = f]

\* The place becomes another one: what was agreed for the earlier one no longer counts.
Placed(s, p) ==
    [s EXCEPT !.facts = SetPlace(@, p),
              !.agreed = IF p = s.facts.place THEN @ ELSE [@ EXCEPT !.place = Unset, !.picks = {}]]
Anew(s) == [s EXCEPT !.facts = NewRequest(@), !.agreed = Nothing]

\* A form shows what the facts are when it opens.
Shown(gate, call, change, f) ==
    [gate |-> gate, call |-> call, change |-> change, back |-> {},
     place |-> f.review, offers |-> f.offers.ids, plans |-> f.plans]
Open(s, gate) == [s EXCEPT !.form = Shown(gate, FALSE, FALSE, s.facts)]
Close(s) == [s EXCEPT !.form = Unset]
Shows(gate) == form # Unset /\ form.gate = gate
ShowsCurrent(s) == s.form # Unset /\ s.form.gate = "review_plan" /\ s.form.plans = s.facts.plans

\* fetch_offers: whatever the service offers of a kind; empty when the tool fails.
Fetched(s, k) ==
    {Put(s, [s.facts EXCEPT !.offers = [ids |-> ids, years |-> s.facts.years]]) :
        ids \in SUBSET {q \in Products : Matches(q, k)}}

\* refresh_offers: chosen products no longer offered must be chosen again.
IsStale(f) == f.offers.ids = {} /\ f.chosen # {} /\ ~f.recheck /\ Reviewed(f)
Refreshed(s) ==
    IF ~IsStale(s.facts) THEN {s}
    ELSE LET k == IF \A q \in s.facts.chosen : Matches(q, s.facts.pref) THEN s.facts.pref ELSE Unset
         IN {Put(r, [r.facts EXCEPT !.chosen = @ \cap r.facts.offers.ids,
                                    !.recheck = ~(s.facts.chosen \subseteq r.facts.offers.ids)]) :
                r \in Fetched(s, k)}

\* build_requests: one request for each kind chosen, of approved facts only.
Ready(f) ==
    /\ Reviewed(f) /\ f.chosen # {} /\ ~f.recheck
    /\ NeedsYears(f) => Confirmed(f) # {}
Request(f, g) ==
    [group |-> g, picks |-> {q \in f.chosen : Group[q] = g},
     years |-> IF g = "typical" THEN {} ELSE Confirmed(f)]
BuildRequests(f) == {Request(f, Group[q]) : q \in f.chosen}

Planned(f, r) == [group |-> r.group, picks |-> r.picks, place |-> f.review, years |-> r.years, job |-> FALSE]

\* next_need.
Need(f) ==
    CASE f.stage = "results" -> IF f.jobs = "running" THEN "jobs" ELSE "next_steps"
      [] f.stage = "request" /\ f.picking -> "choose_location"
      [] f.stage = "request" /\ ~f.picking /\ f.place = Unset -> "where"
      [] f.stage = "request" /\ ~f.picking /\ f.place # Unset /\ ~Reviewed(f) -> "review_location"
      [] OTHER ->
            IF f.chosen = {} \/ f.recheck THEN "choose_products"
            ELSE IF NeedsYears(f) /\ Confirmed(f) = {}
                 THEN IF f.asked # {} THEN "review_request" ELSE "years"
            ELSE IF f.plans = {} THEN "plan"
            ELSE IF f.jobs = "none" \/ \E p \in f.plans : ~p.job THEN "review_plan" ELSE "jobs"

\* GuidedPolicy.advance and _plan; a tool that fails leaves the session there.
OpensNeed(s) ==
    LET n == Need(s.facts) IN
    CASE n = "jobs" -> {Close(s)}
      [] n = "review_location" /\ s.facts.review = Unset ->
            {s, Open(Put(s, [s.facts EXCEPT !.review = s.facts.place]), n)}
      [] n = "choose_products" /\ s.facts.offers.ids = {} ->
            {s} \cup {Open(r, n) : r \in Fetched(s, s.facts.pref)}
      [] n = "review_plan" /\ ShowsCurrent(s) -> {s}
      [] OTHER -> {Open(s, n)}
Plans(s) ==
    LET all == [s.facts EXCEPT !.plans = {Planned(s.facts, r) : r \in BuildRequests(s.facts)}]
        none == [s.facts EXCEPT !.chosen = {}, !.plans = {}]
    IN IF s.facts.recheck THEN OpensNeed(s)
       ELSE {s} \cup OpensNeed(Put(s, all)) \cup OpensNeed(Put(s, none))
Advance(s) ==
    IF Need(s.facts) # "plan" THEN OpensNeed(s)
    ELSE {s} \cup UNION {Plans(r) : r \in Refreshed(s)}
-----------------------------------------------------------------------------
(* The person's words. *)

Heard(s, t) ==
    IF t.question THEN [s EXCEPT !.agreed.asked = @ \cup t.years]
    ELSE [s EXCEPT !.agreed.years = @ \cup t.years]
Preferring(f, t) == IF t.kind \in {Unset, f.pref} THEN f ELSE SetPreference(f, t.kind, "text")

\* _note_text: years add up; those of a question wait for a yes.
NoteText(f, t) ==
    LET g == Preferring(f, t) IN
    IF t.question
    THEN IF t.years \subseteq g.years THEN g ELSE SetYears(g, g.years \cup t.years, g.asked \cup (t.years \ g.years))
    ELSE IF t.years \subseteq Confirmed(g) THEN g ELSE SetYears(g, g.years \cup t.years, g.asked \ t.years)

\* _read_time_and_product: years replace the years, unless a reference product is meant.
ReadText(f, t) ==
    LET g == Preferring(f, t)
        asked == IF t.question THEN t.years \ Confirmed(g) ELSE {}
        h == IF t.years = g.years /\ asked = g.asked THEN g ELSE SetYears(g, t.years, asked)
    IN IF t.years = {} \/ t.kind = "typical" \/ (t.kind = Unset /\ g.chosen # {} /\ ~NeedsYears(g)) THEN g
       ELSE IF h.pref = Unset THEN [h EXCEPT !.pref = "historical", !.by = "text"] ELSE h

\* _read_place: one place, none, or several to choose from.
ReadsPlace(s, p) ==
    IF p = Unset THEN {s}
    ELSE {Placed(s, p), LET r == Placed(s, Unset) IN Put(r, [r.facts EXCEPT !.picking = TRUE]),
          Put(s, [s.facts EXCEPT !.picking = FALSE])}

\* release, before a change of a part.
Running(f) == \E p \in f.plans : p.job
Released(s, close) ==
    LET r == Put(s, [s.facts EXCEPT !.plans = {}])
    IN IF close \/ s.form = Unset THEN Close(r) ELSE [r EXCEPT !.form.call = FALSE]

Changing(s, gate) == [s EXCEPT !.form = Shown(gate, FALSE, TRUE, s.facts)]
ChangesProducts(s) ==
    IF ~Reviewed(s.facts) THEN Advance(s)
    ELSE {s} \cup {Changing(r, "choose_products") : r \in Fetched(s, s.facts.pref)}
ChangesPart(s) ==
    IF Running(s.facts) THEN {s}
    ELSE LET r == Released(s, TRUE) IN
         {Changing(r, "where"), Changing(r, "years")} \cup ChangesProducts(r)
         \cup ChangesProducts(Put(r, SetPreference(r.facts, Unset, "form")))

\* revise: a correction on the plan review or the request summary.
Revises(s, t) ==
    IF Running(s.facts) THEN {s}
    ELSE LET r == Released(s, FALSE) IN
         {r} \cup UNION {Advance(q) : q \in (IF t.place # Unset THEN ReadsPlace(r, t.place)
                                              ELSE {Put(r, ReadText(r.facts, t))})}

\* GuidedPolicy.on_text.
GuidedText(s, t) ==
    LET start == IF s.form # Unset /\ s.form.gate = "next_steps" THEN Heard(Anew(s), t) ELSE s
        read == Put(start, ReadText(start.facts, t))
        at == IF s.form = Unset THEN "where" ELSE s.form.gate
        places == IF at \in {"where", "choose_location", "review_location", "next_steps"}
                  THEN ReadsPlace(read, t.place) ELSE {read}
    IN {s, read} \cup (UNION {Advance(r) : r \in places})
       \cup (IF at \in {"review_plan", "review_request"} THEN Revises(s, t) ELSE {})
-----------------------------------------------------------------------------
(* Inputs. *)

Become(S) == \E s \in S : facts' = s.facts /\ form' = s.form /\ agreed' = s.agreed
Input ==
    /\ turn = Unset /\ spent.inputs < MaxInputs
    /\ spent' = [spent EXCEPT !.inputs = @ + 1]
ByRules(S) == Input /\ Become(S) /\ UNCHANGED <<mode, turn>>
ToModel(S, t) == Input /\ Become(S) /\ turn' = t /\ UNCHANGED mode
Silent == [years |-> {}, question |-> FALSE, kind |-> Unset, place |-> Unset]

\* An answer goes to the model if it asked, to the guided rules otherwise.
Answers(s) == IF mode = "agent" /\ form.call THEN ToModel({Close(s)}, Silent) ELSE ByRules(Advance(s))

Write ==
    \E t \in Texts :
       LET s == Heard(Session, t) IN
       \/ (mode = "guided" \/ (form # Unset /\ form.change)) /\ ByRules(GuidedText(s, t))
       \/ mode = "agent" /\ (Shows("review_plan") \/ Shows("review_request")) /\ ByRules(Revises(s, t))
       \/ /\ mode = "agent" /\ ~(form # Unset /\ form.change)
          /\ LET r == Put(s, NoteText(s.facts, t))
             IN ToModel({IF form # Unset /\ form.call THEN Close(r) ELSE r}, t)

GivePlace ==
    /\ Shows("where") \/ Shows("choose_location")
    /\ \E p \in Places : ByRules(Advance(Placed(Session, p)))
ApproveLocation ==
    /\ Shows("review_location") /\ facts.review # Unset
    /\ Answers([Put(Session, [facts EXCEPT !.approved = facts.review]) EXCEPT !.agreed.place = form.place])

\* choose: the years the offers are about are confirmed with them; guided rules forget years that
\* no chosen product needs.
Agrees(s) == [s EXCEPT !.agreed.years = @ \cup s.agreed.asked]
Choose ==
    /\ Shows("choose_products")
    /\ \E picks \in (SUBSET form.offers) \ {{}} :
          LET f == ConfirmYears(SetChosen(facts, picks \cap facts.offers.ids), facts.offers.years)
              g == IF NeedsYears(f) \/ (mode = "agent" /\ form.call) THEN f
                   ELSE [f EXCEPT !.years = {}, !.asked = {}]
          IN Answers([Put(Agrees(Session), g) EXCEPT !.agreed.picks = @ \cup picks])

\* confirm_request, then answer_summary: back to the form the summary was opened over.
ApproveRequest ==
    /\ Shows("review_request")
    /\ LET f == ConfirmYears(facts, facts.asked)
           s == Put(Agrees(Session), [f EXCEPT !.by = IF @ = "model" THEN "form" ELSE @])
       IN IF mode = "guided" \/ form.call \/ form.back = {} THEN Answers(s)
          ELSE \E b \in form.back :
                  ByRules({IF b = Unset \/ (b.gate = "review_plan" /\ f.plans = {})
                           THEN Close(s) ELSE [s EXCEPT !.form = b]})
ShowRequest ==
    LET back == IF Shows("review_request") THEN form.back ELSE {form}
    IN ByRules({[Open(Session, "review_request") EXCEPT !.form.back = back]})

Change ==
    /\ Shows("review_plan") \/ Shows("review_request")
    /\ ByRules(ChangesPart(Session))

\* run_plans: the plans shown, all or only some of them; otherwise the review opens again.
Start(s, S) ==
    Put(s, [s.facts EXCEPT !.plans = {IF p \in S THEN [p EXCEPT !.job = TRUE] ELSE p : p \in @},
                           !.jobs = IF S = {} THEN @ ELSE "running"])
Reopens(s) == IF mode = "agent" /\ form.call THEN {[s EXCEPT !.form.plans = s.facts.plans]} ELSE Advance(s)
Run ==
    /\ Shows("review_plan")
    /\ IF ~ShowsCurrent(Session) THEN ByRules(Reopens(Session))
       ELSE \E S \in SUBSET {p \in facts.plans : ~p.job} :
               ByRules(IF \A p \in facts.plans : p.job \/ p \in S THEN {Close(Start(Session, S))}
                       ELSE {Start(Session, S)} \cup Reopens(Start(Session, S)))

NextSteps == Shows("next_steps") /\ ByRules(Advance(Anew(Session)) \cup {Session})
AskAnew ==
    ByRules(LET s == Close(Anew(Session)) IN IF mode = "agent" THEN {s} ELSE Advance(s))
SwitchMode ==
    /\ Input /\ UNCHANGED turn
    /\ mode' = IF mode = "agent" THEN "guided" ELSE "agent"
    /\ LET open == form = Unset \/ form.call
           s == IF open THEN Close(Session) ELSE Session
       IN Become(IF open /\ mode = "agent" THEN Advance(s) ELSE {s})

\* _jobs_done.
JobsDone ==
    /\ turn = Unset /\ facts.jobs = "running"
    /\ Become(LET s == Close(Put(Session, [facts EXCEPT !.jobs = "done", !.stage = "results"]))
              IN IF mode = "agent" THEN {Open(s, "next_steps")} ELSE Advance(s))
    /\ UNCHANGED <<mode, turn, spent>>
-----------------------------------------------------------------------------
(* The model's calls. *)

Calls ==
    /\ turn # Unset /\ spent.calls < MaxCalls
    /\ spent' = [spent EXCEPT !.calls = @ + 1] /\ UNCHANGED mode
Asks(S, gate) ==
    /\ \E s \in S : facts' = s.facts /\ agreed' = s.agreed /\ form' = Shown(gate, TRUE, FALSE, s.facts)
    /\ turn' = Unset
Goes(S) == Become(S) /\ UNCHANGED turn

\* review_location: after earlier results it begins a new request.
Begun(s) ==
    IF s.facts.stage # "results" THEN s
    ELSE LET f == [NoFacts EXCEPT !.place = s.facts.place, !.picking = s.facts.picking,
                                  !.review = s.facts.review, !.approved = s.facts.approved]
             a == [s.agreed EXCEPT !.years = {}, !.asked = {}, !.picks = {}]
         IN Heard([s EXCEPT !.facts = NoteText(f, turn), !.agreed = a], turn)
ModelReviewsLocation ==
    /\ Calls
    /\ \E p \in Places :
          LET s == Begun(Session) IN
          \/ Goes({s})
          \/ /\ s.facts.approved # p
             /\ LET r == Placed(s, p) IN Asks({Put(r, [r.facts EXCEPT !.review = p])}, "review_location")

ModelOffersProducts ==
    /\ Calls /\ Reviewed(facts)
    /\ \E k \in Kinds :
          LET s == IF k \in {Unset, facts.pref} THEN Session ELSE Put(Session, SetPreference(facts, k, "model")) IN
          \/ Goes({s})
          \/ Goes({r \in Fetched(s, k) : r.facts.offers.ids = {}})
          \/ Asks({r \in Fetched(s, k) : r.facts.offers.ids # {}}, "choose_products")

ModelShowsRequest == Calls /\ Asks({Session}, "review_request")
ModelAsksYears == Calls /\ Asks({Session}, "years")

\* look_up_products tells the model what the catalog has, of the reviewed place or of points the
\* session has seen; unlike the product form it leaves the offers and the rest of the facts alone.
ModelLooksUp == Calls /\ Goes({Session})

\* check_plan_requests: the approved requests that a proposal of the model stands for, none when a
\* gate refuses it.
Checked(f, kind, picks, years) ==
    LET approved == {r \in BuildRequests(f) : (r.group # "typical") = (kind = "historical")}
        touched == {r \in approved : r.picks \cap picks # {}}
        parts == IF Cardinality(touched) >= 2 THEN touched
                 ELSE {r \in approved : picks \subseteq r.picks /\ (picks = {} /\ r.group = "queued" =>
                          \A o \in approved : o.group # "direct")}
    IN IF \/ ~Ready(f) \/ ~(picks \subseteq UNION {r.picks : r \in parts})
          \/ ~(years \subseteq f.years) \/ years \cap f.asked # {}
       THEN {}
       ELSE {[group |-> r.group, picks |-> IF picks = {} THEN r.picks ELSE r.picks \cap picks,
              years |-> IF r.group = "typical" THEN {} ELSE IF years = {} THEN r.years ELSE years] : r \in parts}

\* weather_plan: a plan replaces one of the same kind and products.
KeepPlans(f, rs) ==
    LET new == {Planned(f, r) : r \in rs}
        same(p, q) == p.picks = q.picks /\ (p.group = "typical") = (q.group = "typical")
    IN [f EXCEPT !.plans = {p \in @ : \A q \in new : ~same(p, q)} \cup new]
ModelPlans ==
    /\ Calls
    /\ \E kind \in {"historical", "typical"}, picks \in SUBSET Products, years \in SUBSET Years :
       \E s \in Refreshed(Session) :
       \E done \in SUBSET Checked(s.facts, kind, picks, years) :
          Goes({Put(s, KeepPlans(s.facts, done))})
ModelShowsPlans ==
    /\ Calls /\ \E p \in facts.plans : ~p.job
    /\ Asks({Session}, "review_plan")

\* The turn ends; _no_dead_end shows a review if nothing is open.
TurnEnds ==
    /\ turn # Unset /\ turn' = Unset /\ UNCHANGED <<mode, spent>>
    /\ Become(IF form = Unset /\ Need(facts) \in {"plan", "review_plan"} THEN Advance(Session) ELSE {Session})

Next ==
    \/ Write \/ GivePlace \/ ApproveLocation \/ Choose \/ ApproveRequest \/ ShowRequest \/ Change
    \/ Run \/ NextSteps \/ AskAnew \/ SwitchMode \/ JobsDone
    \/ ModelReviewsLocation \/ ModelOffersProducts \/ ModelLooksUp \/ ModelShowsRequest \/ ModelAsksYears
    \/ ModelPlans \/ ModelShowsPlans \/ TurnEnds

Spec == Init /\ [][Next]_vars
-----------------------------------------------------------------------------
\* "Only approved facts reach a plan": a plan that starts is one the open review shows; its place
\* was approved on a form since it was given, its products were picked by the person for that
\* place, and its years were written plainly by the person, or asked about and then confirmed on a
\* form.  Nothing the model says or does stands in for any of these.
Starting == {p \in facts.plans : ~p.job /\ [p EXCEPT !.job = TRUE] \in facts'.plans}
Consented ==
    [][ \A p \in Starting :
            /\ p \in form.plans
            /\ p.place = agreed.place /\ p.picks \subseteq agreed.picks /\ p.years \subseteq agreed.years ]_vars
=============================================================================
