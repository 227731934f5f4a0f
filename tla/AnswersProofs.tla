--------------------------- MODULE AnswersProofs ---------------------------
(***************************************************************************)
(* Machine-checked proofs about the catalog's answers and the request they *)
(* serve: only what the person has agreed to is ever started, for all      *)
(* places, products, years and texts, and for any number of inputs and of  *)
(* calls of the model (AgentRequest); and what is called supported is      *)
(* vouched for by an entry, for every well-formed question (Eligibility);  *)
(* and evidence is collected within its budgets and measured of one        *)
(* version, for all approved batches, caps and versions (ResearchLedger,   *)
(* GridEvidence).                                                          *)
(***************************************************************************)
EXTENDS MCAnswers, FiniteSetTheorems, WellFoundedInduction, TLAPS


PlanType ==
    [group : {Group[q] : q \in Products}, picks : SUBSET Products, place : SomePlace,
     years : SUBSET Years, job : BOOLEAN]
FactsType ==
    [stage : {"request", "results"}, place : SomePlace, picking : BOOLEAN, review : SomePlace,
     approved : SomePlace, pref : Kinds, by : {"text", "form", "model"},
     offers : [ids : SUBSET Products, years : SUBSET Years], chosen : SUBSET Products,
     recheck : BOOLEAN, years : SUBSET Years, asked : SUBSET Years, plans : SUBSET PlanType,
     jobs : {"none", "running", "done"}]
AgreedType == [place : SomePlace, picks : SUBSET Products, years : SUBSET Years, asked : SUBSET Years]
\* What next_need may answer; a form is opened for one of these.
Needs == {"where", "choose_location", "review_location", "choose_products", "years", "review_request",
          "plan", "review_plan", "jobs", "next_steps"}
FormOver(backs) ==
    [gate : Needs, call : BOOLEAN, change : BOOLEAN, back : backs, place : SomePlace,
     offers : SUBSET Products, plans : SUBSET PlanType]
\* A summary is opened over another form, or over none; no other form is opened over one.
PlainForm == FormOver({{}})
FormType == FormOver(SUBSET (PlainForm \cup {Unset}))
SessionType == [facts : FactsType, form : FormType \cup {Unset}, agreed : AgreedType]

\* A plan is of the place that was approved, of products that were picked and of years agreed to.
Granted(p, f, a) ==
    /\ p.place = f.review /\ Reviewed(f)
    /\ p.picks \subseteq a.picks /\ p.years \subseteq a.years

\* A plan that started is not there as one that may still start.
NoTwins(plans) == \A p, q \in plans : p.job /\ ~q.job => [q EXCEPT !.job = TRUE] # p

\* What the facts hold as approved, chosen and confirmed is what the person agreed to: the place
\* since it was given, the products unless they must be chosen again, the years that were not
\* only asked about.
Knows(f, a) ==
    /\ f.approved # Unset => a.place = f.approved
    /\ ~f.recheck => f.chosen \subseteq a.picks
    /\ Confirmed(f) \subseteq a.years /\ f.asked \subseteq a.asked
    /\ \A p \in f.plans : Granted(p, f, a)
    /\ NoTwins(f.plans)

\* A form that asks for the location shows the one under review, if one still is, also when a
\* summary was opened over the form and is answered later.
ShowsReview(m, f) == m # Unset /\ m.gate = "review_location" /\ f.review # Unset => m.place = f.review
Fits(m, f) ==
    /\ ShowsReview(m, f)
    /\ m # Unset => \A b \in m.back : m.gate = "review_request" /\ ShowsReview(b, f)

Good(s) ==
    /\ s \in SessionType
    /\ Knows(s.facts, s.agreed)
    /\ Fits(s.form, s.facts)

RequestInv ==
    /\ Good(Session)
    /\ mode \in {"guided", "agent"}
    /\ turn \in TextType \cup {Unset}

\* A session that may come out of one whose started plans are among J: it is good, and every
\* started plan it holds is one of these.
Follows(s, J) == Good(s) /\ \A p \in s.facts.plans : p.job => p \in J

\* Facts that claim no more than others: what they hold as approved, chosen and confirmed was
\* there before, and the plans are the same or gone.
ClaimsNoMore(g, f) ==
    /\ g.approved \in {f.approved, Unset}
    /\ ~g.recheck => g.chosen = {} \/ (~f.recheck /\ g.chosen \subseteq f.chosen)
    /\ Confirmed(g) \subseteq Confirmed(f) /\ g.asked \subseteq f.asked
    /\ g.review \in {f.review, Unset}
    /\ g.plans = {} \/ (g.plans = f.plans /\ g.review = f.review /\ g.approved = f.approved)
-----------------------------------------------------------------------------
(***************************************************************************)
(* Sessions: putting facts and forms into them.                            *)
(***************************************************************************)
LEMMA PutFacts ==
    ASSUME NEW s \in SessionType, NEW g \in FactsType
    PROVE  /\ Put(s, g) \in SessionType /\ Put(s, g).facts = g
           /\ Put(s, g).form = s.form /\ Put(s, g).agreed = s.agreed
  BY DEF Put, SessionType

LEMMA PutLess ==
    ASSUME NEW J, NEW s, Follows(s, J), NEW g \in FactsType, ClaimsNoMore(g, s.facts)
    PROVE  Follows(Put(s, g), J)
  <1> DEFINE f == s.facts
             a == s.agreed
  <1>1. s \in SessionType /\ f \in FactsType /\ a \in AgreedType
    BY DEF Follows, Good, SessionType
  <1>2. Knows(f, a) /\ Fits(s.form, f)
    BY DEF Follows, Good
  <1>3. Knows(g, a)
    <2>1. \A p \in g.plans : Granted(p, g, a)
      BY <1>2 DEF Knows, ClaimsNoMore, Granted, Reviewed
    <2>2. NoTwins(g.plans)
      BY <1>2 DEF Knows, ClaimsNoMore, NoTwins
    <2>3. QED
      BY <1>2, <2>1, <2>2 DEF Knows, ClaimsNoMore
  <1>4. Fits(s.form, g)
    BY <1>2 DEF Fits, ShowsReview, ClaimsNoMore
  <1>5. QED
    BY <1>1, <1>3, <1>4, PutFacts DEF Follows, Good, ClaimsNoMore

LEMMA ShownFits ==
    ASSUME NEW gate \in Needs, NEW call \in BOOLEAN, NEW change \in BOOLEAN, NEW f \in FactsType
    PROVE  /\ Shown(gate, call, change, f) \in FormType
           /\ Fits(Shown(gate, call, change, f), f)
           /\ Shown(gate, call, change, f) \in PlainForm
  <1>1. Shown(gate, call, change, f) \in PlainForm
    BY DEF Shown, PlainForm, FormOver, FactsType
  <1>2. PlainForm \subseteq FormType
    BY DEF PlainForm, FormType, FormOver
  <1>3. Fits(Shown(gate, call, change, f), f)
    BY DEF Shown, Fits, ShowsReview
  <1>4. QED
    BY <1>1, <1>2, <1>3

\* A form in the session that fits its facts changes nothing else of it.
LEMMA FormFollows ==
    ASSUME NEW J, NEW s, Follows(s, J), NEW m \in FormType \cup {Unset}, Fits(m, s.facts)
    PROVE  Follows([s EXCEPT !.form = m], J)
  <1>1. [s EXCEPT !.form = m] \in SessionType /\ [s EXCEPT !.form = m].form = m
    BY DEF Follows, Good, SessionType
  <1>2. [s EXCEPT !.form = m].facts = s.facts /\ [s EXCEPT !.form = m].agreed = s.agreed
    BY DEF Follows, Good, SessionType
  <1>3. QED
    BY <1>1, <1>2 DEF Follows, Good

LEMMA SessionParts ==
    ASSUME NEW J, NEW s, Follows(s, J)
    PROVE  /\ s \in SessionType /\ s.facts \in FactsType /\ s.agreed \in AgreedType
           /\ s.form \in FormType \cup {Unset}
           /\ Knows(s.facts, s.agreed) /\ Fits(s.form, s.facts)
  BY DEF Follows, Good, SessionType

LEMMA OpenFollows ==
    ASSUME NEW J, NEW s, Follows(s, J), NEW gate \in Needs
    PROVE  Follows(Open(s, gate), J)
  BY SessionParts, ShownFits, FormFollows DEF Open

LEMMA CloseFollows ==
    ASSUME NEW J, NEW s, Follows(s, J)
    PROVE  Follows(Close(s), J) /\ Close(s).facts = s.facts /\ Close(s).form = Unset
  <1>1. Fits(Unset, s.facts)
    BY DEF Fits, ShowsReview
  <1>2. QED
    BY <1>1, SessionParts, FormFollows DEF Close, SessionType

LEMMA ChangingFollows ==
    ASSUME NEW J, NEW s, Follows(s, J), NEW gate \in Needs
    PROVE  Follows(Changing(s, gate), J)
  BY SessionParts, ShownFits, FormFollows DEF Changing
-----------------------------------------------------------------------------
(***************************************************************************)
(* Facts: what each change claims.                                         *)
(***************************************************************************)
LEMMA PlaceClaimsNoMore ==
    ASSUME NEW f \in FactsType, NEW p \in SomePlace
    PROVE  /\ SetPlace(f, p) \in FactsType /\ ClaimsNoMore(SetPlace(f, p), f)
           /\ SetPlace(f, p).plans = {} /\ SetPlace(f, p).approved = Unset
           /\ SetPlace(f, p).review = Unset
           /\ SetPlace(f, p).recheck \/ SetPlace(f, p).chosen = {}
  <1> DEFINE g == SetPlace(f, p)
  <1>1. g \in FactsType
    BY DEF SetPlace, FactsType, NoOffers, SomePlace
  <1>2. /\ g.approved = Unset /\ g.review = Unset /\ g.plans = {}
        /\ g.recheck = (f.chosen # {}) /\ g.chosen = f.chosen
        /\ g.years = f.years /\ g.asked = f.asked
    BY DEF SetPlace, FactsType
  <1>3. QED
    BY <1>1, <1>2 DEF ClaimsNoMore, Confirmed

LEMMA PreferenceClaimsNoMore ==
    ASSUME NEW f \in FactsType, NEW k \in Kinds, NEW by \in {"text", "form", "model"}
    PROVE  /\ SetPreference(f, k, by) \in FactsType /\ ClaimsNoMore(SetPreference(f, k, by), f)
           /\ SetPreference(f, k, by).years = f.years /\ SetPreference(f, k, by).asked = f.asked
  <1> DEFINE again == f.recheck \/ \E q \in f.chosen : ~Matches(q, k)
  <1>1. again \in BOOLEAN /\ (~again => ~f.recheck)
    BY DEF FactsType
  <1>2. PICK b \in BOOLEAN :
              /\ SetPreference(f, k, by) = [f EXCEPT !.pref = k, !.by = by, !.offers = NoOffers,
                                                     !.plans = {}, !.recheck = b]
              /\ ~b => ~f.recheck
    BY <1>1 DEF SetPreference
  <1> DEFINE g == [f EXCEPT !.pref = k, !.by = by, !.offers = NoOffers, !.plans = {}, !.recheck = b]
  <1>3. NoOffers \in [ids : SUBSET Products, years : SUBSET Years]
    BY DEF NoOffers
  <1>4. g \in FactsType
    BY <1>3 DEF FactsType
  <1>5. /\ g.approved = f.approved /\ g.review = f.review /\ g.plans = {}
        /\ g.recheck = b /\ g.chosen = f.chosen
        /\ g.years = f.years /\ g.asked = f.asked
    BY DEF FactsType
  <1>6. ClaimsNoMore(g, f)
    BY <1>2, <1>5 DEF ClaimsNoMore, Confirmed
  <1>7. QED
    BY <1>2, <1>4, <1>5, <1>6

\* Facts that differ from others in the years of a request, and in what depended on them.
Dated(g, f, years, asked) ==
    /\ g \in FactsType /\ g.years = years /\ g.asked = asked
    /\ g.plans = {} /\ g.approved = f.approved /\ g.review = f.review
    /\ g.chosen = f.chosen /\ g.recheck = f.recheck

LEMMA YearsSet ==
    ASSUME NEW f \in FactsType, NEW years \in SUBSET Years, NEW asked \in SUBSET Years
    PROVE  Dated(SetYears(f, years, asked), f, years, asked \cap years)
  <1> DEFINE offers == IF years # f.years THEN NoOffers ELSE f.offers
             g == [f EXCEPT !.years = years, !.asked = asked \cap years, !.plans = {}, !.offers = offers]
  <1>1. offers \in [ids : SUBSET Products, years : SUBSET Years]
    BY DEF FactsType, NoOffers
  <1>2. asked \cap years \in SUBSET Years
    OBVIOUS
  <1>3. SetYears(f, years, asked) = g
    BY DEF SetYears
  <1> HIDE DEF offers
  <1>4. g \in FactsType
    BY <1>1, <1>2 DEF FactsType
  <1>5. /\ g.years = years /\ g.asked = asked \cap years
        /\ g.plans = {} /\ g.approved = f.approved /\ g.review = f.review
        /\ g.chosen = f.chosen /\ g.recheck = f.recheck
    BY DEF FactsType
  <1>6. QED
    BY <1>3, <1>4, <1>5 DEF Dated

\* Facts whose years are agreed to, and whose plans are gone, are known.
LEMMA YearsKnown ==
    ASSUME NEW f \in FactsType, NEW g \in FactsType, NEW a \in AgreedType, Knows(f, a),
           g.plans = {}, g.approved = f.approved,
           g.chosen = f.chosen, g.recheck = f.recheck,
           g.years \ g.asked \subseteq a.years, g.asked \subseteq a.asked
    PROVE  Knows(g, a)
  BY DEF Knows, Confirmed, Granted, NoTwins

LEMMA ConfirmedYears ==
    ASSUME NEW f \in FactsType, NEW years \in SUBSET Years
    PROVE  LET g == ConfirmYears(f, years)
           IN /\ g \in FactsType /\ g.years = f.years /\ g.asked = f.asked \ years
              /\ g.plans \in {{}, f.plans} /\ g.approved = f.approved /\ g.review = f.review
              /\ g.chosen = f.chosen /\ g.recheck = f.recheck
  <1> DEFINE g == [f EXCEPT !.asked = f.asked \ years, !.plans = {}]
  <1>1. g \in FactsType
    BY DEF FactsType
  <1>2. /\ g.years = f.years /\ g.asked = f.asked \ years /\ g.plans = {}
        /\ g.approved = f.approved /\ g.review = f.review
        /\ g.chosen = f.chosen /\ g.recheck = f.recheck
    BY DEF FactsType
  <1>3. CASE years \cap f.asked = {}
    BY <1>3 DEF ConfirmYears, FactsType
  <1>4. CASE years \cap f.asked # {}
    BY <1>1, <1>2, <1>4 DEF ConfirmYears
  <1>5. QED
    BY <1>3, <1>4

LEMMA NothingIsKnown ==
    /\ NoFacts \in FactsType /\ Nothing \in AgreedType /\ Knows(NoFacts, Nothing)
    /\ NoFacts.review = Unset /\ NoFacts.plans = {}
  <1>1. NoFacts \in FactsType /\ Nothing \in AgreedType
    BY DEF NoFacts, Nothing, NoOffers, FactsType, AgreedType, SomePlace, Kinds
  <1>2. /\ NoFacts.review = Unset /\ NoFacts.plans = {} /\ NoFacts.approved = Unset
        /\ NoFacts.chosen = {} /\ NoFacts.years = {} /\ NoFacts.asked = {}
    BY DEF NoFacts
  <1>3. QED
    BY <1>1, <1>2 DEF Knows, Confirmed, NoTwins
-----------------------------------------------------------------------------
(***************************************************************************)
(* Sessions: what each operation may lead to.                              *)
(***************************************************************************)
\* Facts and agreements of a session are replaced together, and no plan is left.
LEMMA Replaced ==
    ASSUME NEW J, NEW s, Follows(s, J), NEW r \in SessionType, r.form = s.form,
           Knows(r.facts, r.agreed), r.facts.plans = {}, r.facts.review \in {Unset, s.facts.review}
    PROVE  Follows(r, J)
  <1>1. Fits(r.form, r.facts)
    BY SessionParts DEF Fits, ShowsReview
  <1>2. QED
    BY <1>1 DEF Follows, Good

LEMMA PlacedFollows ==
    ASSUME NEW J, NEW s, Follows(s, J), NEW p \in SomePlace
    PROVE  /\ Follows(Placed(s, p), J)
           /\ Placed(s, p).facts = SetPlace(s.facts, p)
           /\ Placed(s, p).form = s.form
  <1> DEFINE g == SetPlace(s.facts, p)
             a == IF p = s.facts.place THEN s.agreed ELSE [s.agreed EXCEPT !.place = Unset, !.picks = {}]
             r == Placed(s, p)
  <1>1. /\ g \in FactsType /\ ClaimsNoMore(g, s.facts) /\ g.plans = {} /\ g.approved = Unset
        /\ g.review = Unset /\ (g.recheck \/ g.chosen = {})
    BY SessionParts, PlaceClaimsNoMore
  <1>2. a \in AgreedType /\ a.years = s.agreed.years /\ a.asked = s.agreed.asked
    BY SessionParts DEF AgreedType, SomePlace
  <1>3. Knows(g, a)
    BY <1>1, <1>2, SessionParts DEF Knows, NoTwins, ClaimsNoMore
  <1>4. r = [s EXCEPT !.facts = g, !.agreed = a]
    BY SessionParts DEF Placed, SessionType
  <1> HIDE DEF g, a, r
  <1>5. r \in SessionType /\ r.facts = g /\ r.agreed = a /\ r.form = s.form
    <2>1. s \in SessionType
      BY SessionParts
    <2>2. QED
      BY <1>1, <1>2, <1>4, <2>1 DEF SessionType
  <1>6. Follows(r, J)
    BY <1>1, <1>3, <1>5, Replaced
  <1>7. QED
    BY <1>5, <1>6 DEF g, r

LEMMA AnewFollows ==
    ASSUME NEW J, NEW s, Follows(s, J)
    PROVE  Follows(Anew(s), J) /\ Anew(s).facts = NoFacts /\ Anew(s).agreed = Nothing /\ Anew(s).form = s.form
  <1> DEFINE r == Anew(s)
  <1>1. s \in SessionType
    BY SessionParts
  <1>2. r \in SessionType /\ r.facts = NoFacts /\ r.agreed = Nothing /\ r.form = s.form
    BY <1>1, NothingIsKnown DEF Anew, NewRequest, SessionType
  <1>3. QED
    BY <1>2, NothingIsKnown, Replaced

LEMMA FetchedFollows ==
    ASSUME NEW J, NEW s, Follows(s, J), NEW k, NEW r \in Fetched(s, k)
    PROVE  /\ Follows(r, J) /\ r.facts.offers.ids \subseteq Products
           /\ \E o \in [ids : SUBSET Products, years : SUBSET Years] : r = Put(s, [s.facts EXCEPT !.offers = o])
  <1>1. PICK ids \in SUBSET {q \in Products : Matches(q, k)} :
              r = Put(s, [s.facts EXCEPT !.offers = [ids |-> ids, years |-> s.facts.years]])
    BY DEF Fetched
  <1> DEFINE o == [ids |-> ids, years |-> s.facts.years]
             g == [s.facts EXCEPT !.offers = o]
  <1>2. s.facts \in FactsType /\ s \in SessionType
    BY SessionParts
  <1>3. o \in [ids : SUBSET Products, years : SUBSET Years]
    BY <1>2 DEF FactsType
  <1> HIDE DEF o
  <1>4. g \in FactsType /\ g.offers = o
    BY <1>2, <1>3 DEF FactsType
  <1>5. ClaimsNoMore(g, s.facts)
    BY <1>2 DEF FactsType, ClaimsNoMore, Confirmed
  <1>6. r = Put(s, g)
    BY <1>1 DEF o
  <1>7. Follows(r, J) /\ r.facts = g
    BY <1>2, <1>4, <1>5, <1>6, PutLess, PutFacts
  <1>8. QED
    BY <1>3, <1>4, <1>6, <1>7

\* The years-of-offers, chosen products and the rest stay; only the plans are replaced.
LEMMA PlansPut ==
    ASSUME NEW J, NEW s, Follows(s, J), NEW P \in SUBSET PlanType, NoTwins(P),
           \A p \in P : Granted(p, s.facts, s.agreed) /\ (p.job => p \in J)
    PROVE  LET g == [s.facts EXCEPT !.plans = P]
           IN Follows(Put(s, g), J) /\ Put(s, g).facts = g /\ g.plans = P /\ g.review = s.facts.review
  <1> DEFINE f == s.facts
             g == [f EXCEPT !.plans = P]
             r == Put(s, g)
  <1>1. s \in SessionType /\ f \in FactsType
    BY SessionParts
  <1>2. g \in FactsType
    BY <1>1 DEF FactsType
  <1>3. /\ g.plans = P /\ g.review = f.review /\ g.approved = f.approved /\ g.chosen = f.chosen
        /\ g.recheck = f.recheck /\ g.years = f.years /\ g.asked = f.asked
    BY <1>1 DEF FactsType
  <1> HIDE DEF g
  <1>4. r \in SessionType /\ r.facts = g /\ r.form = s.form /\ r.agreed = s.agreed
    BY <1>1, <1>2, PutFacts
  <1>5. Knows(f, s.agreed) /\ Fits(s.form, f)
    BY SessionParts
  <1>6. Knows(g, s.agreed)
    <2>1. \A p \in g.plans : Granted(p, g, s.agreed)
      BY <1>3 DEF Granted, Reviewed
    <2>2. QED
      BY <1>3, <1>5, <2>1 DEF Knows, Confirmed
  <1>7. Fits(s.form, g)
    BY <1>3, <1>5 DEF Fits, ShowsReview
  <1>8. Follows(r, J)
    BY <1>3, <1>4, <1>6, <1>7 DEF Follows, Good
  <1>9. QED
    BY <1>3, <1>4, <1>8 DEF g

\* A request within what is chosen and confirmed leads to a plan that is granted.
LEMMA PlannedGranted ==
    ASSUME NEW f \in FactsType, NEW a \in AgreedType, Knows(f, a), Reviewed(f), ~f.recheck,
           NEW r, r.group \in {Group[q] : q \in Products}, r.picks \subseteq f.chosen,
           r.years \subseteq Confirmed(f)
    PROVE  Planned(f, r) \in PlanType /\ Granted(Planned(f, r), f, a) /\ ~Planned(f, r).job
  <1>1. Planned(f, r) \in PlanType
    BY DEF Planned, PlanType, FactsType, Confirmed
  <1>2. Granted(Planned(f, r), f, a)
    BY DEF Planned, Granted, Knows
  <1>3. QED
    BY <1>1, <1>2 DEF Planned

LEMMA RequestsWithin ==
    ASSUME NEW f \in FactsType, NEW r \in BuildRequests(f)
    PROVE  /\ r.group \in {Group[q] : q \in Products} /\ r.picks \subseteq f.chosen
           /\ r.years \subseteq Confirmed(f)
  <1>1. PICK q \in f.chosen : r = Request(f, Group[q])
    BY DEF BuildRequests
  <1>2. q \in Products
    BY DEF FactsType
  <1>3. /\ r.group = Group[q] /\ r.picks = {x \in f.chosen : Group[x] = Group[q]}
        /\ r.years = IF Group[q] = "typical" THEN {} ELSE Confirmed(f)
    BY <1>1 DEF Request
  <1>4. QED
    BY <1>2, <1>3

LEMMA RefreshedFollows ==
    ASSUME NEW J, NEW s, Follows(s, J), NEW r \in Refreshed(s)
    PROVE  /\ Follows(r, J)
           /\ Reviewed(s.facts) => Reviewed(r.facts)
  <1> DEFINE f == s.facts
  <1>1. CASE ~IsStale(f)
    BY <1>1 DEF Refreshed
  <1>2. CASE IsStale(f)
    <2> DEFINE k == IF \A x \in f.chosen : Matches(x, f.pref) THEN f.pref ELSE Unset
    <2>1. PICK q \in Fetched(s, k) :
                r = Put(q, [q.facts EXCEPT !.chosen = q.facts.chosen \cap q.facts.offers.ids,
                                           !.recheck = ~(f.chosen \subseteq q.facts.offers.ids)])
      BY <1>2 DEF Refreshed
    <2> HIDE DEF k
    <2> DEFINE again == ~(f.chosen \subseteq q.facts.offers.ids)
               g == [q.facts EXCEPT !.chosen = q.facts.chosen \cap q.facts.offers.ids, !.recheck = again]
    <2>2. Follows(q, J)
      BY <2>1, FetchedFollows
    <2>3. PICK o \in [ids : SUBSET Products, years : SUBSET Years] :
                q = Put(s, [f EXCEPT !.offers = o])
      BY <2>1, FetchedFollows
    <2>4. s \in SessionType /\ f \in FactsType /\ q \in SessionType /\ q.facts \in FactsType
      BY <2>2, SessionParts
    <2>5. q.facts = [f EXCEPT !.offers = o]
      BY <2>3, <2>4 DEF Put, SessionType
    <2>6. q.facts.recheck = f.recheck /\ q.facts.review = f.review /\ q.facts.approved = f.approved
      BY <2>4, <2>5 DEF FactsType
    <2>7. again \in BOOLEAN /\ ~f.recheck
      BY <1>2 DEF IsStale
    <2> HIDE DEF again
    <2>8. g \in FactsType
      BY <2>4, <2>7 DEF FactsType
    <2>9. /\ g.chosen \subseteq q.facts.chosen /\ g.approved = q.facts.approved
          /\ g.review = q.facts.review /\ g.plans = q.facts.plans
          /\ g.years = q.facts.years /\ g.asked = q.facts.asked
      BY <2>4 DEF FactsType
    <2>10. ClaimsNoMore(g, q.facts)
      BY <2>6, <2>7, <2>9 DEF ClaimsNoMore, Confirmed
    <2>11. r = Put(q, g)
      BY <2>1 DEF again
    <2> HIDE DEF g
    <2>12. Follows(r, J) /\ r.facts = g
      BY <2>2, <2>4, <2>8, <2>10, <2>11, PutLess, PutFacts
    <2>13. QED
      BY <2>6, <2>9, <2>12 DEF Reviewed
  <1>3. QED
    BY <1>1, <1>2

LEMMA NeedAnswers ==
    ASSUME NEW f \in FactsType
    PROVE  Need(f) \in Needs /\ (Need(f) = "plan" => Reviewed(f))
  <1>1. CASE f.stage = "results"
    BY <1>1 DEF Need, Needs
  <1>2. CASE f.stage = "request" /\ f.picking
    BY <1>2 DEF Need, Needs
  <1>3. CASE f.stage = "request" /\ ~f.picking /\ f.place = Unset
    BY <1>3 DEF Need, Needs
  <1>4. CASE f.stage = "request" /\ ~f.picking /\ f.place # Unset /\ ~Reviewed(f)
    BY <1>4 DEF Need, Needs
  <1>5. CASE f.stage = "request" /\ ~f.picking /\ f.place # Unset /\ Reviewed(f)
    BY <1>5 DEF Need, Needs
  <1>6. QED
    BY <1>1, <1>2, <1>3, <1>4, <1>5 DEF FactsType

LEMMA OpensFollows ==
    ASSUME NEW J, NEW s, Follows(s, J), NEW r \in OpensNeed(s)
    PROVE  Follows(r, J)
  <1> DEFINE f == s.facts
             n == Need(f)
             g == [f EXCEPT !.review = f.place]
  <1>1. s \in SessionType /\ f \in FactsType /\ n \in Needs
    BY SessionParts, NeedAnswers
  <1>2. CASE n = "jobs"
    BY <1>2, CloseFollows DEF OpensNeed
  <1>3. CASE n = "review_location" /\ f.review = Unset
    <2>1. r = s \/ r = Open(Put(s, g), "review_location")
      BY <1>3 DEF OpensNeed
    <2>2. g \in FactsType
      BY <1>1 DEF FactsType
    <2>3. /\ g.review = f.place /\ g.approved = f.approved /\ g.chosen = f.chosen /\ g.plans = f.plans
          /\ g.recheck = f.recheck /\ g.years = f.years /\ g.asked = f.asked
      BY <1>1 DEF FactsType
    <2>4. Knows(f, s.agreed) /\ s.agreed \in AgreedType
      BY SessionParts
    <2>5. g.plans = {}
      BY <1>3, <2>3, <2>4 DEF Knows, Granted, Reviewed
    <2>6. Knows(g, s.agreed)
      BY <2>3, <2>4, <2>5 DEF Knows, Confirmed, NoTwins
    <2> DEFINE m == Shown("review_location", FALSE, FALSE, g)
               q == [facts |-> g, form |-> m, agreed |-> s.agreed]
    <2> HIDE DEF g
    <2>7. m \in FormType /\ Fits(m, g)
      BY <2>2, ShownFits DEF Needs
    <2>8. Open(Put(s, g), "review_location") = q
      <3>1. Open(Put(s, g), "review_location") = [Put(s, g) EXCEPT !.form = m]
        BY <1>1, <2>2, PutFacts DEF Open
      <3>2. /\ Put(s, g) \in SessionType /\ Put(s, g).facts = g
            /\ Put(s, g).agreed = s.agreed
        BY <1>1, <2>2, PutFacts
      <3> HIDE DEF m
      <3>3. QED
        BY <3>1, <3>2 DEF SessionType
    <2> HIDE DEF m
    <2>9. q \in SessionType
      BY <2>2, <2>4, <2>7 DEF SessionType
    <2>10. Follows(q, J)
      BY <2>5, <2>6, <2>7, <2>9 DEF Follows, Good
    <2>11. QED
      BY <2>1, <2>8, <2>10
  <1>4. CASE n = "choose_products" /\ f.offers.ids = {}
    <2>1. r = s \/ \E q \in Fetched(s, f.pref) : r = Open(q, n)
      BY <1>4 DEF OpensNeed
    <2>2. QED
      BY <1>1, <2>1, FetchedFollows, OpenFollows
  <1>5. CASE n = "review_plan" /\ ShowsCurrent(s)
    BY <1>5 DEF OpensNeed
  <1>6. CASE /\ n # "jobs" /\ ~(n = "review_location" /\ f.review = Unset)
             /\ ~(n = "choose_products" /\ f.offers.ids = {}) /\ ~(n = "review_plan" /\ ShowsCurrent(s))
    <2>1. r = Open(s, n)
      BY <1>6 DEF OpensNeed
    <2>2. QED
      BY <1>1, <2>1, OpenFollows
  <1>7. QED
    BY <1>2, <1>3, <1>4, <1>5, <1>6

LEMMA PlansFollows ==
    ASSUME NEW J, NEW s, Follows(s, J), Reviewed(s.facts), NEW r \in Plans(s)
    PROVE  Follows(r, J)
  <1> DEFINE f == s.facts
             P == {Planned(f, q) : q \in BuildRequests(f)}
             made == [f EXCEPT !.plans = P]
             none == [f EXCEPT !.chosen = {}, !.plans = {}]
  <1>1. s \in SessionType /\ f \in FactsType /\ s.agreed \in AgreedType /\ Knows(f, s.agreed)
    BY SessionParts
  <1>2. CASE f.recheck
    BY <1>2, OpensFollows DEF Plans
  <1>3. CASE ~f.recheck
    <2>1. \A p \in P : p \in PlanType /\ Granted(p, f, s.agreed) /\ ~p.job
      BY <1>1, <1>3, RequestsWithin, PlannedGranted
    <2>2. P \in SUBSET PlanType /\ NoTwins(P)
      BY <2>1 DEF NoTwins
    <2> HIDE DEF P
    <2>3. Follows(Put(s, made), J)
      BY <2>1, <2>2, PlansPut
    <2>4. none \in FactsType
      BY <1>1 DEF FactsType
    <2>5. ClaimsNoMore(none, f)
      BY <1>1 DEF FactsType, ClaimsNoMore, Confirmed
    <2>6. Follows(Put(s, none), J)
      BY <2>4, <2>5, PutLess
    <2>7. r = s \/ r \in OpensNeed(Put(s, made)) \/ r \in OpensNeed(Put(s, none))
      BY <1>3 DEF Plans, P
    <2>8. QED
      BY <2>3, <2>6, <2>7, OpensFollows
  <1>4. QED
    BY <1>2, <1>3

LEMMA AdvanceFollows ==
    ASSUME NEW J, NEW s, Follows(s, J), NEW r \in Advance(s)
    PROVE  Follows(r, J)
  <1>1. CASE Need(s.facts) # "plan"
    BY <1>1, OpensFollows DEF Advance
  <1>2. CASE Need(s.facts) = "plan"
    <2>1. Reviewed(s.facts)
      BY <1>2, SessionParts, NeedAnswers
    <2>2. r = s \/ \E q \in Refreshed(s) : r \in Plans(q)
      BY <1>2 DEF Advance
    <2>3. QED
      BY <2>1, <2>2, RefreshedFollows, PlansFollows
  <1>3. QED
    BY <1>1, <1>2
-----------------------------------------------------------------------------
(***************************************************************************)
(* What the person writes.                                                 *)
(***************************************************************************)
\* The years of a text were heard: asked about in a question, agreed to otherwise.
HeardIn(a, t) == IF t.question THEN t.years \subseteq a.asked ELSE t.years \subseteq a.years

LEMMA HeardFollows ==
    ASSUME NEW J, NEW s, Follows(s, J), NEW t \in TextType
    PROVE  /\ Follows(Heard(s, t), J) /\ HeardIn(Heard(s, t).agreed, t)
           /\ Heard(s, t).facts = s.facts /\ Heard(s, t).form = s.form
  <1> DEFINE r == Heard(s, t)
  <1>1. s \in SessionType /\ s.agreed \in AgreedType /\ Knows(s.facts, s.agreed) /\ Fits(s.form, s.facts)
    BY SessionParts
  <1>2. t.years \in SUBSET Years /\ t.question \in BOOLEAN
    BY DEF TextType
  <1>3. /\ r \in SessionType /\ r.facts = s.facts /\ r.form = s.form
        /\ r.agreed.place = s.agreed.place /\ r.agreed.picks = s.agreed.picks
        /\ s.agreed.years \subseteq r.agreed.years /\ s.agreed.asked \subseteq r.agreed.asked
        /\ HeardIn(r.agreed, t)
    <2>1. CASE t.question
      BY <1>1, <1>2, <2>1 DEF Heard, HeardIn, SessionType, AgreedType
    <2>2. CASE ~t.question
      BY <1>1, <1>2, <2>2 DEF Heard, HeardIn, SessionType, AgreedType
    <2>3. QED
      BY <2>1, <2>2
  <1> HIDE DEF r
  <1>4. Knows(r.facts, r.agreed)
    BY <1>1, <1>3 DEF Knows, Granted
  <1>5. Follows(r, J)
    BY <1>1, <1>3, <1>4 DEF Follows, Good
  <1>6. QED
    BY <1>3, <1>5 DEF r

LEMMA KnownPut ==
    ASSUME NEW J, NEW s, Follows(s, J), NEW g \in FactsType, Knows(g, s.agreed),
           g.plans \in {{}, s.facts.plans}, g.review \in {Unset, s.facts.review}
    PROVE  /\ Follows(Put(s, g), J)
           /\ Put(s, g).facts = g /\ Put(s, g).form = s.form /\ Put(s, g).agreed = s.agreed
  <1>1. s \in SessionType /\ Fits(s.form, s.facts)
    BY SessionParts
  <1>2. Fits(s.form, g)
    BY <1>1 DEF Fits, ShowsReview
  <1>3. QED
    BY <1>1, <1>2, PutFacts DEF Follows, Good

\* What a text may make of facts: plans and the place under review are the same or gone.
MadeOf(g, f, a) ==
    /\ g \in FactsType /\ Knows(g, a)
    /\ g.plans \in {{}, f.plans} /\ g.review = f.review

LEMMA PreferringKnown ==
    ASSUME NEW f \in FactsType, NEW a \in AgreedType, Knows(f, a), NEW t \in TextType
    PROVE  LET g == Preferring(f, t)
           IN MadeOf(g, f, a) /\ g.years = f.years /\ g.asked = f.asked
  <1> DEFINE g == SetPreference(f, t.kind, "text")
  <1>1. t.kind \in Kinds
    BY DEF TextType
  <1>2. g \in FactsType /\ ClaimsNoMore(g, f) /\ g.years = f.years /\ g.asked = f.asked
    BY <1>1, PreferenceClaimsNoMore
  <1>3. g.plans = {} /\ g.review = f.review /\ g.approved = f.approved
    BY <1>1 DEF SetPreference, FactsType
  <1>4. Knows(g, a)
    BY <1>2, <1>3 DEF ClaimsNoMore, Knows, NoTwins
  <1> HIDE DEF g
  <1>5. QED
    BY <1>2, <1>3, <1>4 DEF Preferring, MadeOf, g

LEMMA YearsSetKnown ==
    ASSUME NEW f \in FactsType, NEW a \in AgreedType, Knows(f, a),
           NEW years \in SUBSET Years, NEW asked \in SUBSET Years,
           years \ asked \subseteq a.years, asked \cap years \subseteq a.asked
    PROVE  MadeOf(SetYears(f, years, asked), f, a)
  <1> DEFINE g == SetYears(f, years, asked)
  <1>1. Dated(g, f, years, asked \cap years)
    BY YearsSet
  <1> HIDE DEF g
  <1>2. Knows(g, a)
    BY <1>1, YearsKnown DEF Dated
  <1>3. QED
    BY <1>1, <1>2 DEF MadeOf, Dated, g

LEMMA NoteTextKnown ==
    ASSUME NEW f \in FactsType, NEW a \in AgreedType, Knows(f, a), NEW t \in TextType, HeardIn(a, t)
    PROVE  MadeOf(NoteText(f, t), f, a)
  <1> DEFINE g == Preferring(f, t)
  <1>1. MadeOf(g, f, a)
    BY PreferringKnown
  <1>2. g \in FactsType /\ Knows(g, a) /\ g.years \in SUBSET Years /\ g.asked \in SUBSET Years
    BY <1>1 DEF MadeOf, FactsType
  <1>3. t.years \in SUBSET Years
    BY DEF TextType
  <1> HIDE DEF g
  <1>4. CASE t.question
    <2> DEFINE h == SetYears(g, g.years \cup t.years, g.asked \cup (t.years \ g.years))
    <2>1. MadeOf(h, g, a)
      BY <1>2, <1>3, <1>4, YearsSetKnown DEF Knows, Confirmed, HeardIn
    <2> HIDE DEF h
    <2>2. NoteText(f, t) \in {g, h}
      BY <1>4 DEF NoteText, g, h
    <2>3. QED
      BY <1>1, <2>1, <2>2 DEF MadeOf
  <1>5. CASE ~t.question
    <2> DEFINE h == SetYears(g, g.years \cup t.years, g.asked \ t.years)
    <2>1. MadeOf(h, g, a)
      BY <1>2, <1>3, <1>5, YearsSetKnown DEF Knows, Confirmed, HeardIn
    <2> HIDE DEF h
    <2>2. NoteText(f, t) \in {g, h}
      BY <1>5 DEF NoteText, g, h
    <2>3. QED
      BY <1>1, <2>1, <2>2 DEF MadeOf
  <1>6. QED
    BY <1>4, <1>5

LEMMA ReadTextKnown ==
    ASSUME NEW f \in FactsType, NEW a \in AgreedType, Knows(f, a), NEW t \in TextType, HeardIn(a, t)
    PROVE  MadeOf(ReadText(f, t), f, a)
  <1> DEFINE g == Preferring(f, t)
             asked == IF t.question THEN t.years \ Confirmed(g) ELSE {}
             h == IF t.years = g.years /\ asked = g.asked THEN g ELSE SetYears(g, t.years, asked)
             k == [h EXCEPT !.pref = "historical", !.by = "text"]
  <1>1. MadeOf(g, f, a)
    BY PreferringKnown
  <1> HIDE DEF g
  <1>2. g \in FactsType /\ Knows(g, a)
    BY <1>1 DEF MadeOf
  <1>3. /\ t.years \in SUBSET Years /\ asked \in SUBSET Years
        /\ t.years \ asked \subseteq a.years /\ asked \cap t.years \subseteq a.asked
    BY <1>2 DEF TextType, Knows, HeardIn
  <1> HIDE DEF asked
  <1>4. MadeOf(SetYears(g, t.years, asked), g, a)
    BY <1>2, <1>3, YearsSetKnown
  <1>5. MadeOf(h, f, a)
    BY <1>1, <1>4 DEF MadeOf
  <1> HIDE DEF h
  <1>6. MadeOf(k, f, a)
    <2>1. k \in FactsType
      BY <1>5 DEF MadeOf, FactsType, Kinds
    <2>2. /\ k.approved = h.approved /\ k.review = h.review /\ k.chosen = h.chosen /\ k.plans = h.plans
          /\ k.recheck = h.recheck /\ k.years = h.years /\ k.asked = h.asked
      BY <1>5 DEF MadeOf, FactsType
    <2> HIDE DEF k
    <2>3. Knows(k, a)
      <3>1. \A p \in k.plans : Granted(p, k, a)
        BY <1>5, <2>2 DEF MadeOf, Knows, Granted, Reviewed
      <3>2. QED
        BY <1>5, <2>2, <3>1 DEF MadeOf, Knows, Confirmed
    <2>4. QED
      BY <1>5, <2>1, <2>2, <2>3 DEF MadeOf
  <1>7. ReadText(f, t) \in {g, h, k}
    BY DEF ReadText, g, asked, h, k
  <1>8. QED
    BY <1>1, <1>5, <1>6, <1>7

\* Whether a place is being picked claims nothing.
LEMMA PickingFollows ==
    ASSUME NEW J, NEW s, Follows(s, J), NEW b \in BOOLEAN
    PROVE  LET r == Put(s, [s.facts EXCEPT !.picking = b])
           IN Follows(r, J) /\ r.agreed = s.agreed
  <1> DEFINE g == [s.facts EXCEPT !.picking = b]
  <1>1. s \in SessionType /\ s.facts \in FactsType
    BY SessionParts
  <1>2. g \in FactsType
    BY <1>1 DEF FactsType
  <1>3. ClaimsNoMore(g, s.facts)
    BY <1>1 DEF FactsType, ClaimsNoMore, Confirmed
  <1> HIDE DEF g
  <1>4. Follows(Put(s, g), J) /\ Put(s, g).agreed = s.agreed
    BY <1>1, <1>2, <1>3, PutLess, PutFacts
  <1>5. QED
    BY <1>4 DEF g

LEMMA ReadsPlaceFollows ==
    ASSUME NEW J, NEW s, Follows(s, J), NEW p \in SomePlace, NEW r \in ReadsPlace(s, p)
    PROVE  Follows(r, J)
  <1> DEFINE q == Placed(s, Unset)
  <1>1. r = s \/ r = Placed(s, p) \/ r = Put(q, [q.facts EXCEPT !.picking = TRUE])
          \/ r = Put(s, [s.facts EXCEPT !.picking = FALSE])
    BY DEF ReadsPlace
  <1>2. Follows(q, J) /\ Follows(Placed(s, p), J)
    BY PlacedFollows DEF SomePlace
  <1> HIDE DEF q
  <1>3. QED
    BY <1>1, <1>2, PickingFollows

LEMMA ReadTextFollows ==
    ASSUME NEW J, NEW s, Follows(s, J), NEW t \in TextType, HeardIn(s.agreed, t)
    PROVE  Follows(Put(s, ReadText(s.facts, t)), J)
  <1>1. s.facts \in FactsType /\ s.agreed \in AgreedType /\ Knows(s.facts, s.agreed)
    BY SessionParts
  <1>2. MadeOf(ReadText(s.facts, t), s.facts, s.agreed)
    BY <1>1, ReadTextKnown
  <1>3. QED
    BY <1>2, KnownPut DEF MadeOf

LEMMA NoteTextFollows ==
    ASSUME NEW J, NEW s, Follows(s, J), NEW t \in TextType, HeardIn(s.agreed, t)
    PROVE  Follows(Put(s, NoteText(s.facts, t)), J)
  <1>1. s.facts \in FactsType /\ s.agreed \in AgreedType /\ Knows(s.facts, s.agreed)
    BY SessionParts
  <1>2. MadeOf(NoteText(s.facts, t), s.facts, s.agreed)
    BY <1>1, NoteTextKnown
  <1>3. QED
    BY <1>2, KnownPut DEF MadeOf

LEMMA ReleasedFollows ==
    ASSUME NEW J, NEW s, Follows(s, J), NEW close \in BOOLEAN
    PROVE  Follows(Released(s, close), J) /\ Released(s, close).agreed = s.agreed
  <1> DEFINE g == [s.facts EXCEPT !.plans = {}]
             r == Put(s, g)
             m == [r.form EXCEPT !.call = FALSE]
  <1>1. s \in SessionType /\ s.facts \in FactsType
    BY SessionParts
  <1>2. g \in FactsType
    BY <1>1 DEF FactsType
  <1>3. ClaimsNoMore(g, s.facts)
    BY <1>1 DEF FactsType, ClaimsNoMore, Confirmed
  <1> HIDE DEF g
  <1>4. Follows(r, J) /\ r.agreed = s.agreed /\ r.form = s.form
    BY <1>1, <1>2, <1>3, PutLess, PutFacts
  <1> HIDE DEF r
  <1>5. r \in SessionType /\ r.form \in FormType \cup {Unset} /\ Fits(r.form, r.facts)
    BY <1>4, SessionParts
  <1>6. CASE close \/ s.form = Unset
    <2>1. Released(s, close) = Close(r)
      BY <1>6 DEF Released, r, g
    <2>2. Close(r).agreed = r.agreed
      BY <1>5 DEF Close, SessionType
    <2>3. QED
      BY <1>4, <2>1, <2>2, CloseFollows
  <1>7. CASE ~close /\ s.form # Unset
    <2>1. Released(s, close) = [r EXCEPT !.form = m]
      BY <1>7 DEF Released, r, g
    <2>2. /\ m \in FormType /\ m.gate = r.form.gate /\ m.place = r.form.place /\ m.back = r.form.back
      BY <1>4, <1>5, <1>7 DEF FormType, FormOver
    <2> HIDE DEF m
    <2>3. Fits(m, r.facts)
      BY <1>4, <1>5, <1>7, <2>2 DEF Fits, ShowsReview
    <2>4. [r EXCEPT !.form = m].agreed = r.agreed
      BY <1>5 DEF SessionType
    <2>5. QED
      BY <1>4, <2>1, <2>2, <2>3, <2>4, FormFollows
  <1>8. QED
    BY <1>6, <1>7

LEMMA ChangesProductsFollow ==
    ASSUME NEW J, NEW s, Follows(s, J), NEW r \in ChangesProducts(s)
    PROVE  Follows(r, J)
  <1>1. r = s \/ r \in Advance(s) \/ \E q \in Fetched(s, s.facts.pref) : r = Changing(q, "choose_products")
    BY DEF ChangesProducts
  <1>2. QED
    BY <1>1, AdvanceFollows, FetchedFollows, ChangingFollows DEF Needs

LEMMA ChangesPartFollows ==
    ASSUME NEW J, NEW s, Follows(s, J), NEW r \in ChangesPart(s)
    PROVE  Follows(r, J)
  <1> DEFINE q == Released(s, TRUE)
             g == SetPreference(q.facts, Unset, "form")
  <1>1. Follows(q, J)
    BY ReleasedFollows
  <1>2. \/ r = s \/ r = Changing(q, "where") \/ r = Changing(q, "years")
        \/ r \in ChangesProducts(q) \/ r \in ChangesProducts(Put(q, g))
    BY DEF ChangesPart
  <1> HIDE DEF q
  <1>3. g \in FactsType /\ ClaimsNoMore(g, q.facts)
    <2>1. q.facts \in FactsType
      BY <1>1, SessionParts
    <2>2. QED
      BY <2>1, PreferenceClaimsNoMore DEF Kinds
  <1> HIDE DEF g
  <1>4. Follows(Put(q, g), J)
    BY <1>1, <1>3, PutLess
  <1>5. QED
    BY <1>1, <1>2, <1>4, ChangingFollows, ChangesProductsFollow DEF Needs

LEMMA RevisesFollows ==
    ASSUME NEW J, NEW s, Follows(s, J), NEW t \in TextType, HeardIn(s.agreed, t), NEW r \in Revises(s, t)
    PROVE  Follows(r, J)
  <1> DEFINE q == Released(s, FALSE)
             S == IF t.place # Unset THEN ReadsPlace(q, t.place) ELSE {Put(q, ReadText(q.facts, t))}
  <1>1. Follows(q, J) /\ HeardIn(q.agreed, t)
    BY ReleasedFollows
  <1>2. r = s \/ r = q \/ \E x \in S : r \in Advance(x)
    BY DEF Revises
  <1>3. t.place \in SomePlace
    BY DEF TextType
  <1> HIDE DEF q
  <1>4. \A x \in S : Follows(x, J)
    BY <1>1, <1>3, ReadsPlaceFollows, ReadTextFollows
  <1> HIDE DEF S
  <1>5. QED
    BY <1>1, <1>2, <1>4, AdvanceFollows

LEMMA GuidedTextFollows ==
    ASSUME NEW J, NEW s, Follows(s, J), NEW t \in TextType, HeardIn(s.agreed, t), NEW r \in GuidedText(s, t)
    PROVE  Follows(r, J)
  <1> DEFINE start == IF s.form # Unset /\ s.form.gate = "next_steps" THEN Heard(Anew(s), t) ELSE s
             read == Put(start, ReadText(start.facts, t))
             at == IF s.form = Unset THEN "where" ELSE s.form.gate
             places == IF at \in {"where", "choose_location", "review_location", "next_steps"}
                       THEN ReadsPlace(read, t.place) ELSE {read}
  <1>1. Follows(start, J) /\ HeardIn(start.agreed, t)
    <2>1. Follows(Heard(Anew(s), t), J) /\ HeardIn(Heard(Anew(s), t).agreed, t)
      BY AnewFollows, HeardFollows
    <2>2. QED
      BY <2>1
  <1>2. r = s \/ r = read \/ (\E x \in places : r \in Advance(x)) \/ r \in Revises(s, t)
    <2>1. GuidedText(s, t) = {s, read} \cup (UNION {Advance(x) : x \in places})
                              \cup (IF at \in {"review_plan", "review_request"} THEN Revises(s, t) ELSE {})
      BY DEF GuidedText
    <2> HIDE DEF start, read, at, places
    <2>2. (IF at \in {"review_plan", "review_request"} THEN Revises(s, t) ELSE {}) \subseteq Revises(s, t)
      OBVIOUS
    <2>3. r \in {s, read} \/ r \in UNION {Advance(x) : x \in places} \/ r \in Revises(s, t)
      BY <2>1, <2>2
    <2>4. QED
      BY <2>3
  <1>3. t.place \in SomePlace
    BY DEF TextType
  <1> HIDE DEF start
  <1>4. Follows(read, J)
    BY <1>1, ReadTextFollows
  <1> HIDE DEF read
  <1>5. \A x \in places : Follows(x, J)
    BY <1>3, <1>4, ReadsPlaceFollows
  <1> HIDE DEF places
  <1>6. QED
    BY <1>2, <1>4, <1>5, AdvanceFollows, RevisesFollows
-----------------------------------------------------------------------------
(***************************************************************************)
(* Steps.  A step that starts nothing keeps the invariant, and every plan  *)
(* that has started after it had started before.                           *)
(***************************************************************************)
Moved ==
    /\ Follows(Session', facts.plans)
    /\ mode' \in {"guided", "agent"}
    /\ turn' \in TextType \cup {Unset}

LEMMA SessionFollows ==
    ASSUME RequestInv
    PROVE  /\ Follows(Session, facts.plans) /\ Session.facts = facts /\ Session.form = form
           /\ Session.agreed = agreed
           /\ facts \in FactsType /\ agreed \in AgreedType /\ form \in FormType \cup {Unset}
           /\ Knows(facts, agreed) /\ Fits(form, facts)
  <1>1. Session.facts = facts /\ Session.form = form /\ Session.agreed = agreed
    BY DEF Session
  <1>2. Good(Session)
    BY DEF RequestInv
  <1>3. Follows(Session, facts.plans)
    BY <1>1, <1>2 DEF Follows
  <1>4. QED
    BY <1>1, <1>3, SessionParts

LEMMA BecomeFollows ==
    ASSUME NEW J, NEW S, Become(S), \A r \in S : Follows(r, J)
    PROVE  Follows(Session', J)
  <1>1. PICK s \in S : facts' = s.facts /\ form' = s.form /\ agreed' = s.agreed
    BY DEF Become
  <1>2. s \in SessionType
    BY <1>1, SessionParts
  <1>3. Session' = s
    BY <1>1, <1>2 DEF Session, SessionType
  <1>4. QED
    BY <1>1, <1>3

LEMMA ByRulesMoves ==
    ASSUME RequestInv, NEW S, ByRules(S), \A r \in S : Follows(r, facts.plans)
    PROVE  Moved
  BY BecomeFollows DEF ByRules, Moved, RequestInv

LEMMA SilentText == Silent \in TextType
  BY DEF Silent, TextType, Kinds, SomePlace

LEMMA ToModelMoves ==
    ASSUME RequestInv, NEW S, NEW t \in TextType, ToModel(S, t), \A r \in S : Follows(r, facts.plans)
    PROVE  Moved
  BY BecomeFollows DEF ToModel, Moved, RequestInv

LEMMA AdvanceMoves ==
    ASSUME RequestInv, NEW s, Follows(s, facts.plans), ByRules(Advance(s))
    PROVE  Moved
  BY AdvanceFollows, ByRulesMoves

LEMMA AnswersMoves ==
    ASSUME RequestInv, NEW s, Follows(s, facts.plans), Answers(s)
    PROVE  Moved
  <1>1. CASE mode = "agent" /\ form.call
    <2>1. ToModel({Close(s)}, Silent)
      BY <1>1 DEF Answers
    <2>2. \A r \in {Close(s)} : Follows(r, facts.plans)
      BY CloseFollows
    <2>3. QED
      BY <2>1, <2>2, SilentText, ToModelMoves
  <1>2. CASE ~(mode = "agent" /\ form.call)
    <2>1. ByRules(Advance(s))
      BY <1>2 DEF Answers
    <2>2. QED
      BY <2>1, AdvanceMoves
  <1>3. QED
    BY <1>1, <1>2

LEMMA WriteMoves ==
    ASSUME RequestInv, Write
    PROVE  Moved
  <1>1. PICK t \in Texts :
           LET s == Heard(Session, t) IN
           \/ ByRules(GuidedText(s, t))
           \/ ByRules(Revises(s, t))
           \/ LET r == Put(s, NoteText(s.facts, t))
              IN ToModel({IF form # Unset /\ form.call THEN Close(r) ELSE r}, t)
    BY DEF Write
  <1> DEFINE s == Heard(Session, t)
             r == Put(s, NoteText(s.facts, t))
             q == IF form # Unset /\ form.call THEN Close(r) ELSE r
  <1>2. t \in TextType
    BY TextAssumption
  <1>3. Follows(s, facts.plans) /\ HeardIn(s.agreed, t)
    BY <1>2, SessionFollows, HeardFollows
  <1>4. ByRules(GuidedText(s, t)) \/ ByRules(Revises(s, t)) \/ ToModel({q}, t)
    BY <1>1
  <1> HIDE DEF s
  <1>5. CASE ByRules(GuidedText(s, t))
    BY <1>2, <1>3, <1>5, GuidedTextFollows, ByRulesMoves
  <1>6. CASE ByRules(Revises(s, t))
    BY <1>2, <1>3, <1>6, RevisesFollows, ByRulesMoves
  <1>7. CASE ToModel({q}, t)
    <2>1. Follows(r, facts.plans)
      BY <1>2, <1>3, NoteTextFollows
    <2> HIDE DEF r
    <2>2. \A x \in {q} : Follows(x, facts.plans)
      BY <2>1, CloseFollows
    <2> HIDE DEF q
    <2>3. QED
      BY <1>2, <1>7, <2>2, ToModelMoves
  <1>8. QED
    BY <1>4, <1>5, <1>6, <1>7

LEMMA GivePlaceMoves ==
    ASSUME RequestInv, GivePlace
    PROVE  Moved
  <1>1. PICK p \in Places : ByRules(Advance(Placed(Session, p)))
    BY DEF GivePlace
  <1>2. Follows(Placed(Session, p), facts.plans)
    BY SessionFollows, PlacedFollows DEF SomePlace
  <1>3. QED
    BY <1>1, <1>2, AdvanceMoves

\* The form shows the place under review, so that is the one agreed to and approved.
LEMMA ApproveLocationMoves ==
    ASSUME RequestInv, ApproveLocation
    PROVE  Moved
  <1> DEFINE g == [facts EXCEPT !.approved = facts.review]
             s == [Put(Session, g) EXCEPT !.agreed.place = form.place]
  <1>1. /\ form # Unset /\ form.gate = "review_location" /\ facts.review # Unset /\ Answers(s)
    BY DEF ApproveLocation, Shows
  <1>2. /\ facts \in FactsType /\ agreed \in AgreedType /\ form \in FormType
        /\ Knows(facts, agreed) /\ Fits(form, facts)
    BY <1>1, SessionFollows
  <1>3. form.place = facts.review
    BY <1>1, <1>2 DEF Fits, ShowsReview
  <1>4. g \in FactsType
    BY <1>2 DEF FactsType
  <1>5. /\ g.approved = facts.review /\ g.review = facts.review /\ g.chosen = facts.chosen
        /\ g.recheck = facts.recheck /\ g.years = facts.years /\ g.asked = facts.asked
        /\ g.plans = facts.plans
    BY <1>2 DEF FactsType
  <1>6. Put(Session, g) = [facts |-> g, form |-> form, agreed |-> agreed]
    BY DEF Put, Session
  <1>7. s = [facts |-> g, form |-> form, agreed |-> [agreed EXCEPT !.place = facts.review]]
    BY <1>3, <1>6
  <1> DEFINE a == [agreed EXCEPT !.place = facts.review]
  <1>8. /\ a \in AgreedType /\ a.place = facts.review /\ a.picks = agreed.picks
        /\ a.years = agreed.years /\ a.asked = agreed.asked
    BY <1>2 DEF AgreedType, FactsType
  <1> HIDE DEF g, a
  <1>9. Knows(g, a)
    <2>1. \A p \in g.plans : Granted(p, g, a)
      BY <1>1, <1>2, <1>5, <1>8 DEF Knows, Granted, Reviewed
    <2>2. QED
      BY <1>2, <1>5, <1>8, <2>1 DEF Knows, Confirmed
  <1>10. Fits(form, g)
    BY <1>2, <1>5 DEF Fits, ShowsReview
  <1> HIDE DEF s
  <1>11. s \in SessionType /\ s.facts = g /\ s.form = form /\ s.agreed = a
    BY <1>2, <1>4, <1>7, <1>8 DEF SessionType, a
  <1>12. Follows(s, facts.plans)
    BY <1>5, <1>9, <1>10, <1>11 DEF Follows, Good
  <1>13. QED
    BY <1>1, <1>12, AnswersMoves

LEMMA Agreeing ==
    ASSUME RequestInv
    PROVE  LET s == Agrees(Session)
               a == [agreed EXCEPT !.years = agreed.years \cup agreed.asked]
           IN /\ s = [facts |-> facts, form |-> form, agreed |-> a] /\ s \in SessionType
              /\ a \in AgreedType /\ a.place = agreed.place /\ a.picks = agreed.picks
              /\ a.years = agreed.years \cup agreed.asked /\ a.asked = agreed.asked
  <1> DEFINE a == [agreed EXCEPT !.years = agreed.years \cup agreed.asked]
  <1>1. facts \in FactsType /\ agreed \in AgreedType /\ form \in FormType \cup {Unset}
    BY SessionFollows
  <1>2. /\ a \in AgreedType /\ a.place = agreed.place /\ a.picks = agreed.picks
        /\ a.years = agreed.years \cup agreed.asked /\ a.asked = agreed.asked
    BY <1>1 DEF AgreedType
  <1>3. Agrees(Session) = [facts |-> facts, form |-> form, agreed |-> a]
    BY DEF Agrees, Session
  <1> HIDE DEF a
  <1>4. [facts |-> facts, form |-> form, agreed |-> a] \in SessionType
    BY <1>1, <1>2 DEF SessionType
  <1>5. QED
    BY <1>2, <1>3, <1>4 DEF a

\* What was picked on the form is agreed to, and so are the years that were asked about: the form
\* named them.
LEMMA ChooseMoves ==
    ASSUME RequestInv, Choose
    PROVE  Moved
  <1>1. PICK picks \in (SUBSET form.offers) \ {{}} :
           LET f == ConfirmYears(SetChosen(facts, picks \cap facts.offers.ids), facts.offers.years)
               g == IF NeedsYears(f) \/ (mode = "agent" /\ form.call) THEN f
                    ELSE [f EXCEPT !.years = {}, !.asked = {}]
           IN Answers([Put(Agrees(Session), g) EXCEPT !.agreed.picks = @ \cup picks])
    BY DEF Choose
  <1> DEFINE c == SetChosen(facts, picks \cap facts.offers.ids)
             f == ConfirmYears(c, facts.offers.years)
             none == [f EXCEPT !.years = {}, !.asked = {}]
             g == IF NeedsYears(f) \/ (mode = "agent" /\ form.call) THEN f ELSE none
             b == [agreed EXCEPT !.years = agreed.years \cup agreed.asked]
             a == [b EXCEPT !.picks = agreed.picks \cup picks]
             s == [Put(Agrees(Session), g) EXCEPT !.agreed.picks = @ \cup picks]
  <1>2. /\ facts \in FactsType /\ agreed \in AgreedType /\ form \in FormType
        /\ Knows(facts, agreed) /\ Fits(form, facts)
    BY SessionFollows DEF Choose, Shows
  <1>3. picks \in SUBSET Products /\ facts.offers.years \in SUBSET Years
    BY <1>2 DEF FormType, FormOver, FactsType
  <1>4. c \in FactsType
    BY <1>2, <1>3 DEF SetChosen, FactsType
  <1>5. /\ c.chosen = picks \cap facts.offers.ids /\ c.plans = {} /\ c.approved = facts.approved
        /\ c.review = facts.review /\ c.years = facts.years /\ c.asked = facts.asked
    BY <1>2 DEF SetChosen, FactsType
  <1> HIDE DEF c
  <1>6. /\ f \in FactsType /\ f.years = c.years /\ f.asked = c.asked \ facts.offers.years
        /\ f.plans = {} /\ f.approved = c.approved /\ f.review = c.review
        /\ f.chosen = c.chosen
    BY <1>3, <1>4, <1>5, ConfirmedYears
  <1> HIDE DEF f
  <1>7. /\ none \in FactsType /\ none.years = {} /\ none.asked = {}
        /\ none.plans = {} /\ none.approved = f.approved /\ none.review = f.review
        /\ none.chosen = f.chosen
    BY <1>6 DEF FactsType
  <1> HIDE DEF none
  <1>8. /\ g \in FactsType /\ g.years \subseteq facts.years /\ g.asked \subseteq facts.asked
        /\ g.plans = {} /\ g.approved = facts.approved /\ g.review = facts.review
        /\ g.chosen \subseteq picks
    BY <1>5, <1>6, <1>7
  <1> HIDE DEF g
  <1>9. /\ Agrees(Session) = [facts |-> facts, form |-> form, agreed |-> b]
        /\ b \in AgreedType /\ b.place = agreed.place /\ b.picks = agreed.picks
        /\ b.years = agreed.years \cup agreed.asked /\ b.asked = agreed.asked
    BY Agreeing
  <1> HIDE DEF b
  <1>10. /\ a \in AgreedType /\ a.place = agreed.place /\ a.picks = agreed.picks \cup picks
         /\ a.years = agreed.years \cup agreed.asked /\ a.asked = agreed.asked
    BY <1>2, <1>3, <1>9 DEF AgreedType
  <1>11. s = [facts |-> g, form |-> form, agreed |-> a]
    <2>1. Put(Agrees(Session), g) = [facts |-> g, form |-> form, agreed |-> b]
      BY <1>9 DEF Put
    <2>2. s = [facts |-> g, form |-> form, agreed |-> [b EXCEPT !.picks = b.picks \cup picks]]
      BY <2>1
    <2>3. QED
      BY <1>9, <2>2
  <1>12. Answers(s)
    BY <1>1 DEF c, f, none, g
  <1> HIDE DEF a, s
  <1>13. Knows(g, a)
    BY <1>2, <1>8, <1>10 DEF Knows, Confirmed, NoTwins
  <1>14. Fits(form, g)
    BY <1>2, <1>8 DEF Fits, ShowsReview
  <1>15. s \in SessionType /\ s.facts = g /\ s.form = form /\ s.agreed = a
    BY <1>2, <1>8, <1>10, <1>11 DEF SessionType
  <1>16. Follows(s, facts.plans)
    BY <1>8, <1>13, <1>14, <1>15 DEF Follows, Good
  <1>17. QED
    BY <1>12, <1>16, AnswersMoves

LEMMA ApproveRequestMoves ==
    ASSUME RequestInv, ApproveRequest
    PROVE  Moved
  <1> DEFINE f == ConfirmYears(facts, facts.asked)
             by == IF f.by = "model" THEN "form" ELSE f.by
             g == [f EXCEPT !.by = by]
             a == [agreed EXCEPT !.years = agreed.years \cup agreed.asked]
             s == Put(Agrees(Session), g)
  <1>1. /\ facts \in FactsType /\ agreed \in AgreedType /\ form \in FormType /\ form # Unset
        /\ Knows(facts, agreed) /\ Fits(form, facts)
    BY SessionFollows DEF ApproveRequest, Shows
  <1>2. facts.asked \in SUBSET Years
    BY <1>1 DEF FactsType
  <1>3. /\ f \in FactsType /\ f.years = facts.years /\ f.asked = facts.asked \ facts.asked
        /\ f.plans \in {{}, facts.plans} /\ f.approved = facts.approved /\ f.review = facts.review
        /\ f.chosen = facts.chosen /\ f.recheck = facts.recheck
    BY <1>1, <1>2, ConfirmedYears
  <1>4. \/ Answers(s)
        \/ /\ form.back # {}
           /\ \E b \in form.back : ByRules({Close(s)}) \/ (b # Unset /\ ByRules({[s EXCEPT !.form = b]}))
    BY DEF ApproveRequest
  <1> HIDE DEF f
  <1>5. by \in {"text", "form", "model"}
    BY <1>3 DEF FactsType
  <1> HIDE DEF by
  <1>6. /\ g \in FactsType /\ g.years = f.years /\ g.asked = f.asked /\ g.plans = f.plans
        /\ g.approved = f.approved /\ g.review = f.review /\ g.chosen = f.chosen /\ g.recheck = f.recheck
    BY <1>3, <1>5 DEF FactsType
  <1> HIDE DEF g
  <1>7. /\ Agrees(Session) = [facts |-> facts, form |-> form, agreed |-> a]
        /\ a \in AgreedType /\ a.place = agreed.place /\ a.picks = agreed.picks
        /\ a.years = agreed.years \cup agreed.asked /\ a.asked = agreed.asked
    BY Agreeing
  <1> HIDE DEF a
  <1>8. s = [facts |-> g, form |-> form, agreed |-> a]
    BY <1>7 DEF Put
  <1> HIDE DEF s
  <1>9. Knows(g, a)
    <2>1. \A p \in g.plans : Granted(p, g, a)
      BY <1>1, <1>3, <1>6, <1>7 DEF Knows, Granted, Reviewed
    <2>2. NoTwins(g.plans)
      BY <1>1, <1>3, <1>6 DEF Knows, NoTwins
    <2>3. QED
      BY <1>1, <1>3, <1>6, <1>7, <2>1, <2>2 DEF Knows, Confirmed
  <1>10. Fits(form, g)
    BY <1>1, <1>3, <1>6 DEF Fits, ShowsReview
  <1>11. s \in SessionType /\ s.facts = g /\ s.form = form /\ s.agreed = a
    BY <1>1, <1>6, <1>7, <1>8 DEF SessionType
  <1>12. Follows(s, facts.plans)
    BY <1>3, <1>6, <1>9, <1>10, <1>11 DEF Follows, Good
  <1>13. CASE Answers(s)
    BY <1>12, <1>13, AnswersMoves
  <1>14. ASSUME NEW b \in form.back, ByRules({Close(s)})
         PROVE  Moved
    BY <1>12, <1>14, CloseFollows, ByRulesMoves
  <1>15. ASSUME NEW b \in form.back, b # Unset, ByRules({[s EXCEPT !.form = b]})
         PROVE  Moved
    <2>1. b \in PlainForm /\ PlainForm \subseteq FormType /\ b.back = {}
      BY <1>1, <1>15 DEF FormType, PlainForm, FormOver
    <2>2. Fits(b, s.facts)
      BY <1>10, <1>11, <2>1, <1>1 DEF Fits, ShowsReview
    <2>3. Follows([s EXCEPT !.form = b], facts.plans)
      BY <1>12, <2>1, <2>2, FormFollows
    <2>4. QED
      BY <1>15, <2>3, ByRulesMoves
  <1>16. QED
    BY <1>4, <1>13, <1>14, <1>15

\* The summary keeps the form it is opened over.
LEMMA ShowRequestMoves ==
    ASSUME RequestInv, ShowRequest
    PROVE  Moved
  <1> DEFINE back == IF Shows("review_request") THEN form.back ELSE {form}
             n == Shown("review_request", FALSE, FALSE, facts)
             m == [n EXCEPT !.back = back]
  <1>1. /\ facts \in FactsType /\ agreed \in AgreedType /\ form \in FormType \cup {Unset}
        /\ Knows(facts, agreed) /\ Fits(form, facts) /\ Follows(Session, facts.plans)
    BY SessionFollows
  <1>2. back \in SUBSET (PlainForm \cup {Unset}) /\ \A b \in back : ShowsReview(b, facts)
    <2>1. CASE Shows("review_request")
      BY <1>1, <2>1 DEF Shows, FormType, FormOver, Fits
    <2>2. CASE ~Shows("review_request")
      <3>1. form = Unset \/ form \in PlainForm
        BY <1>1, <2>2 DEF Shows, Fits, FormType, PlainForm, FormOver
      <3>2. QED
        BY <1>1, <2>2, <3>1 DEF Fits
    <2>3. QED
      BY <2>1, <2>2
  <1>3. n \in FormType /\ n.gate = "review_request"
    BY <1>1, ShownFits DEF Needs, Shown
  <1>4. ByRules({[Session EXCEPT !.form = m]})
    <2>1. ByRules({[Open(Session, "review_request") EXCEPT !.form.back = back]})
      BY DEF ShowRequest
    <2> HIDE DEF back
    <2>2. [Open(Session, "review_request") EXCEPT !.form.back = back] = [Session EXCEPT !.form = m]
      BY DEF Open, Session
    <2>3. QED
      BY <2>1, <2>2
  <1> HIDE DEF back, n
  <1>5. m \in FormType /\ m.gate = "review_request" /\ m.back = back
    BY <1>2, <1>3 DEF FormType, FormOver
  <1> HIDE DEF m
  <1>6. Fits(m, facts) /\ Session.facts = facts
    BY <1>2, <1>5, SessionFollows DEF Fits, ShowsReview
  <1>7. Follows([Session EXCEPT !.form = m], facts.plans)
    BY <1>1, <1>5, <1>6, FormFollows
  <1>8. QED
    BY <1>4, <1>7, ByRulesMoves

LEMMA RequestsMove ==
    ASSUME RequestInv, Change \/ NextSteps \/ AskAnew
    PROVE  Moved
  <1>1. Follows(Session, facts.plans)
    BY SessionFollows
  <1>2. CASE Change
    BY <1>1, <1>2, ChangesPartFollows, ByRulesMoves DEF Change
  <1>3. CASE NextSteps
    <2>1. ByRules(Advance(Anew(Session)) \cup {Session})
      BY <1>3 DEF NextSteps
    <2>2. \A r \in Advance(Anew(Session)) \cup {Session} : Follows(r, facts.plans)
      BY <1>1, AnewFollows, AdvanceFollows
    <2>3. QED
      BY <2>1, <2>2, ByRulesMoves
  <1>4. CASE AskAnew
    <2> DEFINE s == Close(Anew(Session))
    <2>1. ByRules({s}) \/ ByRules(Advance(s))
      BY <1>4 DEF AskAnew
    <2>2. Follows(s, facts.plans)
      BY <1>1, AnewFollows, CloseFollows
    <2> HIDE DEF s
    <2>3. CASE ByRules({s})
      BY <2>2, <2>3, ByRulesMoves
    <2>4. CASE ByRules(Advance(s))
      BY <2>2, <2>4, AdvanceMoves
    <2>5. QED
      BY <2>1, <2>3, <2>4
  <1>5. QED
    BY <1>2, <1>3, <1>4

LEMMA SwitchModeMoves ==
    ASSUME RequestInv, SwitchMode
    PROVE  Moved
  <1> DEFINE open == form = Unset \/ form.call
             s == IF open THEN Close(Session) ELSE Session
             S == IF open /\ mode = "agent" THEN Advance(s) ELSE {s}
  <1>1. Become(S) /\ mode' \in {"guided", "agent"} /\ turn' = turn
    BY DEF SwitchMode
  <1>2. Follows(s, facts.plans)
    BY SessionFollows, CloseFollows
  <1> HIDE DEF s
  <1>3. \A r \in S : Follows(r, facts.plans)
    BY <1>2, AdvanceFollows
  <1> HIDE DEF S
  <1>4. Follows(Session', facts.plans)
    BY <1>1, <1>3, BecomeFollows
  <1>5. QED
    BY <1>1, <1>4 DEF Moved, RequestInv

LEMMA JobsDoneMoves ==
    ASSUME RequestInv, JobsDone
    PROVE  Moved
  <1> DEFINE g == [facts EXCEPT !.jobs = "done", !.stage = "results"]
             s == Close(Put(Session, g))
             S == IF mode = "agent" THEN {Open(s, "next_steps")} ELSE Advance(s)
  <1>1. Become(S) /\ mode' = mode /\ turn' = turn
    BY DEF JobsDone
  <1>2. facts \in FactsType /\ Follows(Session, facts.plans) /\ Session.facts = facts
    BY SessionFollows
  <1>3. g \in FactsType
    BY <1>2 DEF FactsType
  <1>4. ClaimsNoMore(g, facts)
    BY <1>2 DEF FactsType, ClaimsNoMore, Confirmed
  <1> HIDE DEF g
  <1>5. Follows(s, facts.plans)
    BY <1>2, <1>3, <1>4, PutLess, CloseFollows
  <1> HIDE DEF s
  <1>6. \A r \in S : Follows(r, facts.plans)
    BY <1>5, OpenFollows, AdvanceFollows DEF Needs
  <1> HIDE DEF S
  <1>7. Follows(Session', facts.plans)
    BY <1>1, <1>6, BecomeFollows
  <1>8. QED
    BY <1>1, <1>7 DEF Moved, RequestInv
-----------------------------------------------------------------------------
(***************************************************************************)
(* The model's calls.                                                      *)
(***************************************************************************)
LEMMA AsksMoves ==
    ASSUME RequestInv, NEW S, NEW gate \in Needs, Asks(S, gate), mode' = mode,
           \A s \in S : Follows(s, facts.plans)
    PROVE  Moved
  <1>1. PICK s \in S : /\ facts' = s.facts /\ agreed' = s.agreed
                       /\ form' = Shown(gate, TRUE, FALSE, s.facts) /\ turn' = Unset
    BY DEF Asks
  <1> DEFINE m == Shown(gate, TRUE, FALSE, s.facts)
  <1>2. Follows(s, facts.plans)
    BY <1>1
  <1>3. s \in SessionType /\ s.facts \in FactsType
    BY <1>2, SessionParts
  <1>4. m \in FormType /\ Fits(m, s.facts)
    BY <1>3, ShownFits
  <1>5. Follows([s EXCEPT !.form = m], facts.plans)
    BY <1>2, <1>4, FormFollows
  <1>6. Session' = [s EXCEPT !.form = m]
    <2>1. facts' = s.facts /\ form' = m /\ agreed' = s.agreed
      BY <1>1
    <2> HIDE DEF m
    <2>2. Session' = [facts |-> s.facts, form |-> m, agreed |-> s.agreed]
      BY <2>1 DEF Session
    <2>3. QED
      BY <1>3, <2>2 DEF SessionType
  <1>7. QED
    BY <1>1, <1>5, <1>6 DEF Moved, RequestInv

LEMMA GoesMoves ==
    ASSUME RequestInv, NEW S, Goes(S), mode' = mode, \A s \in S : Follows(s, facts.plans)
    PROVE  Moved
  BY BecomeFollows DEF Goes, Moved, RequestInv

LEMMA BegunFollows ==
    ASSUME RequestInv, turn # Unset
    PROVE  Follows(Begun(Session), facts.plans)
  <1> DEFINE s == Session
             f == [NoFacts EXCEPT !.place = s.facts.place, !.picking = s.facts.picking,
                                  !.review = s.facts.review, !.approved = s.facts.approved]
             a == [s.agreed EXCEPT !.years = {}, !.asked = {}, !.picks = {}]
             q == [s EXCEPT !.facts = f, !.agreed = a]
             h == Heard(q, turn)
             e == Heard([s EXCEPT !.facts = NoteText(f, turn), !.agreed = a], turn)
  <1>1. /\ s.facts = facts /\ s.agreed = agreed /\ s.form = form /\ s \in SessionType
        /\ facts \in FactsType /\ agreed \in AgreedType
        /\ Knows(facts, agreed) /\ Fits(form, facts) /\ Follows(s, facts.plans)
    BY SessionFollows, SessionParts
  <1>2. turn \in TextType
    BY DEF RequestInv
  <1> HIDE DEF s
  <1>3. /\ f \in FactsType /\ f.review = facts.review /\ f.approved = facts.approved
        /\ f.chosen = {} /\ f.years = {} /\ f.asked = {} /\ f.plans = {}
    BY <1>1, NothingIsKnown DEF FactsType, NoFacts
  <1>4. /\ a \in AgreedType /\ a.place = agreed.place
    BY <1>1 DEF AgreedType
  <1> HIDE DEF f, a
  <1>5. q \in SessionType /\ q.facts = f /\ q.agreed = a /\ q.form = form
    BY <1>1, <1>3, <1>4 DEF SessionType
  <1>6. Knows(f, a)
    BY <1>1, <1>3, <1>4 DEF Knows, Confirmed, NoTwins
  <1>7. Follows(q, facts.plans)
    BY <1>1, <1>3, <1>5, <1>6, Replaced
  <1>8. Follows(h, facts.plans) /\ HeardIn(h.agreed, turn) /\ h.facts = f
    BY <1>2, <1>5, <1>7, HeardFollows
  <1>9. Follows(Put(h, NoteText(f, turn)), facts.plans)
    BY <1>2, <1>8, NoteTextFollows
  <1>10. e = Put(h, NoteText(f, turn))
    BY <1>1, <1>3, <1>4 DEF Heard, Put, SessionType
  <1>11. CASE facts.stage # "results"
    BY <1>1, <1>11 DEF Begun, s
  <1>12. CASE facts.stage = "results"
    <2>1. Begun(s) = e
      BY <1>1, <1>12 DEF Begun, f, a
    <2>2. QED
      BY <1>9, <1>10, <2>1 DEF s
  <1>13. QED
    BY <1>11, <1>12

LEMMA ModelReviewsLocationMoves ==
    ASSUME RequestInv, ModelReviewsLocation
    PROVE  Moved
  <1> DEFINE s == Begun(Session)
  <1>1. PICK p \in Places :
           \/ Goes({s})
           \/ /\ s.facts.approved # p
              /\ LET r == Placed(s, p) IN Asks({Put(r, [r.facts EXCEPT !.review = p])}, "review_location")
    BY DEF ModelReviewsLocation
  <1>2. mode' = mode /\ turn # Unset
    BY DEF ModelReviewsLocation, Calls
  <1>3. Follows(s, facts.plans)
    BY <1>2, BegunFollows
  <1> HIDE DEF s
  <1>4. CASE Goes({s})
    BY <1>2, <1>3, <1>4, GoesMoves
  <1>5. CASE ~Goes({s})
    <2> DEFINE r == Placed(s, p)
               g == [r.facts EXCEPT !.review = p]
               q == Put(r, g)
               m == Shown("review_location", TRUE, FALSE, q.facts)
    <2>1. Asks({q}, "review_location")
      BY <1>1, <1>5
    <2>2. s.facts \in FactsType /\ p \in SomePlace
      BY <1>3, SessionParts DEF SomePlace
    <2>3. Follows(r, facts.plans) /\ r.facts = SetPlace(s.facts, p)
      BY <1>3, <2>2, PlacedFollows
    <2>4. r.facts.plans = {} /\ r.facts.approved = Unset
      BY <2>2, <2>3, PlaceClaimsNoMore
    <2> HIDE DEF r
    <2>5. /\ r \in SessionType /\ r.facts \in FactsType /\ r.agreed \in AgreedType
          /\ Knows(r.facts, r.agreed)
      BY <2>3, SessionParts
    <2>6. g \in FactsType
      BY <2>2, <2>5 DEF FactsType
    <2>7. /\ g.plans = {} /\ g.approved = Unset /\ g.chosen = r.facts.chosen
          /\ g.recheck = r.facts.recheck /\ g.years = r.facts.years /\ g.asked = r.facts.asked
      BY <2>4, <2>5 DEF FactsType
    <2> HIDE DEF g
    <2>8. Knows(g, r.agreed)
      BY <2>5, <2>7 DEF Knows, Confirmed, NoTwins
    <2>9. q \in SessionType /\ q.facts = g /\ q.agreed = r.agreed
      BY <2>5, <2>6, PutFacts
    <2> HIDE DEF q
    <2>10. m \in FormType /\ Fits(m, g)
      BY <2>6, <2>9, ShownFits DEF Needs
    <2>11. facts' = g /\ agreed' = r.agreed /\ form' = m /\ turn' = Unset
      BY <2>1, <2>9 DEF Asks
    <2> HIDE DEF m
    <2>12. Session' = [facts |-> g, form |-> m, agreed |-> r.agreed]
      BY <2>11 DEF Session
    <2>13. Follows(Session', facts.plans)
      BY <2>5, <2>6, <2>7, <2>8, <2>10, <2>12 DEF Follows, Good, SessionType
    <2>14. QED
      BY <1>2, <2>11, <2>13 DEF Moved, RequestInv
  <1>6. QED
    BY <1>4, <1>5

LEMMA ModelOffersProductsMoves ==
    ASSUME RequestInv, ModelOffersProducts
    PROVE  Moved
  <1>1. PICK k \in Kinds :
          LET s == IF k \in {Unset, facts.pref} THEN Session ELSE Put(Session, SetPreference(facts, k, "model")) IN
          \/ Goes({s})
          \/ Goes({r \in Fetched(s, k) : r.facts.offers.ids = {}})
          \/ Asks({r \in Fetched(s, k) : r.facts.offers.ids # {}}, "choose_products")
    BY DEF ModelOffersProducts, Kinds
  <1> DEFINE s == IF k \in {Unset, facts.pref} THEN Session ELSE Put(Session, SetPreference(facts, k, "model"))
             none == {r \in Fetched(s, k) : r.facts.offers.ids = {}}
             some == {r \in Fetched(s, k) : r.facts.offers.ids # {}}
  <1>2. Goes({s}) \/ Goes(none) \/ Asks(some, "choose_products")
    BY <1>1
  <1>3. mode' = mode
    BY DEF ModelOffersProducts, Calls
  <1>4. Follows(s, facts.plans)
    <2>1. facts \in FactsType /\ Follows(Session, facts.plans) /\ Session.facts = facts
      BY SessionFollows
    <2>2. SetPreference(facts, k, "model") \in FactsType /\ ClaimsNoMore(SetPreference(facts, k, "model"), facts)
      BY <2>1, PreferenceClaimsNoMore
    <2>3. Follows(Put(Session, SetPreference(facts, k, "model")), facts.plans)
      BY <2>1, <2>2, PutLess
    <2>4. QED
      BY <2>1, <2>3
  <1> HIDE DEF s
  <1>5. \A r \in none \cup some : Follows(r, facts.plans)
    BY <1>4, FetchedFollows
  <1> HIDE DEF none, some
  <1>6. CASE Goes({s})
    BY <1>3, <1>4, <1>6, GoesMoves
  <1>7. CASE Goes(none)
    BY <1>3, <1>5, <1>7, GoesMoves
  <1>8. CASE Asks(some, "choose_products")
    BY <1>3, <1>5, <1>8, AsksMoves DEF Needs
  <1>9. QED
    BY <1>2, <1>6, <1>7, <1>8

\* What a gate lets through of a proposal of the model is part of an approved request.
LEMMA CheckedWithin ==
    ASSUME NEW f \in FactsType, NEW kind, NEW picks, NEW years \in SUBSET Years,
           NEW r \in Checked(f, kind, picks, years)
    PROVE  /\ Reviewed(f) /\ ~f.recheck
           /\ r.group \in {Group[q] : q \in Products} /\ r.picks \subseteq f.chosen
           /\ r.years \subseteq Confirmed(f)
  <1> DEFINE approved == {x \in BuildRequests(f) : (x.group # "typical") = (kind = "historical")}
             touched == {x \in approved : x.picks \cap picks # {}}
             parts == IF Cardinality(touched) >= 2 THEN touched
                      ELSE {x \in approved : picks \subseteq x.picks /\ (picks = {} /\ x.group = "queued" =>
                               \A o \in approved : o.group # "direct")}
             refused == \/ ~Ready(f) \/ ~(picks \subseteq UNION {x.picks : x \in parts})
                        \/ ~(years \subseteq f.years) \/ years \cap f.asked # {}
  <1>1. /\ ~refused
        /\ r \in {[group |-> x.group, picks |-> IF picks = {} THEN x.picks ELSE x.picks \cap picks,
                   years |-> IF x.group = "typical" THEN {} ELSE IF years = {} THEN x.years ELSE years] :
                     x \in parts}
    BY DEF Checked
  <1>2. parts \subseteq BuildRequests(f)
    OBVIOUS
  <1>3. Ready(f) /\ years \subseteq f.years /\ years \cap f.asked = {}
    BY <1>1
  <1> HIDE DEF parts, refused
  <1>4. PICK x \in parts :
          r = [group |-> x.group, picks |-> IF picks = {} THEN x.picks ELSE x.picks \cap picks,
               years |-> IF x.group = "typical" THEN {} ELSE IF years = {} THEN x.years ELSE years]
    BY <1>1
  <1>5. /\ x.group \in {Group[q] : q \in Products} /\ x.picks \subseteq f.chosen
        /\ x.years \subseteq Confirmed(f)
    BY <1>2, <1>4, RequestsWithin
  <1>6. r.group = x.group /\ r.picks \subseteq x.picks /\ r.years \subseteq Confirmed(f)
    BY <1>3, <1>4, <1>5 DEF Confirmed
  <1>7. QED
    BY <1>3, <1>5, <1>6 DEF Ready

LEMMA KeepPlansFollows ==
    ASSUME NEW J, NEW s, Follows(s, J), NEW rs,
           \A r \in rs : /\ Reviewed(s.facts) /\ ~s.facts.recheck
                         /\ r.group \in {Group[q] : q \in Products} /\ r.picks \subseteq s.facts.chosen
                         /\ r.years \subseteq Confirmed(s.facts)
    PROVE  Follows(Put(s, KeepPlans(s.facts, rs)), J)
  <1> DEFINE f == s.facts
             new == {Planned(f, r) : r \in rs}
             same(p, q) == p.picks = q.picks /\ (p.group = "typical") = (q.group = "typical")
             P == {p \in f.plans : \A q \in new : ~same(p, q)} \cup new
  <1>1. f \in FactsType /\ s.agreed \in AgreedType /\ Knows(f, s.agreed)
    BY SessionParts
  <1>2. \A q \in new : q \in PlanType /\ Granted(q, f, s.agreed) /\ ~q.job
    BY <1>1, PlannedGranted
  <1> HIDE DEF new
  <1>3. P \in SUBSET PlanType
    BY <1>1, <1>2 DEF FactsType
  <1>4. \A p \in P : Granted(p, f, s.agreed) /\ (p.job => p \in J)
    BY <1>1, <1>2 DEF Knows, Follows
  <1>5. NoTwins(P)
    <2> SUFFICES ASSUME NEW p \in P, NEW q \in P, p.job, ~q.job, [q EXCEPT !.job = TRUE] = p
                 PROVE  FALSE
      BY DEF NoTwins
    <2>1. p \in f.plans /\ \A x \in new : ~same(p, x)
      BY <1>2
    <2>2. q \in PlanType
      BY <1>3
    <2>3. p.picks = q.picks /\ p.group = q.group
      BY <2>2 DEF PlanType
    <2>4. q \in f.plans
      BY <2>1, <2>3
    <2>5. QED
      BY <1>1, <2>1, <2>4 DEF Knows, NoTwins
  <1>6. KeepPlans(f, rs) = [f EXCEPT !.plans = P]
    BY DEF KeepPlans, new
  <1> HIDE DEF P
  <1>7. QED
    BY <1>3, <1>4, <1>5, <1>6, PlansPut

LEMMA ModelPlansMoves ==
    ASSUME RequestInv, ModelPlans
    PROVE  Moved
  <1>1. PICK kind \in {"historical", "typical"}, picks \in SUBSET Products, years \in SUBSET Years :
          \E s \in Refreshed(Session) : \E done \in SUBSET Checked(s.facts, kind, picks, years) :
             Goes({Put(s, KeepPlans(s.facts, done))})
    BY DEF ModelPlans
  <1>2. PICK s \in Refreshed(Session) : \E done \in SUBSET Checked(s.facts, kind, picks, years) :
             Goes({Put(s, KeepPlans(s.facts, done))})
    BY <1>1
  <1>3. PICK done \in SUBSET Checked(s.facts, kind, picks, years) :
             Goes({Put(s, KeepPlans(s.facts, done))})
    BY <1>2
  <1>4. Follows(s, facts.plans)
    BY SessionFollows, RefreshedFollows
  <1>5. s.facts \in FactsType
    BY <1>4, SessionParts
  <1>6. \A r \in done : /\ Reviewed(s.facts) /\ ~s.facts.recheck
                        /\ r.group \in {Group[q] : q \in Products} /\ r.picks \subseteq s.facts.chosen
                        /\ r.years \subseteq Confirmed(s.facts)
    BY <1>5, CheckedWithin
  <1>7. Follows(Put(s, KeepPlans(s.facts, done)), facts.plans)
    BY <1>4, <1>6, KeepPlansFollows
  <1>8. mode' = mode
    BY DEF ModelPlans, Calls
  <1>9. QED
    BY <1>3, <1>7, <1>8, GoesMoves

LEMMA ModelMoves ==
    ASSUME RequestInv,
           \/ ModelReviewsLocation \/ ModelOffersProducts \/ ModelLooksUp \/ ModelShowsRequest
           \/ ModelAsksYears \/ ModelPlans \/ ModelShowsPlans \/ TurnEnds
    PROVE  Moved
  <1>1. Follows(Session, facts.plans) /\ \A s \in {Session} : Follows(s, facts.plans)
    BY SessionFollows
  <1>2. CASE ModelLooksUp
    BY <1>1, <1>2, GoesMoves DEF ModelLooksUp, Calls
  <1>3. CASE ModelShowsRequest
    BY <1>1, <1>3, AsksMoves DEF ModelShowsRequest, Calls, Needs
  <1>4. CASE ModelAsksYears
    BY <1>1, <1>4, AsksMoves DEF ModelAsksYears, Calls, Needs
  <1>5. CASE ModelShowsPlans
    BY <1>1, <1>5, AsksMoves DEF ModelShowsPlans, Calls, Needs
  <1>6. CASE TurnEnds
    <2> DEFINE S == IF form = Unset /\ Need(facts) \in {"plan", "review_plan"} THEN Advance(Session) ELSE {Session}
    <2>1. Become(S) /\ mode' = mode /\ turn' = Unset
      BY <1>6 DEF TurnEnds
    <2>2. \A s \in S : Follows(s, facts.plans)
      BY <1>1, AdvanceFollows
    <2> HIDE DEF S
    <2>3. Follows(Session', facts.plans)
      BY <2>1, <2>2, BecomeFollows
    <2>4. QED
      BY <2>1, <2>3 DEF Moved, RequestInv
  <1>7. QED
    BY <1>2, <1>3, <1>4, <1>5, <1>6, ModelReviewsLocationMoves, ModelOffersProductsMoves, ModelPlansMoves
-----------------------------------------------------------------------------
(***************************************************************************)
(* Starting.                                                               *)
(***************************************************************************)
LEMMA StartFollows ==
    ASSUME NEW J, NEW s, Follows(s, J), NEW S \in SUBSET {p \in s.facts.plans : ~p.job}
    PROVE  Follows(Start(s, S), PlanType)
  <1> DEFINE f == s.facts
             started(p) == [p EXCEPT !.job = TRUE]
             P == {IF p \in S THEN started(p) ELSE p : p \in f.plans}
             ran == IF S = {} THEN f.jobs ELSE "running"
             g == [f EXCEPT !.plans = P, !.jobs = ran]
             r == Put(s, g)
  <1>1. s \in SessionType /\ f \in FactsType /\ Knows(f, s.agreed) /\ Fits(s.form, f)
    BY SessionParts
  <1>2. \A p \in f.plans : p \in PlanType
    BY <1>1 DEF FactsType
  <1>3. \A p \in PlanType : /\ started(p) \in PlanType /\ started(p).job = TRUE
                            /\ started(p).place = p.place /\ started(p).picks = p.picks
                            /\ started(p).years = p.years
    BY DEF PlanType
  <1>4. \A p, q \in PlanType : ~p.job /\ ~q.job /\ started(p) = started(q) => p = q
    <2> SUFFICES ASSUME NEW p \in PlanType, NEW q \in PlanType, ~p.job, ~q.job, started(p) = started(q)
                 PROVE  p = q
      OBVIOUS
    <2>1. p.group = q.group /\ p.picks = q.picks /\ p.place = q.place /\ p.years = q.years
      <3>1. started(p).group = p.group /\ started(q).group = q.group
        BY DEF PlanType
      <3> HIDE DEF started
      <3>2. QED
        BY <1>3, <3>1
    <2>2. p.job = q.job
      BY DEF PlanType
    <2>3. QED
      BY <2>1, <2>2 DEF PlanType
  <1> HIDE DEF started
  <1>5. P \in SUBSET PlanType
    BY <1>2, <1>3
  <1>6. \A p \in P : Granted(p, f, s.agreed)
    BY <1>1, <1>2, <1>3 DEF Knows, Granted
  <1>7. NoTwins(P)
    <2> SUFFICES ASSUME NEW p \in P, NEW q \in P, p.job, ~q.job, started(q) = p
                 PROVE  FALSE
      BY DEF NoTwins, started
    <2>1. q \in f.plans /\ q \notin S
      BY <1>2, <1>3
    <2>2. PICK x \in f.plans : p = IF x \in S THEN started(x) ELSE x
      OBVIOUS
    <2>3. CASE x \in S
      BY <1>2, <1>4, <2>1, <2>2, <2>3
    <2>4. CASE x \notin S
      BY <1>1, <2>1, <2>2, <2>4 DEF Knows, NoTwins, started
    <2>5. QED
      BY <2>3, <2>4
  <1>8. ran \in {"none", "running", "done"}
    BY <1>1 DEF FactsType
  <1>9. Start(s, S) = r
    BY DEF Start, started
  <1> HIDE DEF P, ran
  <1>10. g \in FactsType
    BY <1>1, <1>5, <1>8 DEF FactsType
  <1>11. /\ g.plans = P /\ g.review = f.review /\ g.approved = f.approved /\ g.chosen = f.chosen
         /\ g.recheck = f.recheck /\ g.years = f.years /\ g.asked = f.asked
    BY <1>1 DEF FactsType
  <1> HIDE DEF g
  <1>12. r \in SessionType /\ r.facts = g /\ r.form = s.form /\ r.agreed = s.agreed
    BY <1>1, <1>10, PutFacts
  <1> HIDE DEF r
  <1>13. Knows(g, s.agreed)
    <2>1. \A p \in g.plans : Granted(p, g, s.agreed)
      BY <1>6, <1>11 DEF Granted, Reviewed
    <2>2. QED
      BY <1>1, <1>7, <1>11, <2>1 DEF Knows, Confirmed
  <1>14. Fits(s.form, g)
    BY <1>1, <1>11 DEF Fits, ShowsReview
  <1>15. QED
    BY <1>5, <1>9, <1>11, <1>12, <1>13, <1>14 DEF Follows, Good

LEMMA ReopensFollows ==
    ASSUME NEW J, NEW s, Follows(s, J), s.form # Unset, NEW r \in Reopens(s)
    PROVE  Follows(r, J)
  <1> DEFINE m == [s.form EXCEPT !.plans = s.facts.plans]
  <1>1. s \in SessionType /\ s.facts \in FactsType /\ s.form \in FormType /\ Fits(s.form, s.facts)
    BY SessionParts
  <1>2. CASE mode = "agent" /\ form.call
    <2>1. r = [s EXCEPT !.form = m]
      BY <1>1, <1>2 DEF Reopens, SessionType
    <2>2. m \in FormType /\ m.gate = s.form.gate /\ m.place = s.form.place /\ m.back = s.form.back
      BY <1>1 DEF FormType, FormOver, FactsType
    <2> HIDE DEF m
    <2>3. Fits(m, s.facts)
      BY <1>1, <2>2 DEF Fits, ShowsReview
    <2>4. QED
      BY <2>1, <2>2, <2>3, FormFollows
  <1>3. CASE ~(mode = "agent" /\ form.call)
    BY <1>3, AdvanceFollows DEF Reopens
  <1>4. QED
    BY <1>2, <1>3

\* A review that shows other plans than there are opens again and starts nothing.
LEMMA StaleRunMoves ==
    ASSUME RequestInv, Run, ~ShowsCurrent(Session)
    PROVE  Moved
  <1>1. ByRules(Reopens(Session)) /\ form # Unset
    BY DEF Run, Shows
  <1>2. \A r \in Reopens(Session) : Follows(r, facts.plans)
    BY <1>1, SessionFollows, ReopensFollows
  <1>3. QED
    BY <1>1, <1>2, ByRulesMoves

LEMMA RunKeeps ==
    ASSUME RequestInv, Run, ShowsCurrent(Session)
    PROVE  RequestInv' /\ form.plans = facts.plans
  <1>1. PICK S \in SUBSET {p \in facts.plans : ~p.job} :
           ByRules(IF \A p \in facts.plans : p.job \/ p \in S THEN {Close(Start(Session, S))}
                   ELSE {Start(Session, S)} \cup Reopens(Start(Session, S)))
    BY DEF Run
  <1> DEFINE s == Start(Session, S)
             R == IF \A p \in facts.plans : p.job \/ p \in S THEN {Close(s)} ELSE {s} \cup Reopens(s)
  <1>2. form # Unset
    BY DEF Run, Shows
  <1>3. Follows(s, PlanType)
    BY SessionFollows, StartFollows
  <1>4. s.form = form
    BY DEF Start, Put, Session
  <1>5. ByRules(R)
    BY <1>1
  <1> HIDE DEF s
  <1>6. \A r \in R : Follows(r, PlanType)
    BY <1>2, <1>3, <1>4, CloseFollows, ReopensFollows
  <1> HIDE DEF R
  <1>7. Follows(Session', PlanType) /\ mode' = mode /\ turn' = turn
    BY <1>5, <1>6, BecomeFollows DEF ByRules
  <1>8. RequestInv'
    BY <1>7 DEF RequestInv, Follows
  <1>9. form.plans = facts.plans
    BY DEF ShowsCurrent, Session
  <1>10. QED
    BY <1>8, <1>9
-----------------------------------------------------------------------------
LEMMA RequestInit == Init => RequestInv
  <1> SUFFICES ASSUME Init PROVE RequestInv
    OBVIOUS
  <1>1. Session = [facts |-> NoFacts, form |-> Unset, agreed |-> Nothing]
    BY DEF Init, Session
  <1>2. Fits(Unset, NoFacts)
    BY DEF Fits, ShowsReview
  <1>3. Good(Session)
    BY <1>1, <1>2, NothingIsKnown DEF Good, SessionType
  <1>4. QED
    BY <1>3 DEF Init, RequestInv

\* Every step starts nothing, or it is the review of the plans as they are that the person answers.
LEMMA StepMoves ==
    ASSUME RequestInv, Next
    PROVE  Moved \/ (Run /\ ShowsCurrent(Session))
  BY WriteMoves, GivePlaceMoves, ApproveLocationMoves, ChooseMoves, ApproveRequestMoves, ShowRequestMoves,
     RequestsMove, StaleRunMoves, SwitchModeMoves, JobsDoneMoves, ModelMoves DEF Next

LEMMA MovedKeeps ==
    ASSUME RequestInv, Moved
    PROVE  RequestInv' /\ Starting = {}
  <1>1. RequestInv' /\ \A p \in facts'.plans : p.job => p \in facts.plans
    BY DEF Moved, Follows, RequestInv, Session
  <1>2. facts \in FactsType /\ NoTwins(facts.plans)
    BY SessionFollows DEF Knows
  <1>3. ASSUME NEW p \in facts.plans, ~p.job, [p EXCEPT !.job = TRUE] \in facts'.plans
        PROVE  FALSE
    <2> DEFINE q == [p EXCEPT !.job = TRUE]
    <2>1. q.job
      BY <1>2 DEF FactsType, PlanType
    <2>2. q \in facts.plans
      BY <1>1, <1>3, <2>1
    <2>3. QED
      BY <1>2, <1>3, <2>1, <2>2 DEF NoTwins
  <1>4. QED
    BY <1>1, <1>3 DEF Starting

LEMMA RequestStep == RequestInv /\ [Next]_vars => RequestInv'
  <1> SUFFICES ASSUME RequestInv, [Next]_vars PROVE RequestInv'
    OBVIOUS
  <1>1. CASE Next
    BY <1>1, StepMoves, MovedKeeps, RunKeeps
  <1>2. CASE UNCHANGED vars
    BY <1>2 DEF vars, RequestInv, Session
  <1>3. QED
    BY <1>1, <1>2

\* What the facts of a request hold as approved is what the person agreed to, in every state.
THEOREM RequestIsSound == Spec => []RequestInv
  BY RequestInit, RequestStep, PTL DEF Spec

\* "Only approved facts reach a plan": whatever the person writes and answers, in whatever order,
\* and whatever the model calls, nothing starts that the person has not said yes to on a form.
THEOREM ConsentIsNeeded == Spec => Consented
  <1> DEFINE agrees == \A p \in Starting :
            /\ p \in form.plans
            /\ p.place = agreed.place /\ p.picks \subseteq agreed.picks /\ p.years \subseteq agreed.years
  <1>1. RequestInv /\ [Next]_vars => [agrees]_vars
    <2> SUFFICES ASSUME RequestInv, Next PROVE agrees
      OBVIOUS
    <2>1. CASE Moved
      BY <2>1, MovedKeeps
    <2>2. CASE Run /\ ShowsCurrent(Session)
      <3>1. form.plans = facts.plans
        BY <2>2, RunKeeps
      <3>2. Knows(facts, agreed)
        BY SessionFollows
      <3>3. ASSUME NEW p \in Starting
            PROVE  /\ p \in form.plans
                   /\ p.place = agreed.place /\ p.picks \subseteq agreed.picks
                   /\ p.years \subseteq agreed.years
        <4>1. p \in facts.plans
          BY DEF Starting
        <4>2. Granted(p, facts, agreed)
          BY <3>2, <4>1 DEF Knows
        <4>3. QED
          BY <3>1, <3>2, <4>1, <4>2 DEF Granted, Knows, Reviewed
      <3>4. QED
        BY <3>3
    <2>3. QED
      BY <2>1, <2>2, StepMoves
  <1>2. Spec => []RequestInv
    BY RequestIsSound
  <1>3. QED
    BY <1>1, <1>2, PTL DEF Spec, Consented
-----------------------------------------------------------------------------


LEMMA LeastOf ==
    ASSUME NEW S, S \subseteq Nat, S # {}
    PROVE  Eligible!Min(S) \in S /\ \A x \in S : Eligible!Min(S) <= x
  <1> DEFINE R == OpToRel(<, Nat)
  <1>1. IsWellFoundedOn(R, Nat)
    BY NatLessThanWellFounded
  <1>2. PICK s \in S : \A r \in S : <<r, s>> \notin R
    <2> HIDE DEF R
    <2> QED  BY <1>1, WFMin
  <1>3. \A r \in S : s <= r
    <2> SUFFICES ASSUME NEW r \in S PROVE ~ (r < s)
      OBVIOUS
    <2>1. r \in Nat /\ s \in Nat /\ <<r, s>> \notin R
      BY <1>2
    <2>2. QED
      BY <2>1 DEF OpToRel
  <1>4. QED
    BY <1>3 DEF Eligible!Min

\* A finite set of numbers has a greatest one: among its subsets that have members and none that is
\* greatest, a least one would be left without a member.
LEMMA GreatestOf ==
    ASSUME NEW S, S \subseteq Nat, S # {}, IsFiniteSet(S)
    PROVE  Eligible!Max(S) \in S /\ \A x \in S : x <= Eligible!Max(S)
  <1> DEFINE Bad == {T \in SUBSET S : T # {} /\ \A m \in T : \E x \in T : m < x}
             R == StrictSubsetOrdering(S)
  <1>1. Bad = {}
    <2> SUFFICES ASSUME Bad # {} PROVE FALSE
      OBVIOUS
    <2>1. IsWellFoundedOn(R, SUBSET S)
      BY FS_StrictSubsetOrderingWellFounded, FS_FiniteSubsetsOfFinite
    <2>2. PICK T \in Bad : \A U \in Bad : <<U, T>> \notin R
      <3> Bad \subseteq SUBSET S
        OBVIOUS
      <3> HIDE DEF R, Bad
      <3> QED  BY <2>1, WFMin
    <2>3. PICK x \in T : TRUE
      OBVIOUS
    <2> DEFINE U == T \ {x}
    <2>4. U \notin Bad
      BY <2>2, <2>3 DEF StrictSubsetOrdering
    <2>5. U # {}
      <3>1. PICK y \in T : x < y
        BY <2>3
      <3>2. y \in U
        BY <3>1
      <3> QED  BY <3>2
    <2>6. PICK m \in U : \A y \in U : ~ (m < y)
      BY <2>4, <2>5
    <2>7. PICK y \in T : m < y
      BY <2>6
    <2>8. y = x
      BY <2>6, <2>7
    <2>9. PICK z \in T : x < z
      BY <2>3
    <2>10. z \in U /\ m < z
      BY <2>6, <2>7, <2>8, <2>9
    <2> QED  BY <2>6, <2>10
  <1>2. PICK m \in S : \A x \in S : ~ (m < x)
    BY <1>1
  <1>3. \A x \in S : m >= x
    BY <1>2
  <1>4. \E n \in S : \A x \in S : n >= x
    BY <1>2, <1>3
  <1>5. Eligible!Max(S) \in S /\ \A x \in S : Eligible!Max(S) >= x
    BY <1>4 DEF Eligible!Max
  <1> QED  BY <1>5

LEMMA EntriesAreTyped ==
    ASSUME NEW q, QuestionSound(q), NEW n \in DOMAIN q.entries
    PROVE  q.entries[n] \in EntryType /\ IsFiniteSet(q.entries[n].years) /\ n \in Nat
  <1>1. q.entries \in Seq(EntryType)
    BY DEF QuestionSound
  <1> QED  BY <1>1 DEF QuestionSound

\* The entry that decides applies, and says the best that any applicable entry says.
LEMMA BestIsSaid ==
    ASSUME NEW q, QuestionSound(q), Eligible!Applies(q) \subseteq DOMAIN q.entries, Eligible!Applies(q) # {}
    PROVE  \E n \in Eligible!Applies(q) : Eligible!Best(q) = Eligible!Said(q, n)
  <1>1. Eligible!Candidates(q) # {} /\ Eligible!Candidates(q) \subseteq Eligible!Applies(q)
    BY DEF Eligible!Candidates, Eligible!Saying
  <1>2. Eligible!Candidates(q) \subseteq Nat
    BY <1>1, EntriesAreTyped
  <1>3. Eligible!Min(Eligible!Candidates(q)) \in Eligible!Applies(q)
    BY <1>1, <1>2, LeastOf
  <1> QED  BY <1>3 DEF Eligible!Best

LEMMA AppliesAreEntries ==
    ASSUME NEW q
    PROVE  Eligible!Applies(q) \subseteq DOMAIN q.entries
  BY DEF Eligible!Applies, Eligible!Here, Eligible!Area

\* What supports an actual request has its years.
LEMMA ActualVouches ==
    ASSUME NEW q, QuestionSound(q), NEW e \in EntryType, IsFiniteSet(e.years), q.kind = "actual",
           Eligible!ActualSays(q, e)[1] = "supported", Now \in Nat
    PROVE  /\ e.kind = "actual"
           /\ \A y \in q.years :
                 \/ y \in e.years
                 \/ e.years = {} /\ (e.from # None => y >= e.from) /\ y <= Eligible!LastFull(e)
  <1>1. e.kind = "actual"
    BY DEF Eligible!ActualSays, Eligible!Says
  <1>2. q.years \subseteq Nat /\ e.years \subseteq Nat /\ IsFiniteSet(q.years)
        /\ e.from \in Nat \cup {None} /\ e.to \in Nat \cup {None}
    BY DEF QuestionSound, EntryType
  <1>3. CASE e.years # {}
    BY <1>1, <1>3 DEF Eligible!ActualSays, Eligible!Says
  <1>4. ASSUME e.years = {}, NEW y \in q.years
        PROVE  (e.from # None => y >= e.from) /\ y <= Eligible!LastFull(e)
    <2>1. /\ Eligible!NewestYear(q) = Eligible!Max(q.years) /\ Eligible!NewestYear(q) \in Nat /\ y <= Eligible!NewestYear(q)
      BY <1>2, <1>4, GreatestOf DEF Eligible!NewestYear
    <2>2. Eligible!OldestYear(q) \in Nat /\ Eligible!OldestYear(q) <= y
      BY <1>2, <1>4, LeastOf DEF Eligible!OldestYear
    <2>3. ~ (e.from # None /\ Eligible!OldestYear(q) < e.from)
      BY <1>1, <1>4 DEF Eligible!ActualSays, Eligible!Says
    <2>4. ~ (e.to # None /\ Eligible!NewestYear(q) > (IF e.cut THEN e.to - 1 ELSE e.to))
      BY <1>1, <1>4, <2>3 DEF Eligible!ActualSays, Eligible!Says
    <2>5. ~ (e.to = None /\ Eligible!NewestYear(q) >= Now)
      BY <1>1, <1>4, <2>3, <2>4 DEF Eligible!ActualSays, Eligible!Says
    <2>6. e.from # None => y >= e.from
      BY <1>2, <2>2, <2>3
    <2>7. y <= Eligible!LastFull(e)
      BY <1>2, <2>1, <2>4, <2>5 DEF Eligible!LastFull
    <2> QED  BY <2>6, <2>7
  <1> QED  BY <1>1, <1>3, <1>4

\* A dated list or period that does not age ends after the last year asked for.
LEMMA AgelessIsClosed ==
    ASSUME NEW q, QuestionSound(q), NEW e \in EntryType, IsFiniteSet(e.years), e.kind = "actual",
           ~Eligible!Ages(q, e), Now \in Nat
    PROVE  Eligible!Closed(q, e)
  <1>1. Eligible!NewestYear(q) \in Nat
    BY GreatestOf DEF Eligible!NewestYear, QuestionSound
  <1>2. e.years \subseteq Nat /\ e.to \in Nat \cup {None}
    BY DEF EntryType
  <1>3. CASE e.years # {}
    <2>1. Eligible!Max(e.years) \in Nat
      BY <1>2, <1>3, GreatestOf
    <2> QED  BY <1>1, <1>3, <2>1 DEF Eligible!Ages, Eligible!Closed
  <1>4. CASE e.years = {}
    BY <1>1, <1>2, <1>4 DEF Eligible!Ages, Eligible!Closed
  <1> QED  BY <1>3, <1>4

\* A supported answer rests on an entry that vouches for it and has not aged.
LEMMA SupportedIsVouched ==
    ASSUME NEW q, QuestionSound(q), Now \in Nat, Eligible!Assess(q) = "supported"
    PROVE  /\ q.place # "outside" /\ (q.land => q.place = "inside")
           /\ \E n \in DOMAIN q.entries :
                 /\ Eligible!Vouches(q, q.entries[n])
                 /\ q.entries[n].due => CASE q.kind = "actual" -> Eligible!Closed(q, q.entries[n])
                                          [] OTHER -> q.kind = "typical"
  <1>1. q.place # "outside" /\ ~Eligible!Out(q) /\ ~Eligible!Doubts(q)
    BY DEF Eligible!Assess
  <1>2. q.land => q.place = "inside"
    BY <1>1 DEF Eligible!Doubts, Eligible!Unmapped
  <1>3. Eligible!Applies(q) # {}
    BY <1>1 DEF Eligible!Doubts, Eligible!Best, Eligible!Says
  <1>4. PICK n \in Eligible!Applies(q) : Eligible!Best(q) = Eligible!Said(q, n)
    BY <1>3, BestIsSaid, AppliesAreEntries
  <1> DEFINE e == q.entries[n]
  <1>5. n \in DOMAIN q.entries /\ e \in EntryType /\ IsFiniteSet(e.years)
    BY AppliesAreEntries, EntriesAreTyped
  <1>6. q.kind \in {"actual", "typical", "future"}
    BY DEF QuestionSound
  <1>7. Eligible!Temporal(q, e)[1] \in {"supported", "unknown", "excluded"}
    BY <1>6 DEF Eligible!Temporal, Eligible!ActualSays, Eligible!TypicalSays, Eligible!FutureSays, Eligible!Says
  <1>8. Eligible!Temporal(q, e)[1] = "supported"
    <2>1. Eligible!Best(q)[1] # "unknown"
      BY <1>1 DEF Eligible!Doubts
    <2>2. Eligible!Best(q)[1] # "excluded"
      <3> SUFFICES ASSUME Eligible!Best(q)[1] = "excluded" PROVE FALSE
        OBVIOUS
      <3>1. Eligible!Best(q)[2] /\ Eligible!Due(q)
        BY <1>1 DEF Eligible!Out, Eligible!Stands
      <3>2. q.kind = "future"
        BY <1>4, <1>6, <3>1 DEF Eligible!Said, Eligible!Temporal, Eligible!ActualSays, Eligible!TypicalSays, Eligible!Says
      <3> QED  BY <1>1, <3>1, <3>2 DEF Eligible!Doubts, Eligible!TimeSensitive
    <2> QED  BY <1>4, <1>7, <2>1, <2>2 DEF Eligible!Said
  <1> HIDE DEF e
  <1>9. Eligible!Vouches(q, e)
    <2>1. e.kind = q.kind /\ (q.kind = "future" => e.window = q.window)
      BY <1>6, <1>8 DEF Eligible!Temporal, Eligible!ActualSays, Eligible!TypicalSays, Eligible!FutureSays, Eligible!Says
    <2>2. e.probe = "elsewhere" /\ q.provider \in Eligible!Probed => q.place = "inside"
      <3> SUFFICES ASSUME e.probe = "elsewhere", q.provider \in Eligible!Probed PROVE q.place = "inside"
        OBVIOUS
      <3>1. n \notin Eligible!Area(q) /\ n \notin Eligible!Here(q)
        BY QuestionAssumption DEF QuestionAssumption, Eligible!Area, Eligible!Here, e
      <3>2. Eligible!Gated(q)
        BY <1>1, <1>5, <3>1 DEF Eligible!Gated
      <3> QED  BY <3>1, <3>2 DEF Eligible!Applies
    <2>3. ASSUME q.kind = "actual"
          PROVE  \A y \in q.years :
                    \/ y \in e.years
                    \/ e.years = {} /\ (e.from # None => y >= e.from) /\ y <= Eligible!LastFull(e)
      BY <1>5, <1>8, <2>3, ActualVouches DEF Eligible!Temporal
    <2> QED  BY <2>1, <2>2, <2>3 DEF Eligible!Vouches
  <1>10. ASSUME e.due PROVE CASE q.kind = "actual" -> Eligible!Closed(q, e) [] OTHER -> q.kind = "typical"
    <2>1. Eligible!Due(q)
      BY <1>10 DEF Eligible!Due, e
    <2>2. ~Eligible!TimeSensitive(q)
      BY <1>1, <2>1 DEF Eligible!Doubts
    <2>3. ASSUME q.kind = "actual" PROVE Eligible!Closed(q, e)
      <3>1. ~Eligible!Ages(q, e) /\ e.kind = "actual"
        BY <1>9, <2>2, <2>3 DEF Eligible!TimeSensitive, Eligible!Vouches, e
      <3> QED  BY <1>5, <3>1, AgelessIsClosed
    <2> QED  BY <1>6, <2>2, <2>3 DEF Eligible!TimeSensitive
  <1> QED  BY <1>1, <1>2, <1>5, <1>9, <1>10 DEF e

LEMMA OverdueFields ==
    ASSUME NEW q, QuestionSound(q)
    PROVE  LET p == Eligible!Overdue(q) IN
           /\ p.due = TRUE /\ DOMAIN p.entries = DOMAIN q.entries
           /\ p.kind = q.kind /\ p.years = q.years /\ p.window = q.window /\ p.provider = q.provider
           /\ p.fits = q.fits /\ p.barred = q.barred /\ p.vague = q.vague /\ p.land = q.land /\ p.place = q.place
           /\ \A n \in DOMAIN q.entries : p.entries[n] = [q.entries[n] EXCEPT !.due = TRUE]
  BY DEF Eligible!Overdue, QuestionSound

\* A due check changes nothing of what the entries say, and of which apply.
LEMMA OverdueSaysTheSame ==
    ASSUME NEW q, QuestionSound(q), NEW p, p = Eligible!Overdue(q)
    PROVE  /\ Eligible!Applies(p) = Eligible!Applies(q)
           /\ Eligible!Best(p) = Eligible!Best(q)
           /\ Eligible!TimeSensitive(p) = Eligible!TimeSensitive(q)
  <1> DEFINE fields ==
           /\ p.due = TRUE /\ DOMAIN p.entries = DOMAIN q.entries
           /\ p.kind = q.kind /\ p.years = q.years /\ p.window = q.window /\ p.provider = q.provider
           /\ p.place = q.place
  <1>0. /\ Eligible!Overdue(q).due = TRUE /\ DOMAIN Eligible!Overdue(q).entries = DOMAIN q.entries
        /\ Eligible!Overdue(q).kind = q.kind /\ Eligible!Overdue(q).years = q.years
        /\ Eligible!Overdue(q).window = q.window /\ Eligible!Overdue(q).provider = q.provider
        /\ Eligible!Overdue(q).place = q.place
        /\ \A n \in DOMAIN q.entries : Eligible!Overdue(q).entries[n] = [q.entries[n] EXCEPT !.due = TRUE]
    BY OverdueFields
  <1>1. fields /\ \A n \in DOMAIN q.entries : p.entries[n] = [q.entries[n] EXCEPT !.due = TRUE]
    <2> HIDE DEF Eligible!Overdue
    <2> QED  BY <1>0, Zenon
  <1>2. ASSUME NEW n \in DOMAIN q.entries
        PROVE  LET e == q.entries[n]
                   f == p.entries[n]
               IN  /\ f.kind = e.kind /\ f.years = e.years /\ f.from = e.from /\ f.to = e.to /\ f.cut = e.cut
                   /\ f.window = e.window /\ f.probe = e.probe /\ f.documented = e.documented /\ f.site = e.site
                   /\ f.other = e.other /\ f.partial = e.partial
    <2>1. ASSUME NEW e \in EntryType
          PROVE  LET f == [e EXCEPT !.due = TRUE]
                 IN  /\ f.kind = e.kind /\ f.years = e.years /\ f.from = e.from /\ f.to = e.to /\ f.cut = e.cut
                     /\ f.window = e.window /\ f.probe = e.probe /\ f.documented = e.documented /\ f.site = e.site
                     /\ f.other = e.other /\ f.partial = e.partial
      BY DEF EntryType
    <2>2. q.entries[n] \in EntryType /\ p.entries[n] = [q.entries[n] EXCEPT !.due = TRUE]
      BY <1>1, EntriesAreTyped
    <2> QED  BY <2>1, <2>2
  <1> HIDE DEF fields
  <1>3. Eligible!NewestYear(p) = Eligible!NewestYear(q) /\ Eligible!OldestYear(p) = Eligible!OldestYear(q)
    BY <1>1 DEF fields, Eligible!NewestYear, Eligible!OldestYear
  <1>4. Eligible!Here(p) = Eligible!Here(q) /\ Eligible!Area(p) = Eligible!Area(q)
    BY <1>1, <1>2 DEF fields, Eligible!Here, Eligible!Area
  <1>5. Eligible!Applies(p) = Eligible!Applies(q)
    BY <1>1, <1>4 DEF fields, Eligible!Applies, Eligible!Gated
  <1>6. ASSUME NEW n \in DOMAIN q.entries
        PROVE  Eligible!Said(p, n) = Eligible!Said(q, n)
    <2> DEFINE e == q.entries[n]
               f == p.entries[n]
    <2>1. Eligible!ActualSays(p, f) = Eligible!ActualSays(q, e)
      BY <1>1, <1>2, <1>3 DEF fields, Eligible!ActualSays
    <2>2. Eligible!TypicalSays(p, f) = Eligible!TypicalSays(q, e)
      BY <1>2 DEF Eligible!TypicalSays
    <2>3. Eligible!FutureSays(p, f) = Eligible!FutureSays(q, e)
      BY <1>1, <1>2 DEF fields, Eligible!FutureSays
    <2> HIDE DEF e, f
    <2>4. Eligible!Temporal(p, f) = Eligible!Temporal(q, e)
      BY <1>1, <2>1, <2>2, <2>3 DEF fields, Eligible!Temporal
    <2> QED  BY <2>4 DEF Eligible!Said, e, f
  <1>7. \A status : Eligible!Saying(p, status) = Eligible!Saying(q, status)
    BY <1>5, <1>6, AppliesAreEntries DEF Eligible!Saying
  <1>8. Eligible!Candidates(p) = Eligible!Candidates(q)
    BY <1>5, <1>7 DEF Eligible!Candidates
  <1>9. Eligible!Best(p) = Eligible!Best(q)
    <2>1. CASE Eligible!Applies(q) = {}
      BY <1>5, <2>1 DEF Eligible!Best
    <2>2. CASE Eligible!Applies(q) # {}
      <3>1. Eligible!Candidates(q) # {} /\ Eligible!Candidates(q) \subseteq DOMAIN q.entries
        BY <2>2, AppliesAreEntries DEF Eligible!Candidates, Eligible!Saying
      <3>2. Eligible!Candidates(q) \subseteq Nat
        BY <3>1, EntriesAreTyped
      <3>3. Eligible!Min(Eligible!Candidates(q)) \in DOMAIN q.entries
        BY <3>1, <3>2, LeastOf
      <3> QED  BY <1>5, <1>6, <1>8, <2>2, <3>3 DEF Eligible!Best
    <2> QED  BY <2>1, <2>2
  <1>10. ASSUME NEW n \in DOMAIN q.entries
         PROVE  Eligible!Ages(p, p.entries[n]) = Eligible!Ages(q, q.entries[n])
    BY <1>2, <1>3 DEF Eligible!Ages
  <1>11. Eligible!TimeSensitive(p) = Eligible!TimeSensitive(q)
    <2>1. (\E n \in Eligible!Applies(p) : Eligible!Ages(p, p.entries[n]))
          <=> (\E n \in Eligible!Applies(q) : Eligible!Ages(q, q.entries[n]))
      BY <1>5, <1>10, AppliesAreEntries
    <2> QED  BY <1>1, <2>1 DEF fields, Eligible!TimeSensitive
  <1> QED  BY <1>5, <1>9, <1>11

\* Only a window of the future is ruled out for as long as the check is not due.
LEMMA UndoneIsFuture ==
    ASSUME NEW q, QuestionSound(q), Eligible!Best(q)[2]
    PROVE  q.kind = "future"
  <1>1. q.kind \in {"actual", "typical", "future"}
    BY DEF QuestionSound
  <1>2. CASE Eligible!Applies(q) = {}
    BY <1>2 DEF Eligible!Best, Eligible!Says
  <1>3. CASE Eligible!Applies(q) # {}
    <2>1. PICK n \in Eligible!Applies(q) : Eligible!Best(q) = Eligible!Said(q, n)
      BY <1>3, BestIsSaid, AppliesAreEntries
    <2> QED  BY <1>1, <2>1 DEF Eligible!Said, Eligible!Temporal, Eligible!ActualSays, Eligible!TypicalSays, Eligible!Says
  <1> QED  BY <1>2, <1>3

LEMMA OverdueWeakens ==
    ASSUME NEW q, QuestionSound(q)
    PROVE  LET now == Eligible!Assess(q)
               later == Eligible!Assess(Eligible!Overdue(q))
           IN  /\ later = "supported" => now = "supported"
               /\ later = "excluded" => now = "excluded"
               /\ now = "excluded" /\ later # "excluded" => q.kind = "future"
  <1> DEFINE p == Eligible!Overdue(q)
             barred == q.barred \/ ~q.fits \/ q.place = "outside"
  <1>1. /\ p.due /\ p.kind = q.kind /\ p.fits = q.fits /\ p.barred = q.barred /\ p.vague = q.vague
        /\ p.land = q.land /\ p.place = q.place
    BY OverdueFields
  <1>2. Eligible!Best(p) = Eligible!Best(q) /\ Eligible!TimeSensitive(p) = Eligible!TimeSensitive(q)
    BY OverdueSaysTheSame
  <1> HIDE DEF p
  <1>3. Eligible!Due(p)
    BY <1>1 DEF Eligible!Due
  <1>4. Eligible!Out(p) => Eligible!Out(q)
    BY <1>2, <1>3 DEF Eligible!Out, Eligible!Stands
  <1>5. Eligible!Out(q) /\ ~Eligible!Out(p) => q.kind = "future"
    <2> SUFFICES ASSUME Eligible!Out(q), ~Eligible!Out(p) PROVE q.kind = "future"
      OBVIOUS
    <2>1. Eligible!Best(q)[2]
      BY <1>2, <1>3 DEF Eligible!Out, Eligible!Stands
    <2> QED  BY <2>1, UndoneIsFuture
  <1>6. Eligible!Doubts(q) => Eligible!Doubts(p)
    BY <1>1, <1>2, <1>3 DEF Eligible!Doubts, Eligible!Unmapped
  <1>7. q.kind = "future" => Eligible!Doubts(p)
    BY <1>1, <1>3 DEF Eligible!Doubts, Eligible!TimeSensitive
  <1>8. Eligible!Assess(q) = IF barred \/ Eligible!Out(q) THEN "excluded" ELSE IF Eligible!Doubts(q) THEN "unknown" ELSE "supported"
    BY DEF Eligible!Assess
  <1>9. Eligible!Assess(p) = IF barred \/ Eligible!Out(p) THEN "excluded" ELSE IF Eligible!Doubts(p) THEN "unknown" ELSE "supported"
    BY <1>1 DEF Eligible!Assess
  <1> HIDE DEF barred
  <1>10. /\ Eligible!Assess(p) = "supported" => Eligible!Assess(q) = "supported"
         /\ Eligible!Assess(p) = "excluded" => Eligible!Assess(q) = "excluded"
         /\ Eligible!Assess(q) = "excluded" /\ Eligible!Assess(p) # "excluded" => q.kind = "future"
    BY <1>4, <1>5, <1>6, <1>7, <1>8, <1>9
  <1> QED  BY <1>10 DEF p

\* What was decided is what the catalog says of a question of the instance.
EligibleInv ==
    /\ subject = "eligible" => question \in Questions
    /\ decision # None => question \in Questions /\ decision = Eligible!Assess(question)

\* "Supported" rests on evidence for that point and time, and a check that falls due only weakens
\* what the catalog says: for any question, with any number of entries (_assess).
THEOREM SupportIsAlwaysEarned == AnswersSpec => []SupportIsEarned
  <1>1. AnswersInit => EligibleInv
    BY DEF AnswersInit, NoAnswer, NoQuestion, EligibleInv, Eligible!Init, EvidenceInit
  <1>2. EligibleInv /\ [AnswersNext]_all => EligibleInv'
    <2> SUFFICES ASSUME EligibleInv, [AnswersNext]_all PROVE EligibleInv'
      OBVIOUS
    <2>1. UNCHANGED subject /\ ((subject = "eligible" /\ Eligible!Next) \/ UNCHANGED eligibleVars)
      BY DEF AnswersNext, EvidenceNext, all, answerVars
    <2>2. CASE subject = "eligible" /\ Eligible!Next
      BY <2>1, <2>2 DEF Eligible!Next, Eligible!Evaluate, EligibleInv
    <2>3. CASE UNCHANGED eligibleVars
      BY <2>1, <2>3 DEF eligibleVars, EligibleInv
    <2> QED  BY <2>1, <2>2, <2>3
  <1>3. EligibleInv => SupportIsEarned
    <2> SUFFICES ASSUME EligibleInv, decision # None PROVE SupportIsEarned
      BY QuestionAssumption DEF QuestionAssumption, SupportIsEarned, Eligible!SupportedIsEvidenced, Eligible!DueOnlyWeakens
    <2>1. QuestionSound(question) /\ decision = Eligible!Assess(question) /\ Now \in Nat
      BY QuestionAssumption DEF QuestionAssumption, EligibleInv
    <2>2. Eligible!SupportedIsEvidenced
      BY <2>1, SupportedIsVouched DEF Eligible!SupportedIsEvidenced
    <2>3. Eligible!DueOnlyWeakens
      BY <2>1, OverdueWeakens DEF Eligible!DueOnlyWeakens
    <2> QED  BY <2>2, <2>3 DEF SupportIsEarned
  <1> QED  BY <1>1, <1>2, <1>3, PTL DEF AnswersSpec
-----------------------------------------------------------------------------
Versions == DOMAIN Objects

\* What a manifest pins is the whole table of one version, and it is stale or the last one seen.
ManifestSound(m) ==
    /\ m \in ManifestType /\ m.etag \in Versions
    /\ m.meta = Grid!TableOf(m.etag) /\ m.mask = Grid!Cells(m.meta) /\ Objects[m.etag].valid
    /\ ~m.stale => m.etag = seen
\* An acquisition has spent what was counted, within caps that were approved; past the stale mark
\* it is of the last version seen, and every part it has is of that version.
RunSound(r) ==
    /\ r \in AcquisitionType /\ r.etag \in Versions
    /\ r.caps.bytes <= Approved.bytes /\ r.caps.requests <= Approved.requests
    /\ r.bytes = paid.bytes /\ r.requests = paid.requests
    /\ r.phase # "known" => r.etag = seen /\ (manifest # None => manifest.stale)
    /\ r.phase = "known" => manifest # None
    /\ r.phase \in {"known", "header"} => r.table = <<>>
    /\ r.phase = "table" =>
          Len(r.table) <= Len(Objects[r.etag].spans) /\ \A k \in DOMAIN r.table : r.table[k] = Objects[r.etag].rows
    /\ r.phase \in {"mask", "manifest"} =>
          r.table = Grid!TableOf(r.etag) /\ Objects[r.etag].valid /\ meta = r.table
    /\ r.phase = "manifest" => gridMask = Grid!Cells(r.table)
GridInv ==
    /\ object \in Versions
    /\ paid \in [bytes : Nat, requests : Nat]
    /\ paid.bytes <= Approved.bytes /\ paid.requests <= Approved.requests
    /\ manifest # None => ManifestSound(manifest)
    /\ acquiring # None => RunSound(acquiring) /\ given # "given"
    /\ given = "given" /\ acquiring = None => Grid!Loads /\ meta = manifest.meta /\ ~manifest.stale
    /\ built # None => built.cells = Grid!Cells(Grid!TableOf(built.etag))

LEMMA HasFirst ==
    ASSUME NEW S, NEW s \in Seq(S), s # <<>>
    PROVE  1 \in DOMAIN s
  OBVIOUS

\* The assumptions on the grid, as far as most steps need them.
LEMMA GridConstants ==
    /\ None # "given" /\ None \notin AcquisitionType /\ None \notin ManifestType
    /\ Block \in Nat /\ Versions \subseteq Nat /\ 1 \in Versions
    /\ \A v \in Versions : Objects[v] \in VersionType
    /\ Caps \subseteq CapType /\ Approved \in CapType
    /\ Approved.bytes \in Nat /\ Approved.requests \in Nat /\ Approved.requests >= 1
  <1>1. /\ None # "given" /\ None \notin AcquisitionType /\ None \notin ManifestType
        /\ Objects \in Seq(VersionType) /\ Objects # <<>> /\ Block \in Nat
        /\ Caps \subseteq CapType /\ Approved \in CapType /\ Approved.requests > 0
    BY GridAssumption DEF GridAssumption
  <1>3. 1 \in Versions
    BY <1>1, HasFirst DEF Versions
  <1>4. Versions \subseteq Nat /\ \A v \in Versions : Objects[v] \in VersionType
    BY <1>1 DEF Versions
  <1>5. Approved.bytes \in Nat /\ Approved.requests \in Nat /\ Approved.requests >= 1
    BY <1>1 DEF CapType
  <1> QED  BY <1>1, <1>3, <1>4, <1>5

\* An acquisition is a record of its fields.
LEMMA RunFields ==
    ASSUME NEW r \in AcquisitionType
    PROVE  /\ r.phase \in Phases /\ r.etag \in Nat /\ r.caps \in CapType /\ r.bytes \in Nat
           /\ r.requests \in Nat /\ r.header \in Nat /\ r.table \in Seq(STRING)
           /\ r.caps.bytes \in Nat /\ r.caps.requests \in Nat
           /\ r # None
  <1>1. r.caps \in CapType
    BY DEF AcquisitionType
  <1> QED  BY <1>1, GridConstants DEF AcquisitionType, CapType

\* What a step changes of an acquisition, and what it leaves.
LEMMA PhaseMoves ==
    ASSUME NEW r \in AcquisitionType, NEW p \in Phases
    PROVE  LET q == [r EXCEPT !.phase = p]
           IN /\ q \in AcquisitionType /\ q.phase = p /\ q.etag = r.etag /\ q.caps = r.caps
              /\ q.bytes = r.bytes /\ q.requests = r.requests /\ q.header = r.header /\ q.table = r.table
  BY DEF AcquisitionType
\* A claim moves nothing of an acquisition but what it spent.
LEMMA ClaimsPay ==
    ASSUME acquiring \in AcquisitionType, NEW n \in Nat
    PROVE  LET q == Grid!Paid(n)
           IN /\ q \in AcquisitionType /\ q.phase = acquiring.phase /\ q.etag = acquiring.etag
              /\ q.caps = acquiring.caps /\ q.bytes = acquiring.bytes + n /\ q.requests = acquiring.requests + 1
              /\ q.header = acquiring.header /\ q.table = acquiring.table
  <1>1. acquiring.bytes + n \in Nat /\ acquiring.requests + 1 \in Nat
    BY DEF AcquisitionType
  <1>2. Grid!Paid(n) = [acquiring EXCEPT !.bytes = acquiring.bytes + n, !.requests = acquiring.requests + 1]
    BY DEF AcquisitionType, Grid!Paid
  <1> QED  BY <1>1, <1>2 DEF AcquisitionType
\* A block of the header moves nothing else.
LEMMA HeaderGrows ==
    ASSUME NEW r \in AcquisitionType
    PROVE  LET q == [r EXCEPT !.header = @ + 1]
           IN /\ q \in AcquisitionType /\ q.phase = r.phase /\ q.etag = r.etag /\ q.caps = r.caps
              /\ q.bytes = r.bytes /\ q.requests = r.requests /\ q.table = r.table
  BY DEF AcquisitionType
\* A span adds its rows and moves nothing else.
LEMMA TableGrows ==
    ASSUME NEW r \in AcquisitionType, NEW row \in STRING
    PROVE  LET q == [r EXCEPT !.table = Append(@, row)]
           IN /\ q \in AcquisitionType /\ q.phase = r.phase /\ q.etag = r.etag /\ q.caps = r.caps
              /\ q.bytes = r.bytes /\ q.requests = r.requests /\ q.table = Append(r.table, row)
  BY DEF AcquisitionType

LEMMA CellsAreTyped ==
    ASSUME NEW t \in Seq(STRING)
    PROVE  Grid!Cells(t) \subseteq Nat \X STRING
  BY DEF Grid!Cells

\* A version has typed rows, a table of which is a sequence.
LEMMA ObjectsAreTyped ==
    ASSUME NEW v \in Versions
    PROVE  /\ Objects[v] \in VersionType
           /\ Grid!Object(v) = Objects[v]
           /\ Objects[v].rows \in STRING /\ Objects[v].spans \in Seq(Nat)
           /\ Grid!TableOf(v) \in Seq(STRING)
           /\ DOMAIN Grid!TableOf(v) = 1..Len(Objects[v].spans)
           /\ \A k \in 1..Len(Objects[v].spans) : Grid!TableOf(v)[k] = Objects[v].rows
  <1>1. Objects[v] \in VersionType
    BY GridConstants
  <1>2. Grid!Object(v) = Objects[v]
    BY DEF Grid!Object
  <1>3. DOMAIN Objects[v].spans = 1..Len(Objects[v].spans) /\ Len(Objects[v].spans) \in Nat
    BY <1>1 DEF VersionType
  <1>4. Grid!TableOf(v) = [k \in 1..Len(Objects[v].spans) |-> Objects[v].rows]
    BY <1>2, <1>3 DEF Grid!TableOf
  <1>5. Objects[v].rows \in STRING /\ Objects[v].spans \in Seq(Nat)
    BY <1>1 DEF VersionType
  <1> QED  BY <1>1, <1>2, <1>3, <1>4, <1>5

\* Before any acquisition there is no manifest.
LEMMA GridInit == Grid!Init => GridInv
  <1> SUFFICES ASSUME Grid!Init PROVE GridInv
    OBVIOUS
  <1> QED  BY GridConstants DEF GridInv, Grid!Init

\* What a claim lets pass stays within the caps.
LEMMA ClaimsHold ==
    ASSUME GridInv, acquiring # None, NEW n \in Nat, Grid!Claims(n), Grid!Pay(n)
    PROVE  /\ paid' \in [bytes : Nat, requests : Nat]
           /\ paid'.bytes = acquiring.bytes + n /\ paid'.requests = acquiring.requests + 1
           /\ paid'.bytes <= Approved.bytes /\ paid'.requests <= Approved.requests
  <1>1. acquiring \in AcquisitionType
    BY DEF GridInv, RunSound
  <1> QED  BY <1>1, RunFields, GridConstants DEF GridInv, RunSound, Grid!Claims, Grid!Pay

\* An acquisition is let go only within what was approved.
LEMMA AskKeeps ==
    ASSUME GridInv, NEW caps \in Caps, Grid!Ask(caps)
    PROVE  GridInv'
  <1> USE DEF GridInv
  <1>1. /\ acquiring = None /\ caps.bytes <= Approved.bytes /\ caps.requests <= Approved.requests
        /\ Grid!Loads \/ manifest = None
        /\ UNCHANGED <<object, manifest, gridMask, meta, built, changes>>
        /\ seen' = IF acquiring' = None \/ manifest = None THEN object ELSE seen
        /\ paid' = [bytes |-> 0, requests |-> 1]
    BY DEF Grid!Ask, Grid!files
  <1>2. /\ paid' \in [bytes : Nat, requests : Nat] /\ paid'.bytes <= Approved.bytes /\ paid'.requests <= Approved.requests
        /\ object' \in Versions /\ (built' # None => built'.cells = Grid!Cells(Grid!TableOf(built'.etag)))
    BY <1>1, GridConstants
  <1>3. CASE Grid!Unchanged \/ Grid!SameTag
    <2>1. manifest # None /\ manifest.etag = object /\ acquiring' = None
          /\ (given' = "given" => ~manifest.stale /\ meta = manifest.meta)
      BY <1>3 DEF Grid!Unchanged, Grid!SameTag, Grid!Known, Grid!Checked
    <2>2. ManifestSound(manifest)'
      BY <1>1, <2>1 DEF ManifestSound
    <2>3. given' = "given" /\ acquiring' = None => (Grid!Loads /\ meta = manifest.meta /\ ~manifest.stale)'
      BY <1>1, <2>1 DEF Grid!Loads
    <2> QED  BY <1>2, <2>1, <2>2, <2>3
  <1>4. CASE Grid!NewTag(caps)
    <2>1. /\ acquiring' = [phase |-> IF manifest = None THEN "header" ELSE "known", etag |-> object, caps |-> caps,
                           bytes |-> 0, requests |-> 1, header |-> 0, table |-> <<>>]
          /\ given' = None
      BY <1>4 DEF Grid!NewTag
    <2>2. given' # "given"
      BY <2>1, GridConstants
    <2>3. acquiring' \in AcquisitionType /\ acquiring'.etag \in Versions /\ acquiring'.phase \in Phases
      BY <2>1, <1>1, GridConstants DEF AcquisitionType, Phases
    <2>4. CASE manifest = None
      <3>1. seen' = object /\ manifest' = None /\ acquiring'.phase = "header"
        BY <1>1, <2>1, <2>4
      <3>2. RunSound(acquiring)'
        BY <1>1, <2>1, <2>3, <3>1 DEF RunSound
      <3> QED  BY <1>2, <2>2, <3>1, <3>2
    <2>5. CASE manifest # None
      <3>1. acquiring'.phase = "known" /\ manifest' = manifest
        BY <1>1, <2>1, <2>5
      <3>2. RunSound(acquiring)'
        BY <1>1, <2>1, <2>3, <3>1 DEF RunSound
      <3>3. seen' = seen \/ (acquiring' = None)
        BY <1>1, <2>5
      <3>4. acquiring' # None
        BY <2>3, GridConstants
      <3>5. ManifestSound(manifest)'
        BY <1>1, <2>5, <3>3, <3>4 DEF ManifestSound
      <3> QED  BY <1>2, <2>2, <3>2, <3>5
    <2> QED  BY <2>4, <2>5
  <1> QED  BY <1>3, <1>4 DEF Grid!Ask

\* A step that leaves the files, the object and what was built alone, and ends the acquisition as failed.
LEMMA FailKeeps ==
    ASSUME GridInv, Grid!Fail, UNCHANGED <<object, manifest, gridMask, meta, built, seen>>,
           paid' \in [bytes : Nat, requests : Nat],
           paid'.bytes <= Approved.bytes, paid'.requests <= Approved.requests
    PROVE  GridInv'
  <1>1. acquiring' = None /\ given' = "failed"
    BY DEF Grid!Fail
  <1>2. manifest' # None => ManifestSound(manifest)'
    BY DEF GridInv, ManifestSound
  <1> QED  BY <1>1, <1>2 DEF GridInv

\* A step of an acquisition that leaves the files alone.
LEMMA AcquisitionKeeps ==
    ASSUME GridInv, acquiring # None, UNCHANGED <<object, manifest, gridMask, meta, built, seen, given>>,
           RunSound(acquiring)', acquiring' # None,
           paid' \in [bytes : Nat, requests : Nat],
           paid'.bytes <= Approved.bytes, paid'.requests <= Approved.requests
    PROVE  GridInv'
  <1>1. manifest' # None => ManifestSound(manifest)'
    BY DEF GridInv, ManifestSound
  <1> QED  BY <1>1 DEF GridInv

\* The manifest of an older version is stale before anything new is read.
LEMMA MarkStaleKeeps ==
    ASSUME GridInv, Grid!MarkStale
    PROVE  GridInv'
  <1>1. /\ acquiring # None /\ acquiring.phase = "known"
        /\ manifest' = [manifest EXCEPT !.stale = TRUE]
        /\ acquiring' = [acquiring EXCEPT !.phase = "header"]
        /\ seen' = acquiring.etag /\ UNCHANGED <<object, gridMask, meta, given, built, paid>>
    BY DEF Grid!MarkStale, Grid!At
  <1>2. RunSound(acquiring) /\ given # "given"
    BY <1>1 DEF GridInv
  <1>3. acquiring' \in AcquisitionType /\ acquiring'.etag = acquiring.etag /\ acquiring'.phase = "header" /\ acquiring'.table = acquiring.table
        /\ acquiring'.caps = acquiring.caps /\ acquiring'.bytes = acquiring.bytes /\ acquiring'.requests = acquiring.requests
    BY <1>1, <1>2, PhaseMoves DEF RunSound, Phases
  <1>4. CASE manifest # None
    <2>1. ManifestSound(manifest) /\ manifest \in ManifestType
      BY <1>4 DEF GridInv, ManifestSound
    <2>2. /\ manifest' \in ManifestType /\ manifest'.stale /\ manifest'.etag = manifest.etag
          /\ manifest'.meta = manifest.meta /\ manifest'.mask = manifest.mask
      BY <1>1, <2>1 DEF ManifestType
    <2>3. ManifestSound(manifest)'
      BY <2>1, <2>2 DEF ManifestSound
    <2>4. RunSound(acquiring)'
      BY <1>1, <1>2, <1>3, <2>2 DEF RunSound, Phases
    <2>5. acquiring' # None
      BY <1>3, GridConstants
    <2> QED  BY <1>1, <1>2, <2>3, <2>4, <2>5 DEF GridInv
  <1>5. CASE manifest = None
    <2> QED  BY <1>1, <1>2, <1>5 DEF RunSound
  <1> QED  BY <1>4, <1>5

\* The header is read of the version that was seen.
LEMMA ReadHeaderKeeps ==
    ASSUME GridInv, Grid!ReadHeader
    PROVE  GridInv'
  <1>1. /\ acquiring # None /\ acquiring.phase = "header"
        /\ UNCHANGED <<object, manifest, gridMask, meta, built, seen>>
    BY DEF Grid!ReadHeader, Grid!At, Grid!files, Grid!counted
  <1>2. RunSound(acquiring) /\ Block \in Nat
    BY <1>1, GridConstants DEF GridInv
  <1>3. CASE Grid!Fail /\ UNCHANGED paid
    BY <1>1, <1>3, FailKeeps DEF GridInv
  <1>4. CASE Grid!Claims(Block) /\ Grid!Pay(Block) /\ Grid!Fail
    BY <1>1, <1>2, <1>4, FailKeeps, ClaimsHold
  <1>5. CASE Grid!Claims(Block) /\ Grid!Pay(Block) /\ acquiring' = [Grid!Paid(Block) EXCEPT !.header = @ + 1] /\ UNCHANGED given
    <2>1. /\ acquiring' \in AcquisitionType /\ acquiring'.etag = acquiring.etag /\ acquiring'.phase = "header"
          /\ acquiring'.table = acquiring.table /\ acquiring'.caps = acquiring.caps
          /\ acquiring'.bytes = acquiring.bytes + Block /\ acquiring'.requests = acquiring.requests + 1
      BY <1>1, <1>2, <1>5, ClaimsPay, HeaderGrows DEF RunSound
    <2>2. paid' \in [bytes : Nat, requests : Nat] /\ paid'.bytes = acquiring'.bytes /\ paid'.requests = acquiring'.requests
          /\ paid'.bytes <= Approved.bytes /\ paid'.requests <= Approved.requests
      BY <1>1, <1>2, <1>5, <2>1, ClaimsHold
    <2>3. RunSound(acquiring)'
      BY <1>1, <1>2, <2>1, <2>2 DEF RunSound, Phases
    <2>4. acquiring' # None
      BY <2>1, GridConstants
    <2> QED  BY <1>1, <1>5, <2>2, <2>3, <2>4, AcquisitionKeeps
  <1> QED  BY <1>3, <1>4, <1>5 DEF Grid!ReadHeader

\* A layout that cannot be used ends the acquisition.
LEMMA LayoutKeeps ==
    ASSUME GridInv, Grid!Layout
    PROVE  GridInv'
  <1>1. /\ acquiring # None /\ acquiring.phase = "header"
        /\ UNCHANGED <<object, manifest, gridMask, meta, built, seen, paid>>
    BY DEF Grid!Layout, Grid!At, Grid!files, Grid!counted
  <1>2. RunSound(acquiring)
    BY <1>1 DEF GridInv
  <1>3. CASE Grid!Fail
    BY <1>1, <1>3, FailKeeps DEF GridInv
  <1>4. CASE acquiring' = [acquiring EXCEPT !.phase = "table"] /\ UNCHANGED given
    <2>1. /\ acquiring' \in AcquisitionType /\ acquiring'.etag = acquiring.etag /\ acquiring'.phase = "table"
          /\ acquiring'.table = <<>> /\ acquiring'.caps = acquiring.caps
          /\ acquiring'.bytes = acquiring.bytes /\ acquiring'.requests = acquiring.requests
      BY <1>1, <1>2, <1>4, PhaseMoves DEF RunSound, Phases
    <2>2. Len(Objects[acquiring.etag].spans) \in Nat
      BY <1>2, ObjectsAreTyped DEF RunSound
    <2>3. RunSound(acquiring)'
      BY <1>1, <1>2, <2>1, <2>2 DEF RunSound, Phases
    <2>4. acquiring' # None
      BY <2>1, GridConstants
    <2> QED  BY <1>1, <1>4, <2>3, <2>4, AcquisitionKeeps DEF GridInv
  <1> QED  BY <1>3, <1>4 DEF Grid!Layout

\* A span read under the same tag is of the same version.
LEMMA ReadSpanKeeps ==
    ASSUME GridInv, Grid!ReadSpan
    PROVE  GridInv'
  <1> DEFINE n == Objects[acquiring.etag].spans[Len(acquiring.table) + 1]
             e == acquiring.etag
  <1>1. /\ acquiring # None /\ acquiring.phase = "table"
        /\ UNCHANGED <<object, manifest, gridMask, meta, built, seen>>
    BY DEF Grid!ReadSpan, Grid!At, Grid!files, Grid!counted
  <1>2. RunSound(acquiring) /\ e \in Versions /\ acquiring.table \in Seq(STRING)
    BY <1>1 DEF GridInv, RunSound, AcquisitionType
  <1>3. /\ Len(acquiring.table) < Len(Objects[e].spans)
        /\ \/ ~Grid!Claims(n) /\ Grid!Fail /\ UNCHANGED paid
           \/ Grid!Claims(n) /\ Grid!Pay(n) /\ Grid!Fail
           \/ Grid!Claims(n) /\ Grid!SameVersion /\ Grid!Pay(n)
              /\ acquiring' = [Grid!Paid(n) EXCEPT !.table = Append(@, Grid!Object(object).rows)] /\ UNCHANGED given
    BY <1>2, ObjectsAreTyped DEF Grid!ReadSpan
  <1>4. n \in Nat
    <2>1. Objects[e].spans \in Seq(Nat) /\ Len(acquiring.table) \in Nat
      BY <1>2, ObjectsAreTyped
    <2>2. Len(acquiring.table) + 1 \in 1..Len(Objects[e].spans)
      <3>1. Len(Objects[e].spans) \in Nat
        BY <2>1
      <3>2. Len(acquiring.table) < Len(Objects[e].spans)
        BY <1>3
      <3> HIDE DEF e
      <3> QED  BY <2>1, <3>1, <3>2
    <2> QED  BY <2>1, <2>2
  <1>5. CASE Grid!Fail /\ UNCHANGED paid
    BY <1>1, <1>5, FailKeeps DEF GridInv
  <1>6. CASE Grid!Claims(n) /\ Grid!Pay(n) /\ Grid!Fail
    <2> HIDE DEF n
    <2> QED  BY <1>1, <1>4, <1>6, FailKeeps, ClaimsHold
  <1>7. CASE Grid!Claims(n) /\ Grid!SameVersion /\ Grid!Pay(n)
              /\ acquiring' = [Grid!Paid(n) EXCEPT !.table = Append(@, Grid!Object(object).rows)] /\ UNCHANGED given
    <2> HIDE DEF n
    <2>1. Grid!Object(object).rows = Objects[e].rows /\ Objects[e].rows \in STRING
      BY <1>2, <1>7, ObjectsAreTyped DEF Grid!SameVersion
    <2>2. /\ acquiring' \in AcquisitionType /\ acquiring'.etag = e /\ acquiring'.phase = "table"
          /\ acquiring'.table = Append(acquiring.table, Objects[e].rows) /\ acquiring'.caps = acquiring.caps
          /\ acquiring'.bytes = acquiring.bytes + n /\ acquiring'.requests = acquiring.requests + 1
      BY <1>1, <1>2, <1>4, <1>7, <2>1, ClaimsPay, TableGrows DEF RunSound
    <2>3. /\ paid' \in [bytes : Nat, requests : Nat] /\ paid'.bytes = acquiring'.bytes /\ paid'.requests = acquiring'.requests
          /\ paid'.bytes <= Approved.bytes /\ paid'.requests <= Approved.requests
      BY <1>1, <1>4, <1>7, <2>2, ClaimsHold
    <2>4. /\ Len(acquiring'.table) <= Len(Objects[e].spans)
          /\ \A k \in DOMAIN acquiring'.table : acquiring'.table[k] = Objects[e].rows
      <3>1. Len(acquiring'.table) = Len(acquiring.table) + 1 /\ DOMAIN acquiring'.table = 1..(Len(acquiring.table) + 1)
        BY <1>2, <2>1, <2>2
      <3>2. Len(Objects[e].spans) \in Nat
        BY <1>2, ObjectsAreTyped
      <3>3. ASSUME NEW k \in 1..(Len(acquiring.table) + 1) PROVE acquiring'.table[k] = Objects[e].rows
        BY <1>1, <1>2, <2>1, <2>2 DEF RunSound
      <3> QED  BY <1>2, <1>3, <3>1, <3>2, <3>3
    <2>5. RunSound(acquiring)'
      <3>1. Objects' = Objects /\ Approved' = Approved
        OBVIOUS
      <3> QED  BY <1>1, <1>2, <2>2, <2>3, <2>4 DEF RunSound, Phases
    <2>6. acquiring' # None
      BY <2>2, GridConstants
    <2> QED  BY <1>1, <1>7, <2>3, <2>5, <2>6, AcquisitionKeeps
  <1> QED  BY <1>3, <1>5, <1>6, <1>7

\* Only valid rows are written.
LEMMA PutMetaKeeps ==
    ASSUME GridInv, Grid!PutMeta
    PROVE  GridInv'
  <1>1. /\ acquiring # None /\ acquiring.phase = "table" /\ RunSound(acquiring) /\ acquiring.etag \in Versions
        /\ UNCHANGED <<object, manifest, gridMask, built, seen, paid>>
    BY DEF Grid!PutMeta, Grid!At, Grid!counted, GridInv, RunSound
  <1>2. Len(acquiring.table) = Len(Objects[acquiring.etag].spans)
    BY <1>1, ObjectsAreTyped DEF Grid!PutMeta
  <1>3. CASE Grid!Fail /\ UNCHANGED meta
    BY <1>1, <1>3, FailKeeps DEF GridInv
  <1>4. CASE Objects[acquiring.etag].valid /\ meta' = acquiring.table /\ acquiring' = [acquiring EXCEPT !.phase = "mask"] /\ UNCHANGED given
    <2>1. /\ acquiring' \in AcquisitionType /\ acquiring'.etag = acquiring.etag /\ acquiring'.phase = "mask"
          /\ acquiring'.table = acquiring.table /\ acquiring'.caps = acquiring.caps
          /\ acquiring'.bytes = acquiring.bytes /\ acquiring'.requests = acquiring.requests
      BY <1>1, <1>4, PhaseMoves DEF RunSound, Phases
    <2>2. acquiring.table = Grid!TableOf(acquiring.etag)
      <3>1. acquiring.table \in Seq(STRING) /\ DOMAIN acquiring.table = 1..Len(acquiring.table)
        BY <1>1 DEF RunSound, AcquisitionType
      <3>2. \A k \in DOMAIN acquiring.table : acquiring.table[k] = Objects[acquiring.etag].rows
        BY <1>1 DEF RunSound
      <3>3. /\ DOMAIN Grid!TableOf(acquiring.etag) = DOMAIN acquiring.table
            /\ \A k \in DOMAIN acquiring.table : acquiring.table[k] = Grid!TableOf(acquiring.etag)[k]
            /\ Grid!TableOf(acquiring.etag) \in Seq(STRING)
        BY <1>1, <1>2, <3>1, <3>2, ObjectsAreTyped
      <3> QED  BY <3>1, <3>3
    <2>3. RunSound(acquiring)'
      <3>1. Grid!TableOf(acquiring'.etag) = Grid!TableOf(acquiring.etag) /\ Grid!TableOf(acquiring.etag)' = Grid!TableOf(acquiring'.etag)
        BY <2>1 DEF Grid!TableOf, Grid!Object
      <3>2. Objects' = Objects /\ Approved' = Approved
        OBVIOUS
      <3> QED  BY <1>1, <1>4, <2>1, <2>2, <3>1 DEF RunSound, Phases
    <2>4. acquiring' # None
      BY <2>1, GridConstants
    <2>5. manifest' # None => ManifestSound(manifest)'
      BY <1>1 DEF GridInv, ManifestSound
    <2> QED  BY <1>1, <1>4, <2>3, <2>4, <2>5 DEF GridInv
  <1> QED  BY <1>1, <1>3, <1>4, ObjectsAreTyped DEF Grid!PutMeta

\* The mask is of the rows just written.
LEMMA PutMaskKeeps ==
    ASSUME GridInv, Grid!PutMask
    PROVE  GridInv'
  <1>1. /\ acquiring # None /\ acquiring.phase = "mask" /\ RunSound(acquiring)
        /\ gridMask' = Grid!Cells(acquiring.table) /\ acquiring' = [acquiring EXCEPT !.phase = "manifest"]
        /\ UNCHANGED <<object, manifest, meta, given, built, seen, paid>>
    BY DEF Grid!PutMask, Grid!At, Grid!counted, GridInv
  <1>2. /\ acquiring' \in AcquisitionType /\ acquiring'.etag = acquiring.etag /\ acquiring'.phase = "manifest"
        /\ acquiring'.table = acquiring.table /\ acquiring'.caps = acquiring.caps
        /\ acquiring'.bytes = acquiring.bytes /\ acquiring'.requests = acquiring.requests
    BY <1>1, PhaseMoves DEF RunSound, Phases
  <1>3. RunSound(acquiring)'
    BY <1>1, <1>2 DEF RunSound, Phases
  <1>4. acquiring' # None
    BY <1>2, GridConstants
  <1>5. manifest' # None => ManifestSound(manifest)'
    BY <1>1 DEF GridInv, ManifestSound
  <1> QED  BY <1>1, <1>3, <1>4, <1>5 DEF GridInv

\* The manifest pins the version all parts are of.
LEMMA PutManifestKeeps ==
    ASSUME GridInv, Grid!PutManifest
    PROVE  GridInv'
  <1> DEFINE m == [etag |-> acquiring.etag, meta |-> acquiring.table, mask |-> Grid!Cells(acquiring.table), stale |-> FALSE,
                   bytes |-> acquiring.bytes, requests |-> acquiring.requests]
  <1>1. /\ acquiring # None /\ acquiring.phase = "manifest" /\ RunSound(acquiring)
        /\ manifest' = m /\ acquiring' = None /\ given' = "given"
        /\ UNCHANGED <<object, gridMask, meta, built, seen, paid>>
    BY DEF Grid!PutManifest, Grid!At, Grid!counted, GridInv
  <1>2. m \in ManifestType
    BY <1>1, CellsAreTyped DEF RunSound, AcquisitionType, ManifestType
  <1>3. ManifestSound(manifest)'
    BY <1>1, <1>2 DEF RunSound, ManifestSound
  <1>4. manifest' # None
    BY <1>1, <1>2, GridConstants
  <1>5. (Grid!Loads /\ meta = manifest.meta /\ ~manifest.stale)'
    BY <1>1, <1>4 DEF RunSound, Grid!Loads
  <1> QED  BY <1>1, <1>3, <1>5 DEF GridInv

\* Builds read; deaths, damage and new versions only take away.
LEMMA OthersKeep ==
    ASSUME GridInv, Grid!Build \/ Grid!Die \/ Grid!Damage \/ \E v \in DOMAIN Objects : Grid!Replace(v)
    PROVE  GridInv'
  <1> USE DEF GridInv
  <1>1. CASE Grid!Build
    <2>1. /\ acquiring = None /\ Grid!Loads /\ built' = [etag |-> manifest.etag, cells |-> gridMask, stale |-> manifest.stale]
          /\ UNCHANGED <<object, manifest, gridMask, meta, acquiring, given, seen, paid>>
      BY <1>1 DEF Grid!Build, Grid!files, Grid!counted
    <2>2. ManifestSound(manifest) /\ gridMask = manifest.mask
      BY <2>1 DEF Grid!Loads
    <2>3. built'.cells = Grid!Cells(Grid!TableOf(built'.etag))
      BY <2>1, <2>2 DEF ManifestSound
    <2>4. ManifestSound(manifest)' /\ Grid!Loads'
      BY <2>1, <2>2 DEF ManifestSound, Grid!Loads
    <2> QED  BY <2>1, <2>3, <2>4
  <1>2. CASE Grid!Die
    <2>1. acquiring # None /\ acquiring' = None /\ UNCHANGED <<object, manifest, gridMask, meta, given, built, seen, paid>>
      BY <1>2 DEF Grid!Die, Grid!files, Grid!counted
    <2>2. manifest' # None => ManifestSound(manifest)'
      BY <2>1 DEF ManifestSound
    <2> QED  BY <2>1, <2>2
  <1>3. CASE Grid!Damage
    <2>1. acquiring = None /\ given' = None /\ UNCHANGED <<object, manifest, acquiring, built, seen, paid>>
      BY <1>3 DEF Grid!Damage
    <2>2. manifest' # None => ManifestSound(manifest)'
      BY <2>1 DEF ManifestSound
    <2>3. given' # "given"
      BY <2>1, GridConstants
    <2> QED  BY <2>1, <2>2, <2>3
  <1>4. CASE \E v \in DOMAIN Objects : Grid!Replace(v)
    <2>1. object' \in Versions /\ UNCHANGED <<manifest, gridMask, meta, acquiring, given, built, seen, paid>>
      BY <1>4 DEF Grid!Replace, Grid!files, Versions
    <2>2. manifest' # None => ManifestSound(manifest)'
      BY <2>1 DEF ManifestSound
    <2>3. acquiring' # None => RunSound(acquiring)'
      BY <2>1 DEF RunSound
    <2>4. given' = "given" /\ acquiring' = None => (Grid!Loads /\ meta = manifest.meta /\ ~manifest.stale)'
      BY <2>1 DEF Grid!Loads
    <2> QED  BY <2>1, <2>2, <2>3, <2>4
  <1> QED  BY <1>1, <1>2, <1>3, <1>4

\* Every step of an acquisition keeps the grid sound.
LEMMA GridStep == GridInv /\ Grid!Next => GridInv'
  BY AskKeeps, MarkStaleKeeps, ReadHeaderKeeps, LayoutKeeps, ReadSpanKeeps, PutMetaKeeps, PutMaskKeeps,
     PutManifestKeeps, OthersKeep DEF Grid!Next

\* A sound grid is one version, stale once a newer was seen, paid within approval.
LEMMA GridIsSound == GridInv => Grid!EvidenceHolds
  <1> SUFFICES ASSUME GridInv PROVE Grid!EvidenceHolds
    OBVIOUS
  <1>1. ASSUME Grid!Loads
        PROVE  /\ manifest \in ManifestType /\ ManifestSound(manifest) /\ gridMask = Grid!Cells(Grid!TableOf(manifest.etag))
               /\ Objects[manifest.etag].valid
    BY <1>1 DEF GridInv, Grid!Loads, ManifestSound
  <1>2. Grid!MaskIsOfOneVersion
    BY <1>1 DEF Grid!MaskIsOfOneVersion, ManifestSound, Grid!Object
  <1>3. Grid!GivenIsWhole
    BY DEF GridInv, Grid!GivenIsWhole
  <1>4. Grid!WithinApproval
    BY DEF GridInv, Grid!WithinApproval, RunSound, Grid!At
  <1>5. Grid!ViewIsCautious
    <2> DEFINE entries == [s \in {"s"} |-> [cells |-> gridMask, stale |-> manifest.stale]]
    <2>1. ASSUME Grid!Loads
          PROVE  Grid!Classify({"s", "t"}, entries).all = {} /\ Grid!Classify({"s", "t"}, entries).unknown
      <3>1. "t" \notin DOMAIN entries
        OBVIOUS
      <3>2. {s \in {"s", "t"} \cap DOMAIN entries : ~entries[s].stale} # {"s", "t"}
        BY <3>1
      <3> HIDE DEF entries
      <3> QED  BY <3>2 DEF Grid!Classify
    <2>2. ASSUME Grid!Loads, Grid!Classify({"s"}, entries).all # {}
          PROVE  Grid!Classify({"s"}, entries).all = Grid!Cells(Grid!TableOf(seen))
      <3> DEFINE fresh == {s \in {"s"} \cap DOMAIN entries : ~entries[s].stale}
      <3>1. fresh = {"s"}
        BY <2>2 DEF Grid!Classify
      <3>2. entries["s"].cells = gridMask /\ ~manifest.stale
        BY <3>1
      <3> HIDE DEF entries
      <3>3. Grid!Classify({"s"}, entries).all = gridMask
        BY <3>1, <3>2 DEF Grid!Classify
      <3> QED  BY <1>1, <2>2, <3>2, <3>3 DEF ManifestSound
    <2>3. built # None => built.cells = Grid!Cells(Grid!TableOf(built.etag))
      BY DEF GridInv
    <2> QED  BY <2>1, <2>2, <2>3 DEF Grid!ViewIsCautious
  <1> QED  BY <1>2, <1>3, <1>4, <1>5 DEF Grid!EvidenceHolds
-----------------------------------------------------------------------------
\* The least of two or three numbers.
LEMMA LeastOfThree ==
    ASSUME NEW a \in Int, NEW b \in Int, NEW c \in Int
    PROVE  /\ Ledger!Min({a, b, c}) \in {a, b, c} /\ Ledger!Min({a, b, c}) <= a
           /\ Ledger!Min({a, b, c}) <= b /\ Ledger!Min({a, b, c}) <= c
  <1>1. \E x \in {a, b, c} : \A y \in {a, b, c} : x <= y
    OBVIOUS
  <1>2. Ledger!Min({a, b, c}) \in {a, b, c} /\ \A y \in {a, b, c} : Ledger!Min({a, b, c}) <= y
    BY <1>1 DEF Ledger!Min
  <1> QED  BY <1>2

LEMMA SumsMove ==
    ASSUME NEW w \in Int, NEW o \in Int, NEW v \in Int, NEW c \in Int,
           NEW x \in Int, NEW p \in Int, NEW u \in Int,
           w + o <= c + v, x + p <= w + o + u - v
    PROVE  x + p <= c + u
  OBVIOUS

\* The largest of a finite set of numbers bounds them.
LEMMA LargestOf ==
    ASSUME NEW S, S \subseteq Nat, IsFiniteSet(S)
    PROVE  Ledger!Largest(S) \in Nat /\ \A x \in S : x <= Ledger!Largest(S)
  <1>1. CASE S = {}
    BY <1>1 DEF Ledger!Largest
  <1>2. CASE S # {}
    BY <1>2, GreatestOf DEF Ledger!Largest, Ledger!Max, Eligible!Max
  <1> QED  BY <1>1, <1>2

\* Cardinality counts the same in an instance.
LEMMA SameCount ==
    ASSUME NEW S
    PROVE  Ledger!Cardinality(S) = Cardinality(S)
  BY DEF Ledger!Cardinality, Cardinality

\* Images of finite sets are finite.
LEMMA ImageIsFinite ==
    ASSUME NEW S, IsFiniteSet(S), NEW f
    PROVE  IsFiniteSet({f[x] : x \in S})
  <1> DEFINE T == {f[x] : x \in S}
             g == [x \in S |-> f[x]]
  <1>1. g \in Surjection(S, T)
    BY DEF Surjection
  <1> HIDE DEF g, T
  <1>2. IsFiniteSet(T)
    BY <1>1, FS_Surjection
  <1> QED  BY <1>2 DEF T

\* More numbers have no smaller largest.
LEMMA LargestGrows ==
    ASSUME NEW S, NEW T, S \subseteq T, T \subseteq Nat, IsFiniteSet(T)
    PROVE  Ledger!Largest(S) <= Ledger!Largest(T)
  <1>1. IsFiniteSet(S) /\ S \subseteq Nat
    BY FS_Subset
  <1>2. CASE S = {}
    <2>1. Ledger!Largest(S) = 0
      BY <1>2 DEF Ledger!Largest
    <2>2. Ledger!Largest(T) \in Nat
      BY LargestOf
    <2> QED  BY <2>1, <2>2
  <1>3. CASE S # {}
    <2>1. Ledger!Largest(S) \in S
      BY <1>1, <1>3, GreatestOf DEF Ledger!Largest, Ledger!Max, Eligible!Max
    <2> QED  BY <2>1, LargestOf
  <1> QED  BY <1>2, <1>3
-----------------------------------------------------------------------------
LedgerType ==
    [records : SUBSET [id : Ledger!Ids, hops : Nat, charged : Int, outcome : Outcomes],
     attempts : [{"probe", "metadata"} -> Nat], charged : Int, archive : Int, blocked : SUBSET STRING]

\* A request under way is on record with just its hops, has read no more than was reserved, apart
\* from the chunk of an error body, and shares its original with no other.
FlightSound(f) ==
    /\ f \in FlightType /\ f.id \in Ledger!Ids
    /\ \A n \in Nat \ {0} : Ledger!Hopped(f.id, n) <=> n <= f.hops
    /\ f.step # "hop" => f.hops >= 1
    /\ f.step \in {"received", "kept"} =>
          f.read <= f.cap + (IF Ledger!R(f.id).errors /\ f.outcome = "http_error" THEN Chunk ELSE 0)
    /\ f.step = "kept" /\ f.outcome = "saved" => f.id \in bodies
    /\ f.step \in {"received", "kept"} => f.outcome \in Outcomes
    /\ Ledger!R(f.id).of # None => \A r \in ledger.records : r.id # f.id => Ledger!R(r.id).of # Ledger!R(f.id).of

\* Requests that are over and may have read a chunk too much.
Ended == {i \in Ledger!Attempted : Ledger!R(i).errors /\ (flight # None => flight.id # i)}
Over == Chunk * Cardinality(Ended)
\* What was reserved and not read, until the ledger has it back.
Owed ==
    IF flight = None \/ flight.step = "hop" THEN 0
    ELSE IF flight.step = "sent" THEN flight.cap ELSE flight.cap - flight.read

Totals == {Ledger!R(i).total : i \in Ledger!Attempted}
Ceilings(k) == {Ledger!R(i).ceiling : i \in {j \in Ledger!Attempted : Ledger!Kind(j) = k}}
Limits(g) == {Ledger!R(j).allowed : j \in {x \in Ledger!Attempted : Ledger!R(x).group = g}}

LedgerShape ==
    /\ batch \in Batches /\ ledger \in LedgerType
    /\ wire \in Int /\ sent \in [Ledger!Ids -> Nat] /\ losses \in Nat
    /\ flight # None => FlightSound(flight)
MoneyInv ==
    /\ wire + Owed <= ledger.charged + Over
    /\ ledger.charged <= Ledger!Largest(Totals) + Over
CountInv ==
    /\ \A k \in {"probe", "metadata"} : ledger.attempts[k] <= Ledger!Largest(Ceilings(k))
    /\ \A i \in Ledger!Attempted : Ledger!R(i).allowed # None =>
          Ledger!Attempts(Ledger!R(i).group) <= Ledger!Largest(Limits(Ledger!R(i).group))
OnceInv ==
    /\ \A i \in Ledger!Ids : sent[i] <= 1 /\ (i \notin Ledger!Attempted => sent[i] = 0)
    /\ \A i, j \in Ledger!Attempted : Ledger!R(i).of = Ledger!R(j).of /\ Ledger!R(i).of # None => i = j
SavedIn(records) == {r.id : r \in {x \in records : x.outcome = "saved"}}
WholeInv ==
    /\ losses = 0 => Ledger!Saved \subseteq bodies
    /\ analysis # None => analysis.saved = SavedIn(analysis.of.records)
    /\ imported # None => imported.saved = imported.of /\ imported.saved \subseteq imported.bodies
LedgerInv == LedgerShape /\ MoneyInv /\ CountInv /\ OnceInv /\ WholeInv

\* What is assumed of the approved batches.
LEMMA BatchFacts ==
    ASSUME batch \in Batches
    PROVE  /\ IsFiniteSet(Ledger!Ids) /\ Ledger!Ids \subseteq STRING
           /\ \A i \in Ledger!Ids : Ledger!R(i) \in ApprovalType /\ Ledger!Kind(i) \in {"probe", "metadata"}
           /\ \A i, j \in Ledger!Ids :
                 Ledger!R(i).group = Ledger!R(j).group /\ Ledger!R(i).allowed = None => Ledger!R(j).allowed = None
  BY LedgerAssumption DEF LedgerAssumption, BatchSound, Ledger!Ids, Ledger!R, Ledger!Kind

\* What was attempted is finite, and so is what is taken of it.
LEMMA AttemptedIsFinite ==
    ASSUME batch \in Batches
    PROVE  /\ Ledger!Attempted \subseteq Ledger!Ids /\ IsFiniteSet(Ledger!Attempted)
           /\ Totals \subseteq Nat /\ IsFiniteSet(Totals)
           /\ \A k : Ceilings(k) \subseteq Nat /\ IsFiniteSet(Ceilings(k))
           /\ \A g : IsFiniteSet(Limits(g))
           /\ IsFiniteSet(Ended)
  <1>1. Ledger!Attempted \subseteq Ledger!Ids /\ IsFiniteSet(Ledger!Attempted)
    BY BatchFacts, FS_Subset DEF Ledger!Attempted
  <1>2. Totals \subseteq Nat /\ IsFiniteSet(Totals)
    <2> DEFINE f == [i \in Ledger!Attempted |-> Ledger!R(i).total]
    <2>1. Totals = {f[i] : i \in Ledger!Attempted}
      BY DEF Totals
    <2> HIDE DEF f
    <2>2. IsFiniteSet(Totals)
      BY <1>1, <2>1, ImageIsFinite
    <2>3. Totals \subseteq Nat
      BY <1>1, BatchFacts DEF Totals, ApprovalType
    <2> QED  BY <2>2, <2>3
  <1>3. ASSUME NEW k PROVE Ceilings(k) \subseteq Nat /\ IsFiniteSet(Ceilings(k))
    <2> DEFINE D == {j \in Ledger!Attempted : Ledger!Kind(j) = k}
    <2>1. IsFiniteSet(D) /\ D \subseteq Ledger!Ids
      BY <1>1, FS_Subset
    <2> HIDE DEF D
    <2>2. IsFiniteSet({Ledger!R(i).ceiling : i \in D}) /\ {Ledger!R(i).ceiling : i \in D} \subseteq Nat
      <3> DEFINE f == [i \in D |-> Ledger!R(i).ceiling]
      <3>1. {Ledger!R(i).ceiling : i \in D} = {f[i] : i \in D}
        OBVIOUS
      <3> HIDE DEF f
      <3>2. IsFiniteSet({Ledger!R(i).ceiling : i \in D})
        BY <2>1, <3>1, ImageIsFinite
      <3> QED  BY <2>1, <3>2, BatchFacts DEF ApprovalType
    <2> QED  BY <2>2 DEF D, Ceilings
  <1>4. ASSUME NEW g PROVE IsFiniteSet(Limits(g))
    <2> DEFINE D == {x \in Ledger!Attempted : Ledger!R(x).group = g}
    <2>1. IsFiniteSet(D)
      BY <1>1, FS_Subset
    <2> HIDE DEF D
    <2>2. IsFiniteSet({Ledger!R(j).allowed : j \in D})
      <3> DEFINE f == [j \in D |-> Ledger!R(j).allowed]
      <3>1. {Ledger!R(j).allowed : j \in D} = {f[j] : j \in D}
        OBVIOUS
      <3> HIDE DEF f
      <3> QED  BY <2>1, <3>1, ImageIsFinite
    <2> QED  BY <2>2 DEF D, Limits
  <1>5. IsFiniteSet(Ended)
    BY <1>1, FS_Subset DEF Ended
  <1> QED  BY <1>1, <1>2, <1>3, <1>4, <1>5

\* The same of this state and of the next.
LEMMA FiniteNow ==
    batch \in Batches =>
        /\ Totals \subseteq Nat /\ IsFiniteSet(Totals)
        /\ \A k : Ceilings(k) \subseteq Nat /\ IsFiniteSet(Ceilings(k))
        /\ \A g : IsFiniteSet(Limits(g))
  BY AttemptedIsFinite
LEMMA FiniteNext ==
    batch' \in Batches =>
        /\ Totals' \subseteq Nat /\ IsFiniteSet(Totals')
        /\ \A k : Ceilings(k)' \subseteq Nat /\ IsFiniteSet(Ceilings(k)')
        /\ \A g : IsFiniteSet(Limits(g)')
  <1>1. (batch \in Batches =>
        /\ Totals \subseteq Nat /\ IsFiniteSet(Totals)
        /\ \A k : Ceilings(k) \subseteq Nat /\ IsFiniteSet(Ceilings(k))
        /\ \A g : IsFiniteSet(Limits(g)))'
    BY FiniteNow, PTL
  <1> QED  BY <1>1

\* In a limited group every limit is a number.
LEMMA LimitsAreNumbers ==
    ASSUME batch \in Batches, NEW i \in Ledger!Attempted, Ledger!R(i).allowed # None
    PROVE  Limits(Ledger!R(i).group) \subseteq Nat /\ Ledger!R(i).allowed \in Limits(Ledger!R(i).group)
  BY BatchFacts DEF Limits, ApprovalType, Ledger!Attempted
-----------------------------------------------------------------------------
\* What a save of one record does to the hops on record.
LEMMA PutHops ==
    ASSUME UNCHANGED batch, NEW i, NEW h \in Nat, NEW c, NEW o,
           ledger'.records = Ledger!Put(ledger.records, i, h, c, o)
    PROVE  \A j : \A n \in Nat : Ledger!Hopped(j, n)' <=> IF j = i THEN n <= h ELSE Ledger!Hopped(j, n)
  <1> TAKE j
  <1> TAKE n \in Nat
  <1> DEFINE new == [id |-> i, hops |-> h, charged |-> c, outcome |-> o]
  <1>1. ledger'.records = {r \in ledger.records : r.id # i} \cup {new}
    BY DEF Ledger!Put
  <1>2. Ledger!Hopped(j, n)' <=> \E r \in ledger'.records : r.id = j /\ n <= r.hops
    BY DEF Ledger!Hopped, Ledger!Record
  <1>3. Ledger!Hopped(j, n) <=> \E r \in ledger.records : r.id = j /\ n <= r.hops
    BY DEF Ledger!Hopped, Ledger!Record
  <1>4. new.id = i /\ new.hops = h
    OBVIOUS
  <1> HIDE DEF new
  <1>5. CASE j = i
    BY <1>1, <1>2, <1>4, <1>5
  <1>6. CASE j # i
    BY <1>1, <1>2, <1>3, <1>4, <1>6
  <1> QED  BY <1>5, <1>6

SameHops ==
    /\ UNCHANGED batch
    /\ \A j \in Ledger!Ids : \A n \in Nat \ {0} : Ledger!Hopped(j, n)' <=> Ledger!Hopped(j, n)

\* What is counted by hops stays as it is while they do.
LEMMA SameHopsSame ==
    ASSUME SameHops
    PROVE  /\ UNCHANGED <<Ledger!Ids, Ledger!Attempted, Totals>>
           /\ \A i : UNCHANGED <<Ledger!R(i), Ledger!Kind(i)>>
           /\ \A k : UNCHANGED <<Ceilings(k), Limits(k), Ledger!Attempts(k)>>
  <1>1. UNCHANGED Ledger!Ids /\ \A i : UNCHANGED <<Ledger!R(i), Ledger!Kind(i)>>
    BY DEF SameHops, Ledger!Ids, Ledger!R, Ledger!Kind
  <1>2. UNCHANGED Ledger!Attempted
    <2>1. \A j \in Ledger!Ids : Ledger!Hopped(j, 1)' <=> Ledger!Hopped(j, 1)
      BY DEF SameHops
    <2>2. Ledger!Attempted' = {i \in Ledger!Ids' : Ledger!Hopped(i, 1)'}
      BY DEF Ledger!Attempted
    <2> QED  BY <1>1, <2>1, <2>2 DEF Ledger!Attempted
  <1>3. UNCHANGED Totals
    BY <1>1, <1>2 DEF Totals
  <1>4. ASSUME NEW k PROVE UNCHANGED <<Ceilings(k), Limits(k)>>
    BY <1>1, <1>2 DEF Ceilings, Limits
  <1>5. ASSUME NEW k PROVE UNCHANGED Ledger!Attempts(k)
    <2> DEFINE S == {x \in Ledger!Ids \X (1..Hops) : Ledger!R(x[1]).group = k /\ Ledger!Hopped(x[1], x[2])}
               T == {x \in Ledger!Ids \X (1..Hops) : Ledger!R(x[1]).group = k /\ Ledger!Hopped(x[1], x[2])'}
    <2>1. ASSUME NEW x \in Ledger!Ids \X (1..Hops)
          PROVE  Ledger!Hopped(x[1], x[2])' <=> Ledger!Hopped(x[1], x[2])
      <3>1. x[1] \in Ledger!Ids /\ x[2] \in Nat \ {0}
        BY LedgerAssumption DEF LedgerAssumption
      <3> QED  BY <3>1 DEF SameHops
    <2>2. S = T
      BY <2>1
    <2>3. Ledger!Attempts(k) = Cardinality(S)
      BY SameCount DEF Ledger!Attempts
    <2>4. Ledger!Attempts(k)' = Cardinality(T)
      BY <1>1, SameCount DEF Ledger!Attempts
    <2> QED  BY <2>2, <2>3, <2>4
  <1> QED  BY <1>1, <1>2, <1>3, <1>4, <1>5

\* While no hop is added, the counts keep to their limits and nothing is started.
LEMMA QuietKeeps ==
    ASSUME LedgerInv, SameHops, ledger'.attempts = ledger.attempts, UNCHANGED sent
    PROVE  CountInv' /\ OnceInv'
  <1>1. /\ UNCHANGED <<Ledger!Ids, Ledger!Attempted, Totals>>
        /\ \A i : UNCHANGED <<Ledger!R(i), Ledger!Kind(i)>>
        /\ \A k : UNCHANGED <<Ceilings(k), Limits(k), Ledger!Attempts(k)>>
    BY SameHopsSame
  <1>2. CountInv'
    BY <1>1 DEF LedgerInv, CountInv, Ledger!Largest, Ledger!Max
  <1>3. OnceInv'
    BY <1>1 DEF LedgerInv, OnceInv
  <1> QED  BY <1>2, <1>3

\* What ends may come on top.
LEMMA OverMoves ==
    ASSUME LedgerInv, SameHops
    PROVE  /\ Over \in Nat /\ Over' \in Nat
           /\ flight # None /\ flight' # None /\ flight'.id = flight.id => Over' = Over
           /\ flight = None /\ flight' = None => Over' = Over
           /\ flight = None /\ flight' # None /\ flight'.id \notin Ledger!Attempted => Over' = Over
           /\ flight' = None => Over' >= Over
           /\ flight # None /\ flight' = None /\ flight.id \in Ledger!Attempted /\ Ledger!R(flight.id).errors
                 => Over' = Over + Chunk
  <1>1. batch \in Batches /\ batch' \in Batches /\ Chunk \in Nat
    BY LedgerAssumption DEF LedgerInv, LedgerShape, SameHops, LedgerAssumption
  <1>2. IsFiniteSet(Ended) /\ IsFiniteSet(Ledger!Attempted)
    BY <1>1, AttemptedIsFinite
  <1>3. /\ UNCHANGED Ledger!Attempted
        /\ \A i : UNCHANGED Ledger!R(i)
    BY SameHopsSame
  <1>4. Ended' = {i \in Ledger!Attempted : Ledger!R(i).errors /\ (flight' # None => flight'.id # i)}
    BY <1>3 DEF Ended
  <1>5. IsFiniteSet(Ended')
    BY <1>2, <1>4, FS_Subset
  <1> DEFINE c == Cardinality(Ended)
             d == Cardinality(Ended')
  <1>6. c \in Nat /\ d \in Nat
    BY <1>2, <1>5, FS_CardinalityType
  <1>7. Over = Chunk * c /\ Over' = Chunk * d
    BY DEF Over
  <1>8. Chunk * c \in Nat /\ Chunk * d \in Nat /\ (c <= d => Chunk * c <= Chunk * d) /\ (d = c + 1 => Chunk * d = Chunk * c + Chunk)
    <2> HIDE DEF c, d
    <2> QED  BY <1>1, <1>6
  <1>9. flight' = None => c <= d
    BY <1>4, <1>5, FS_Subset DEF Ended
  <1>10. flight # None /\ flight' = None /\ flight.id \in Ledger!Attempted /\ Ledger!R(flight.id).errors => d = c + 1
    <2> SUFFICES ASSUME flight # None, flight' = None, flight.id \in Ledger!Attempted, Ledger!R(flight.id).errors
                 PROVE  d = c + 1
      OBVIOUS
    <2>1. Ended' = Ended \cup {flight.id} /\ flight.id \notin Ended
      BY <1>4 DEF Ended
    <2> QED  BY <1>2, <2>1, FS_AddElement
  <1>11. /\ flight # None /\ flight' # None /\ flight'.id = flight.id => Ended' = Ended
         /\ flight = None /\ flight' = None => Ended' = Ended
         /\ flight = None /\ flight' # None /\ flight'.id \notin Ledger!Attempted => Ended' = Ended
    BY <1>4 DEF Ended
  <1> HIDE DEF c, d
  <1>12. Ended' = Ended => c = d
    BY DEF c, d
  <1> QED  BY <1>7, <1>8, <1>9, <1>10, <1>11, <1>12
-----------------------------------------------------------------------------
\* An allowance is a number, of what is left of the total at most.
LEMMA AllowanceIsInt ==
    ASSUME LedgerInv, NEW i \in Ledger!Ids
    PROVE  Ledger!Allowance(i) \in Int /\ Ledger!Allowance(i) <= Ledger!R(i).total - ledger.charged
  <1> DEFINE a == Ledger!R(i).limit
             b == Ledger!R(i).total - ledger.charged
             c == ArchiveLimit - ledger.archive
  <1>1. a \in Int /\ b \in Int /\ c \in Int
    BY BatchFacts, LedgerAssumption DEF LedgerAssumption, LedgerInv, LedgerShape, LedgerType, ApprovalType
  <1>2. Ledger!Allowance(i) = Ledger!Min({a, b} \cup (IF Ledger!R(i).archive THEN {c} ELSE {}))
    BY DEF Ledger!Allowance
  <1> HIDE DEF a, b, c
  <1>3. {a, b} \cup {c} = {a, b, c} /\ {a, b} \cup {} = {a, b, b}
    OBVIOUS
  <1>4. Ledger!Min({a, b, c}) \in Int /\ Ledger!Min({a, b, c}) <= b /\ Ledger!Min({a, b, b}) \in Int /\ Ledger!Min({a, b, b}) <= b
    BY <1>1, LeastOfThree
  <1>5. Ledger!Allowance(i) \in Int /\ Ledger!Allowance(i) <= b
    BY <1>2, <1>3, <1>4
  <1> QED  BY <1>5 DEF b

\* The last save of a request leaves the hops on record as they are.
LEMMA FinishShape ==
    ASSUME LedgerInv, UNCHANGED batch, NEW i \in Ledger!Ids, NEW h \in Nat, NEW c \in Int, NEW o \in Outcomes,
           \A n \in Nat \ {0} : Ledger!Hopped(i, n) <=> n <= h,
           ledger'.records = Ledger!Put(ledger.records, i, h, c, o)
    PROVE  /\ SameHops
           /\ ledger'.records \in SUBSET [id : Ledger!Ids, hops : Nat, charged : Int, outcome : Outcomes]
           /\ Ledger!Saved' \subseteq Ledger!Saved \cup (IF o = "saved" THEN {i} ELSE {})
  <1>1. SameHops
    <2>1. \A j : \A n \in Nat : Ledger!Hopped(j, n)' <=> IF j = i THEN n <= h ELSE Ledger!Hopped(j, n)
      BY PutHops
    <2> QED  BY <2>1 DEF SameHops
  <1> DEFINE new == [id |-> i, hops |-> h, charged |-> c, outcome |-> o]
  <1>2. ledger'.records = {r \in ledger.records : r.id # i} \cup {new}
    BY DEF Ledger!Put
  <1>3. ledger'.records \in SUBSET [id : Ledger!Ids, hops : Nat, charged : Int, outcome : Outcomes]
    BY <1>2 DEF LedgerInv, LedgerShape, LedgerType
  <1>4. Ledger!Saved' \subseteq Ledger!Saved \cup (IF o = "saved" THEN {i} ELSE {})
    BY <1>2 DEF Ledger!Saved
  <1> QED  BY <1>1, <1>3, <1>4

\* A ledger with other sums, blocks and records of their types is a ledger.
LEMMA LedgerMoves ==
    ASSUME NEW l \in LedgerType, NEW c \in Int, NEW a \in Int, NEW b \in SUBSET STRING,
           NEW r \in SUBSET [id : Ledger!Ids, hops : Nat, charged : Int, outcome : Outcomes]
    PROVE  [l EXCEPT !.charged = c, !.archive = a, !.blocked = b, !.records = r] \in LedgerType
  BY DEF LedgerType

\* A refused request has no hop on record.
LEMMA RefuseKeeps ==
    ASSUME LedgerInv, NEW i \in Ledger!Ids, Ledger!Refuse(i)
    PROVE  LedgerInv'
  <1> USE DEF LedgerInv
  <1>1. PICK o \in Ledger!Refusals(i) : Ledger!Finish(i, 0, 0, o)
    BY DEF Ledger!Refuse
  <1>2. /\ flight = None /\ Ledger!Record(i) = {} /\ o \in Outcomes /\ o # "saved"
        /\ UNCHANGED <<flight, batch, bodies, analysis, imported, losses, wire, sent, deaths>>
        /\ ledger' = [ledger EXCEPT !.records = Ledger!Put(@, i, 0, 0, o)]
    BY <1>1 DEF Ledger!Refuse, Ledger!Unknown, Ledger!reading, Ledger!Refusals, Ledger!Finish, Outcomes
  <1>3. \A n \in Nat \ {0} : Ledger!Hopped(i, n) <=> n <= 0
    BY <1>2 DEF Ledger!Hopped
  <1>4. ledger'.records = Ledger!Put(ledger.records, i, 0, 0, o) /\ ledger'.attempts = ledger.attempts /\ ledger'.charged = ledger.charged
        /\ ledger' = [ledger EXCEPT !.records = ledger'.records]
    BY <1>2 DEF LedgerShape, LedgerType
  <1>5. /\ SameHops
        /\ ledger'.records \in SUBSET [id : Ledger!Ids, hops : Nat, charged : Int, outcome : Outcomes]
        /\ Ledger!Saved' \subseteq Ledger!Saved
    BY <1>2, <1>3, <1>4, FinishShape
  <1>6. UNCHANGED <<Ledger!Ids, Totals>>
    BY <1>5, SameHopsSame
  <1>7. LedgerShape'
    BY <1>2, <1>4, <1>5, <1>6 DEF LedgerShape, LedgerType
  <1>8. CountInv' /\ OnceInv'
    BY <1>2, <1>4, <1>5, QuietKeeps
  <1>9. Over' = Over /\ Owed' = Owed
    BY <1>2, <1>5, OverMoves DEF Owed
  <1>10. MoneyInv'
    BY <1>2, <1>4, <1>6, <1>9 DEF MoneyInv, Ledger!Largest, Ledger!Max
  <1>11. WholeInv'
    BY <1>2, <1>5 DEF WholeInv, SavedIn
  <1> QED  BY <1>7, <1>8, <1>10, <1>11

\* A step that leaves the ledger alone, with the same request under way or none.
LEMMA SameLedgerKeeps ==
    ASSUME LedgerInv, UNCHANGED <<batch, ledger, sent>>, wire' \in Int, losses' \in Nat,
           flight' # None => FlightSound(flight)',
           wire' + Owed' <= wire + Owed + Over' - Over, Over' >= Over, WholeInv'
    PROVE  LedgerInv'
  <1> USE DEF LedgerInv
  <1>1. SameHops
    BY DEF SameHops, Ledger!Hopped, Ledger!Record
  <1>2. UNCHANGED <<Ledger!Ids, Totals>>
    BY <1>1, SameHopsSame
  <1>3. LedgerShape'
    BY <1>2 DEF LedgerShape, LedgerType
  <1>4. CountInv' /\ OnceInv'
    BY <1>1, QuietKeeps
  <1>5. Ledger!Largest(Totals) \in Nat /\ Ledger!Largest(Totals)' = Ledger!Largest(Totals)
    BY <1>2, AttemptedIsFinite, LargestOf DEF LedgerShape, Ledger!Largest, Ledger!Max
  <1>6. Over \in Nat /\ Over' \in Nat /\ ledger.charged \in Int /\ wire \in Int
    BY <1>1, OverMoves DEF LedgerShape, LedgerType
  <1>7. Owed \in Int /\ Owed' \in Int
    BY DEF Owed, LedgerShape, FlightSound, FlightType
  <1>8. MoneyInv'
    <2>1. /\ wire + Owed <= ledger.charged + Over /\ ledger.charged <= Ledger!Largest(Totals) + Over
          /\ ledger' = ledger /\ wire' \in Int /\ Over' >= Over
          /\ wire' + Owed' <= wire + Owed + Over' - Over
      BY DEF MoneyInv
    <2> HIDE DEF Owed, Over, Totals, LedgerInv
    <2>2. wire' + Owed' <= ledger.charged + Over'
      <3>1. wire + Owed <= ledger.charged + Over /\ wire' + Owed' <= wire + Owed + Over' - Over
        BY <2>1
      <3>2. wire \in Int /\ Owed \in Int /\ Over \in Int /\ ledger.charged \in Int /\ wire' \in Int /\ Owed' \in Int /\ Over' \in Int
        BY <1>6, <1>7, <2>1
      <3> DEFINE w == wire
                 o == Owed
                 v == Over
                 c == ledger.charged
                 x == wire'
                 p == Owed'
                 u == Over'
      <3>3. /\ w \in Int /\ o \in Int /\ v \in Int /\ c \in Int /\ x \in Int /\ p \in Int /\ u \in Int
            /\ w + o <= c + v /\ x + p <= w + o + u - v
        BY <3>1, <3>2
      <3> HIDE DEF w, o, v, c, x, p, u
      <3>4. x + p <= c + u
        BY <3>3, SumsMove
      <3> QED  BY <3>4 DEF x, p, c, u
    <2>3. ledger.charged <= Ledger!Largest(Totals)' + Over'
      BY <1>5, <1>6, <2>1
    <2> QED  BY <2>1, <2>2, <2>3 DEF MoneyInv
  <1> QED  BY <1>3, <1>4, <1>8

\* A request that begins has no hop on record, and shares its original with no other.
LEMMA BeginKeeps ==
    ASSUME LedgerInv, NEW i \in Ledger!Ids, Ledger!Begin(i)
    PROVE  LedgerInv'
  <1> USE DEF LedgerInv
  <1>1. /\ flight = None /\ Ledger!Record(i) = {} /\ Ledger!Refusals(i) = {}
        /\ flight' = [id |-> i, hops |-> 0, charged |-> 0, step |-> "hop", cap |-> Ledger!Allowance(i),
                      read |-> 0, outcome |-> None]
        /\ UNCHANGED <<ledger, batch, bodies, analysis, imported, losses, wire, sent, deaths>>
    BY DEF Ledger!Begin, Ledger!Unknown, Ledger!reading, Ledger!history
  <1>2. Ledger!Revisable(i) /\ ~(Ledger!Allowance(i) <= 0)
    BY <1>1 DEF Ledger!Refusals
  <1>3. Ledger!Allowance(i) \in Nat
    BY <1>2, AllowanceIsInt
  <1>4. SameHops
    BY <1>1 DEF SameHops, Ledger!Hopped, Ledger!Record
  <1>5. i \notin Ledger!Attempted
    BY <1>1 DEF Ledger!Attempted, Ledger!Hopped
  <1>6. flight' \in FlightType /\ flight'.id = i /\ flight'.hops = 0 /\ flight'.step = "hop"
    BY <1>1, <1>3, BatchFacts DEF FlightType, LedgerShape
  <1>7. FlightSound(flight)'
    <2>1. i \in Ledger!Ids'
      BY <1>1 DEF Ledger!Ids
    <2>2. \A n \in Nat \ {0} : Ledger!Hopped(i, n)' <=> n <= 0
      BY <1>1 DEF Ledger!Hopped, Ledger!Record
    <2>3. Ledger!R(i)' = Ledger!R(i) /\ \A r : Ledger!R(r)' = Ledger!R(r)
      BY <1>1 DEF Ledger!R
    <2>4. Ledger!R(i).of # None => \A r \in ledger.records : r.id # i => Ledger!R(r.id).of # Ledger!R(i).of
      BY <1>2 DEF Ledger!Revisable
    <2> QED  BY <1>1, <1>6, <2>1, <2>2, <2>3, <2>4 DEF FlightSound
  <1>8. flight' # None
    BY <1>6, LedgerAssumption DEF LedgerAssumption
  <1>9. Over' = Over /\ Over \in Nat
    BY <1>1, <1>4, <1>5, <1>6, <1>8, OverMoves
  <1>10. Owed' = 0 /\ Owed = 0
    BY <1>1, <1>6 DEF Owed
  <1>11. WholeInv'
    BY <1>1 DEF WholeInv, SavedIn, Ledger!Saved
  <1> QED  BY <1>1, <1>7, <1>9, <1>10, <1>11, SameLedgerKeeps DEF LedgerShape

\* What is known of the request under way.
LEMMA FlightFacts ==
    ASSUME LedgerInv, flight # None
    PROVE  /\ FlightSound(flight) /\ flight \in FlightType /\ flight.id \in Ledger!Ids
           /\ flight.hops \in Nat /\ flight.charged \in Int /\ flight.cap \in Nat /\ flight.read \in Nat
           /\ (flight.step # "hop" => flight.id \in Ledger!Attempted)
  <1>1. FlightSound(flight) /\ flight \in FlightType /\ flight.id \in Ledger!Ids
    BY DEF LedgerInv, LedgerShape, FlightSound
  <1>2. flight.hops \in Nat /\ flight.charged \in Int /\ flight.cap \in Nat /\ flight.read \in Nat
    BY <1>1 DEF FlightType
  <1>3. ASSUME flight.step # "hop" PROVE flight.id \in Ledger!Attempted
    <2>1. flight.hops >= 1 /\ (Ledger!Hopped(flight.id, 1) <=> 1 <= flight.hops)
      BY <1>1, <1>3 DEF FlightSound
    <2> QED  BY <1>1, <1>2, <2>1 DEF Ledger!Attempted
  <1> QED  BY <1>1, <1>2, <1>3

\* The request under way ends, and the ledger is left with what was reserved for it, or more.
LEMMA EndKeeps ==
    ASSUME LedgerInv, flight # None, flight' = None, UNCHANGED <<batch, sent>>,
           NEW c \in Int, NEW o \in Outcomes, NEW b \in Int,
           ledger'.records = Ledger!Put(ledger.records, flight.id, flight.hops, c, o),
           ledger' \in LedgerType \/ ledger' = [ledger EXCEPT !.records = ledger'.records],
           ledger'.attempts = ledger.attempts, ledger'.charged = ledger.charged + b,
           b <= 0 \/ (b <= Chunk /\ flight.step # "hop" /\ Ledger!R(flight.id).errors),
           wire' \in Int, wire' <= wire + Owed + b, losses' = losses,
           UNCHANGED <<bodies, analysis, imported>>, o = "saved" => flight.id \in bodies
    PROVE  LedgerInv'
  <1> USE DEF LedgerInv
  <1>1. FlightSound(flight) /\ flight.id \in Ledger!Ids /\ flight.hops \in Nat
        /\ (flight.step # "hop" => flight.id \in Ledger!Attempted)
    BY FlightFacts
  <1>2. /\ SameHops
        /\ ledger'.records \in SUBSET [id : Ledger!Ids, hops : Nat, charged : Int, outcome : Outcomes]
        /\ Ledger!Saved' \subseteq Ledger!Saved \cup (IF o = "saved" THEN {flight.id} ELSE {})
    BY <1>1, FinishShape DEF FlightSound
  <1>3. UNCHANGED <<Ledger!Ids, Totals>>
    BY <1>2, SameHopsSame
  <1>4. ledger' \in LedgerType
    BY <1>2, <1>3 DEF LedgerShape, LedgerType
  <1>5. LedgerShape'
    <2>1. sent' \in [Ledger!Ids' -> Nat] /\ losses' \in Nat /\ batch' \in Batches
      BY <1>3 DEF LedgerShape
    <2>2. ledger' \in LedgerType'
      BY <1>3, <1>4 DEF LedgerType
    <2> QED  BY <2>1, <2>2 DEF LedgerShape
  <1>6. CountInv' /\ OnceInv'
    BY <1>2, QuietKeeps
  <1>7. /\ Over \in Nat /\ Over' \in Nat /\ Over' >= Over
        /\ flight.id \in Ledger!Attempted /\ Ledger!R(flight.id).errors => Over' = Over + Chunk
    BY <1>2, OverMoves
  <1>8. Owed' = 0 /\ Owed \in Int
    BY FlightFacts DEF Owed
  <1>9. Ledger!Largest(Totals) \in Nat /\ Ledger!Largest(Totals)' = Ledger!Largest(Totals)
    BY <1>3, AttemptedIsFinite, LargestOf DEF LedgerShape, Ledger!Largest, Ledger!Max
  <1>10. ledger.charged \in Int /\ wire \in Int /\ Chunk \in Nat
    BY LedgerAssumption DEF LedgerShape, LedgerType, LedgerAssumption
  <1>11. b <= Over' - Over
    BY <1>1, <1>7, <1>10
  <1>12. MoneyInv'
    BY <1>7, <1>8, <1>9, <1>10, <1>11 DEF MoneyInv
  <1>13. WholeInv'
    BY <1>2 DEF WholeInv, SavedIn
  <1> QED  BY <1>5, <1>6, <1>12, <1>13

\* A request stopped before a hop has nothing reserved that it has not paid.
LEMMA StopKeeps ==
    ASSUME LedgerInv, Ledger!Stop
    PROVE  LedgerInv'
  <1>1. PICK o \in Ledger!HopRefusals(flight.id) : Ledger!Finish(flight.id, flight.hops, flight.charged, o)
    BY DEF Ledger!Stop
  <1>2. /\ flight # None /\ flight.step = "hop" /\ flight' = None /\ o \in Outcomes /\ o # "saved"
        /\ UNCHANGED <<batch, bodies, analysis, imported, losses, wire, sent, deaths>>
        /\ ledger' = [ledger EXCEPT !.records = Ledger!Put(@, flight.id, flight.hops, flight.charged, o)]
    BY <1>1 DEF Ledger!Stop, Ledger!At, Ledger!reading, Ledger!history, Ledger!HopRefusals, Ledger!Finish, Outcomes
  <1>3. /\ ledger'.records = Ledger!Put(ledger.records, flight.id, flight.hops, flight.charged, o)
        /\ ledger'.attempts = ledger.attempts /\ ledger'.charged = ledger.charged + 0
        /\ ledger' = [ledger EXCEPT !.records = ledger'.records]
    BY <1>2 DEF LedgerInv, LedgerShape, LedgerType
  <1>4. flight.charged \in Int /\ Owed = 0 /\ wire \in Int
    BY <1>2, FlightFacts DEF Owed, LedgerInv, LedgerShape
  <1> QED  BY <1>2, <1>3, <1>4, EndKeeps

\* A broken request keeps its reservation, which covers what was read.
LEMMA BreakKeeps ==
    ASSUME LedgerInv, Ledger!Break
    PROVE  LedgerInv'
  <1>1. PICK n \in 0..flight.cap : wire' = wire + n
    BY DEF Ledger!Break
  <1>2. /\ flight # None /\ flight.step = "sent" /\ flight' = None
        /\ UNCHANGED <<batch, bodies, analysis, imported, losses, sent, deaths>>
        /\ ledger' = [ledger EXCEPT !.records = Ledger!Put(@, flight.id, flight.hops, flight.charged, "transport_error")]
    BY DEF Ledger!Break, Ledger!At, Ledger!reading, Ledger!Finish
  <1>3. /\ ledger'.records = Ledger!Put(ledger.records, flight.id, flight.hops, flight.charged, "transport_error")
        /\ ledger'.attempts = ledger.attempts /\ ledger'.charged = ledger.charged + 0
        /\ ledger' = [ledger EXCEPT !.records = ledger'.records]
    BY <1>2 DEF LedgerInv, LedgerShape, LedgerType
  <1>4. flight.charged \in Int /\ flight.cap \in Nat /\ Owed = flight.cap /\ wire \in Int
    BY <1>2, FlightFacts DEF Owed, LedgerInv, LedgerShape
  <1>5. wire' \in Int /\ wire' <= wire + Owed + 0
    BY <1>1, <1>4
  <1>6. "transport_error" \in Outcomes /\ "transport_error" # "saved"
    BY DEF Outcomes
  <1> HIDE DEF Owed
  <1> QED  BY <1>2, <1>3, <1>4, <1>5, <1>6, EndKeeps

\* What is read is no longer owed.
LEMMA ReceiveKeeps ==
    ASSUME LedgerInv, Ledger!Receive
    PROVE  LedgerInv'
  <1>1. PICK a \in Ledger!Answers :
            /\ flight' = [flight EXCEPT !.outcome = a[1], !.read = a[2], !.step = "received"]
            /\ wire' = wire + a[2]
    BY DEF Ledger!Receive
  <1>2. /\ flight # None /\ flight.step = "sent"
        /\ UNCHANGED <<ledger, batch, bodies, analysis, imported, losses, sent, deaths>>
    BY DEF Ledger!Receive, Ledger!At, Ledger!reading
  <1>3. FlightSound(flight) /\ flight \in FlightType /\ flight.id \in Ledger!Ids /\ flight.cap \in Nat /\ Chunk \in Nat
    BY <1>2, FlightFacts, LedgerAssumption DEF LedgerAssumption
  <1>4. /\ a[1] \in Outcomes /\ a[2] \in Nat
        /\ a[2] <= flight.cap + (IF Ledger!R(flight.id).errors /\ a[1] = "http_error" THEN Chunk ELSE 0)
    BY <1>3 DEF Ledger!Answers, Outcomes
  <1>5. /\ flight' \in FlightType /\ flight'.id = flight.id /\ flight'.hops = flight.hops /\ flight'.cap = flight.cap
        /\ flight'.step = "received" /\ flight'.outcome = a[1] /\ flight'.read = a[2]
    BY <1>1, <1>3, <1>4 DEF FlightType
  <1>6. flight' # None
    BY <1>5, LedgerAssumption DEF LedgerAssumption
  <1>7. SameHops
    BY <1>2 DEF SameHops, Ledger!Hopped, Ledger!Record
  <1>8. FlightSound(flight)'
    <2>1. Ledger!Ids' = Ledger!Ids /\ \A r : Ledger!R(r)' = Ledger!R(r)
      BY <1>2 DEF Ledger!R, Ledger!Ids
    <2>2. \A i, n : Ledger!Hopped(i, n)' = Ledger!Hopped(i, n)
      BY <1>2 DEF Ledger!Hopped, Ledger!Record
    <2> QED  BY <1>2, <1>3, <1>4, <1>5, <2>1, <2>2 DEF FlightSound
  <1>9. Over' = Over /\ Over \in Nat
    BY <1>2, <1>5, <1>6, <1>7, OverMoves
  <1>10. wire \in Int /\ wire' \in Int /\ wire' + Owed' = wire + Owed
    BY <1>1, <1>2, <1>3, <1>4, <1>5, <1>6 DEF Owed, LedgerInv, LedgerShape
  <1>11. WholeInv' /\ losses' \in Nat
    BY <1>2 DEF WholeInv, SavedIn, Ledger!Saved, LedgerInv, LedgerShape
  <1>12. Owed \in Int /\ Owed' \in Int
    BY <1>2, <1>3, <1>4, <1>5, <1>6 DEF Owed
  <1>13. wire' + Owed' <= wire + Owed + Over' - Over /\ Over' >= Over
    <2> DEFINE w == wire
               o == Owed
               v == Over
               x == wire'
               p == Owed'
               u == Over'
    <2>1. w \in Int /\ o \in Int /\ v \in Int /\ x \in Int /\ p \in Int /\ u = v /\ x + p = w + o
      <3>1. Over \in Int
        BY <1>9
      <3>2. wire \in Int /\ wire' \in Int /\ wire' + Owed' = wire + Owed
        BY <1>10
      <3> QED  BY <1>9, <1>12, <3>1, <3>2, Zenon
    <2> HIDE DEF w, o, v, x, p, u
    <2>2. x + p <= w + o + u - v /\ u >= v
      BY <2>1
    <2> QED  BY <2>2 DEF w, o, v, x, p, u
  <1> QED  BY <1>2, <1>8, <1>10, <1>11, <1>13, SameLedgerKeeps

\* A body is whole before its record says "saved".
LEMMA KeepKeeps ==
    ASSUME LedgerInv, Ledger!Keep
    PROVE  LedgerInv'
  <1>1. /\ flight # None /\ flight.step = "received" /\ flight.outcome = "saved"
        /\ UNCHANGED <<batch, ledger, analysis, imported, losses, wire, sent, deaths>>
        /\ \/ bodies' = bodies \cup {flight.id} /\ flight' = [flight EXCEPT !.step = "kept"]
           \/ bodies' = bodies /\ flight' = [flight EXCEPT !.step = "kept", !.outcome = "transport_error"]
    BY DEF Ledger!Keep, Ledger!At, Ledger!history
  <1>2. FlightSound(flight) /\ flight \in FlightType /\ flight.id \in Ledger!Ids /\ flight.cap \in Nat /\ flight.read \in Nat
    BY <1>1, FlightFacts
  <1>3. /\ flight' \in FlightType /\ flight'.id = flight.id /\ flight'.hops = flight.hops /\ flight'.cap = flight.cap
        /\ flight'.step = "kept" /\ flight'.read = flight.read /\ flight'.outcome \in Outcomes
        /\ flight'.outcome # "http_error" /\ (flight'.outcome = "saved" => flight.id \in bodies')
    <2>1. "transport_error" \in Outcomes /\ "saved" \in Outcomes
      BY DEF Outcomes
    <2>2. CASE bodies' = bodies \cup {flight.id} /\ flight' = [flight EXCEPT !.step = "kept"]
      BY <1>1, <1>2, <2>1, <2>2 DEF FlightType
    <2>3. CASE flight' = [flight EXCEPT !.step = "kept", !.outcome = "transport_error"]
      BY <1>1, <1>2, <2>1, <2>3 DEF FlightType
    <2> QED  BY <1>1, <2>2, <2>3
  <1>4. flight' # None
    BY <1>3, LedgerAssumption DEF LedgerAssumption
  <1>5. SameHops
    BY <1>1 DEF SameHops, Ledger!Hopped, Ledger!Record
  <1>6. FlightSound(flight)'
    <2>1. Ledger!Ids' = Ledger!Ids /\ \A r : Ledger!R(r)' = Ledger!R(r)
      BY <1>1 DEF Ledger!R, Ledger!Ids
    <2>2. \A i, n : Ledger!Hopped(i, n)' = Ledger!Hopped(i, n)
      BY <1>1 DEF Ledger!Hopped, Ledger!Record
    <2> QED  BY <1>1, <1>2, <1>3, <2>1, <2>2 DEF FlightSound
  <1>7. Over' = Over /\ Over \in Nat
    BY <1>1, <1>3, <1>4, <1>5, OverMoves
  <1>8. Owed' = Owed /\ Owed \in Int /\ wire' = wire /\ wire \in Int
    BY <1>1, <1>2, <1>3, <1>4 DEF Owed, LedgerInv, LedgerShape
  <1>9. WholeInv' /\ losses' \in Nat
    BY <1>1 DEF WholeInv, SavedIn, Ledger!Saved, LedgerInv, LedgerShape
  <1>10. wire' + Owed' <= wire + Owed + Over' - Over /\ Over' >= Over
    BY <1>7, <1>8
  <1> QED  BY <1>1, <1>6, <1>8, <1>9, <1>10, SameLedgerKeeps

\* A settled hop gives back what was not read, or adds the chunk an error body took.
LEMMA SettleKeeps ==
    ASSUME LedgerInv, Ledger!Settle
    PROVE  LedgerInv'
  <1> USE DEF LedgerInv
  <1>0. PICK i : i = flight.id
    OBVIOUS
  <1> DEFINE b == flight.read - flight.cap
             goesOn == flight.outcome = "redirect" /\ flight.hops < Hops
             o == IF flight.outcome = "redirect" /\ ~goesOn THEN "redirect_limit" ELSE flight.outcome
  <1>1. /\ flight # None /\ flight.step \in {"received", "kept"} /\ (flight.step = "received" => flight.outcome # "saved")
        /\ ledger' = [ledger EXCEPT
                 !.charged = @ + b, !.archive = IF Ledger!R(i).archive THEN @ + b ELSE @,
                 !.blocked = IF o = "rate_limited" THEN @ \cup {Ledger!R(i).provider} ELSE @,
                 !.records = Ledger!Put(@, i, flight.hops, flight.charged + b, o)]
        /\ flight' = IF goesOn THEN [flight EXCEPT !.charged = @ + b, !.step = "hop", !.outcome = None] ELSE None
        /\ UNCHANGED <<batch, bodies, analysis, imported, losses, wire, sent, deaths>>
    BY <1>0 DEF Ledger!Settle, Ledger!IsSettled, Ledger!At, Ledger!reading, Ledger!history
  <1>2. /\ FlightSound(flight) /\ flight \in FlightType /\ i \in Ledger!Ids
        /\ flight.cap \in Nat /\ flight.read \in Nat /\ flight.hops \in Nat /\ flight.charged \in Int
        /\ Chunk \in Nat /\ wire \in Int /\ ledger.charged \in Int /\ ledger.archive \in Int
        /\ Ledger!R(i) \in ApprovalType
    BY <1>0, <1>1, FlightFacts, BatchFacts, LedgerAssumption DEF LedgerAssumption, LedgerShape, LedgerType
  <1>3. b \in Int /\ b <= (IF Ledger!R(i).errors /\ flight.outcome = "http_error" THEN Chunk ELSE 0) /\ Owed = 0 - b
    BY <1>0, <1>1, <1>2 DEF FlightSound, Owed
  <1>4. o \in Outcomes /\ (o = "saved" => i \in bodies)
    <2>1. "redirect_limit" \in Outcomes /\ flight.outcome \in Outcomes
      BY <1>1, <1>2 DEF Outcomes, FlightSound
    <2>2. flight.outcome = "saved" => i \in bodies
      BY <1>0, <1>1, <1>2 DEF FlightSound
    <2> QED  BY <2>1, <2>2
  <1> HIDE DEF b, o
  <1>5. /\ ledger'.records = Ledger!Put(ledger.records, i, flight.hops, flight.charged + b, o)
        /\ ledger'.attempts = ledger.attempts /\ ledger'.charged = ledger.charged + b
    BY <1>1 DEF LedgerShape, LedgerType
  <1>6. /\ SameHops
        /\ ledger'.records \in SUBSET [id : Ledger!Ids, hops : Nat, charged : Int, outcome : Outcomes]
        /\ Ledger!Saved' \subseteq Ledger!Saved \cup (IF o = "saved" THEN {i} ELSE {})
    <2>1. flight.charged + b \in Int
      BY <1>2, <1>3
    <2>2. \A n \in Nat \ {0} : Ledger!Hopped(i, n) <=> n <= flight.hops
      BY <1>0, <1>2 DEF FlightSound
    <2> QED  BY <1>1, <1>2, <1>4, <1>5, <2>1, <2>2, FinishShape
  <1>7. ledger' \in LedgerType
    <2>1. ledger' = [ledger EXCEPT
                 !.charged = @ + b, !.archive = IF Ledger!R(i).archive THEN @ + b ELSE @,
                 !.blocked = IF o = "rate_limited" THEN @ \cup {Ledger!R(i).provider} ELSE @,
                 !.records = ledger'.records]
      BY <1>1, <1>5
    <2>2. Ledger!R(i).provider \in STRING
      BY <1>2 DEF ApprovalType
    <2>3. /\ ledger.charged + b \in Int
          /\ (IF Ledger!R(i).archive THEN ledger.archive + b ELSE ledger.archive) \in Int
          /\ (IF o = "rate_limited" THEN ledger.blocked \cup {Ledger!R(i).provider} ELSE ledger.blocked) \in SUBSET STRING
      BY <1>2, <1>3, <2>2 DEF LedgerShape, LedgerType
    <2>4. ledger' = [ledger EXCEPT
                 !.charged = ledger.charged + b,
                 !.archive = IF Ledger!R(i).archive THEN ledger.archive + b ELSE ledger.archive,
                 !.blocked = IF o = "rate_limited" THEN ledger.blocked \cup {Ledger!R(i).provider} ELSE ledger.blocked,
                 !.records = ledger'.records]
      BY <2>1 DEF LedgerShape, LedgerType
    <2>5. ledger \in LedgerType
      BY DEF LedgerShape
    <2> DEFINE c1 == ledger.charged + b
               a1 == IF Ledger!R(i).archive THEN ledger.archive + b ELSE ledger.archive
               b1 == IF o = "rate_limited" THEN ledger.blocked \cup {Ledger!R(i).provider} ELSE ledger.blocked
    <2>6. PICK l, r : l = ledger /\ r = ledger'.records
      OBVIOUS
    <2>7. /\ ledger' = [l EXCEPT !.charged = c1, !.archive = a1, !.blocked = b1, !.records = r]
          /\ c1 \in Int /\ a1 \in Int /\ b1 \in SUBSET STRING /\ l \in LedgerType
          /\ r \in SUBSET [id : Ledger!Ids, hops : Nat, charged : Int, outcome : Outcomes]
      BY <1>6, <2>3, <2>4, <2>5, <2>6
    <2> HIDE DEF c1, a1, b1
    <2> QED  BY <2>7, LedgerMoves
  <1>8. CASE ~goesOn
    <2>1. flight' = None
      BY <1>1, <1>8
    <2>2. flight.charged + b \in Int
      BY <1>2, <1>3
    <2>3. b <= 0 \/ (b <= Chunk /\ flight.step # "hop" /\ Ledger!R(flight.id).errors)
      BY <1>0, <1>1, <1>2, <1>3
    <2>4. wire' \in Int /\ wire' <= wire + Owed + b
      BY <1>1, <1>2, <1>3
    <2> HIDE DEF goesOn
    <2> QED  BY <1>0, <1>1, <1>3, <1>4, <1>5, <1>7, <2>1, <2>2, <2>3, <2>4, EndKeeps
  <1>9. CASE goesOn
    <2>1. flight.outcome = "redirect" /\ flight' = [flight EXCEPT !.charged = @ + b, !.step = "hop", !.outcome = None]
      BY <1>1, <1>9
    <2>2. /\ flight' \in FlightType /\ flight'.id = i /\ flight'.hops = flight.hops /\ flight'.step = "hop"
      <3>1. flight.charged + b \in Int
        BY <1>2, <1>3
      <3>2. flight' = [flight EXCEPT !.charged = flight.charged + b, !.step = "hop", !.outcome = None]
        BY <1>2, <2>1 DEF FlightType
      <3> QED  BY <1>0, <1>2, <3>1, <3>2 DEF FlightType
    <2>3. flight' # None
      BY <2>2, LedgerAssumption DEF LedgerAssumption
    <2>4. Over' = Over /\ Over \in Nat
      BY <1>0, <1>1, <1>6, <2>2, <2>3, OverMoves
    <2>5. UNCHANGED <<Ledger!Ids, Totals>> /\ \A r : Ledger!R(r)' = Ledger!R(r)
      BY <1>6, SameHopsSame
    <2>6. FlightSound(flight)'
      <3>1. \A n \in Nat \ {0} : Ledger!Hopped(i, n)' <=> n <= flight.hops
        BY <1>0, <1>2, <1>6 DEF FlightSound, SameHops
      <3>2. \A r \in ledger'.records : r.id # i => r \in ledger.records
        BY <1>5 DEF Ledger!Put
      <3>3. i \in Ledger!Ids' /\ (Ledger!R(i)'.of # None =>
                \A r \in ledger'.records : r.id # i => Ledger!R(r.id)'.of # Ledger!R(i)'.of)
        <4>1. Ledger!R(i)' = Ledger!R(i)
          BY <2>5
        <4>2. Ledger!R(i).of # None => \A r \in ledger.records : r.id # i => Ledger!R(r.id).of # Ledger!R(i).of
          BY <1>0, <1>2 DEF FlightSound
        <4> QED  BY <1>2, <2>5, <3>2, <4>1, <4>2
      <3> QED  BY <2>2, <3>1, <3>3 DEF FlightSound
    <2>7. LedgerShape'
      <3>1. ledger' \in LedgerType'
        BY <1>7, <2>5 DEF LedgerType
      <3> QED  BY <1>1, <2>5, <2>6, <3>1 DEF LedgerShape
    <2>8. CountInv' /\ OnceInv'
      BY <1>1, <1>5, <1>6, QuietKeeps
    <2>9. Owed' = 0
      BY <2>2 DEF Owed
    <2>10. Ledger!Largest(Totals) \in Nat /\ Ledger!Largest(Totals)' = Ledger!Largest(Totals)
      BY <2>5, AttemptedIsFinite, LargestOf DEF LedgerShape, Ledger!Largest, Ledger!Max
    <2>11. b <= 0
      BY <1>3, <2>1
    <2>12. MoneyInv'
      BY <1>1, <1>2, <1>3, <1>5, <2>4, <2>9, <2>10, <2>11 DEF MoneyInv
    <2>13. WholeInv'
      BY <1>1, <1>4, <1>6 DEF WholeInv, SavedIn
    <2> QED  BY <2>7, <2>8, <2>12, <2>13
  <1> QED  BY <1>8, <1>9

\* A death leaves the reservation in the ledger; an import uses what its analysis saw.
LEMMA RestKeeps ==
    ASSUME LedgerInv, Ledger!Die \/ Ledger!Analyse \/ Ledger!Import \/ \E i \in Ledger!Ids : Ledger!Lose(i)
    PROVE  LedgerInv'
  <1>1. /\ UNCHANGED <<batch, ledger, sent>>
        /\ flight' = flight \/ flight' = None
        /\ bodies' = bodies \/ (bodies' \subseteq bodies /\ flight = None)
    BY DEF Ledger!Die, Ledger!Analyse, Ledger!Import, Ledger!Lose, Ledger!reading, Ledger!history
  <1>2. SameHops
    BY <1>1 DEF SameHops, Ledger!Hopped, Ledger!Record
  <1>3. flight' # None => FlightSound(flight)'
    <2> SUFFICES ASSUME flight' # None PROVE FlightSound(flight)'
      OBVIOUS
    <2>1. flight' = flight /\ FlightSound(flight) /\ bodies' = bodies
      BY <1>1 DEF LedgerInv, LedgerShape
    <2>2. Ledger!Ids' = Ledger!Ids /\ \A r : Ledger!R(r)' = Ledger!R(r)
      BY <1>1 DEF Ledger!R, Ledger!Ids
    <2>3. \A i, n : Ledger!Hopped(i, n)' = Ledger!Hopped(i, n)
      BY <1>1 DEF Ledger!Hopped, Ledger!Record
    <2> QED  BY <1>1, <2>1, <2>2, <2>3 DEF FlightSound
  <1>4. /\ Over \in Nat /\ Over' \in Nat /\ Over' >= Over
        /\ flight # None /\ flight' = None /\ flight.id \in Ledger!Attempted /\ Ledger!R(flight.id).errors => Over' = Over + Chunk
    BY <1>1, <1>2, OverMoves
  <1>5. wire \in Int /\ losses \in Nat /\ Chunk \in Nat
    BY LedgerAssumption DEF LedgerInv, LedgerShape, LedgerAssumption
  <1>6. CASE Ledger!Die
    <2>1. /\ flight # None /\ flight' = None /\ UNCHANGED <<bodies, analysis, imported, losses>>
          /\ \E n \in 0..(IF flight.step = "sent" THEN flight.cap ELSE 0) : wire' = wire + n
      BY <1>6 DEF Ledger!Die, Ledger!At, Ledger!reading
    <2>2. PICK n \in 0..(IF flight.step = "sent" THEN flight.cap ELSE 0) : wire' = wire + n
      BY <2>1
    <2>3. FlightSound(flight) /\ flight.cap \in Nat /\ flight.read \in Nat /\ (flight.step # "hop" => flight.id \in Ledger!Attempted)
      BY <2>1, FlightFacts
    <2>4. n \in Nat /\ (flight.step # "sent" => n = 0) /\ n <= flight.cap
      BY <2>3
    <2>5. n <= Owed + Over' - Over
      <3>1. CASE flight.step \in {"hop", "sent"}
        BY <1>4, <2>1, <2>3, <2>4, <3>1 DEF Owed
      <3>2. CASE flight.step \in {"received", "kept"}
        <4>1. Owed = flight.cap - flight.read /\ n = 0
          BY <2>1, <2>4, <3>2 DEF Owed
        <4>2. flight.read <= flight.cap + (IF Ledger!R(flight.id).errors /\ flight.outcome = "http_error" THEN Chunk ELSE 0)
          BY <2>3, <3>2 DEF FlightSound
        <4>3. CASE Ledger!R(flight.id).errors
          <5>1. Over' = Over + Chunk
            BY <1>4, <2>1, <2>3, <3>2, <4>3
          <5> QED  BY <1>4, <1>5, <2>3, <4>1, <4>2, <5>1
        <4>4. CASE ~Ledger!R(flight.id).errors
          BY <1>4, <2>3, <4>1, <4>2, <4>4
        <4> QED  BY <4>3, <4>4
      <3>3. flight.step \in {"hop", "sent", "received", "kept"}
        BY <2>3 DEF FlightSound, FlightType
      <3> QED  BY <3>1, <3>2, <3>3
    <2>6. Owed' = 0 /\ Owed \in Int
      BY <2>1, <2>3 DEF Owed
    <2>7. WholeInv'
      BY <1>1, <2>1 DEF LedgerInv, WholeInv, SavedIn, Ledger!Saved
    <2>8. wire' + Owed' <= wire + Owed + Over' - Over /\ wire' \in Int
      <3> DEFINE w == wire
                 o == Owed
                 v == Over
                 x == wire'
                 p == Owed'
                 u == Over'
      <3>1. w \in Int /\ o \in Int /\ v \in Int /\ u \in Int /\ n \in Nat /\ p = 0 /\ x = w + n /\ n <= o + u - v
        <4>1. Over \in Int /\ Over' \in Int
          BY <1>4
        <4>2. wire \in Int /\ n \in Nat /\ wire' = wire + n /\ n <= Owed + Over' - Over /\ Owed' = 0 /\ Owed \in Int
          BY <1>5, <2>2, <2>4, <2>5, <2>6
        <4> QED  BY <4>1, <4>2, Zenon
      <3> HIDE DEF w, o, v, x, p, u
      <3>2. x + p <= w + o + u - v /\ x \in Int
        BY <3>1
      <3> QED  BY <3>2 DEF w, o, v, x, p, u
    <2> HIDE DEF WholeInv
    <2> QED  BY <1>1, <1>3, <1>4, <1>5, <2>1, <2>7, <2>8, SameLedgerKeeps
  <1>7. CASE Ledger!Analyse \/ Ledger!Import \/ \E i \in Ledger!Ids : Ledger!Lose(i)
    <2>1. flight' = flight /\ flight = None /\ wire' = wire /\ losses' \in Nat
      BY <1>5, <1>7 DEF Ledger!Analyse, Ledger!Import, Ledger!Lose, Ledger!history
    <2>2. Owed' = Owed /\ Owed \in Int /\ Over' = Over
      BY <1>1, <1>2, <2>1, OverMoves DEF Owed
    <2>3. wire' + Owed' <= wire + Owed + Over' - Over
      BY <1>4, <1>5, <2>1, <2>2
    <2>4. WholeInv'
      <3>1. CASE Ledger!Analyse
        BY <1>1, <3>1 DEF Ledger!Analyse, Ledger!history, LedgerInv, WholeInv, SavedIn, Ledger!Saved
      <3>2. CASE Ledger!Import
        BY <1>1, <3>2 DEF Ledger!Import, Ledger!Fits, Ledger!history, LedgerInv, WholeInv, SavedIn, Ledger!Saved
      <3>3. CASE \E i \in Ledger!Ids : Ledger!Lose(i)
        <4>1. losses' = losses + 1 /\ UNCHANGED <<analysis, imported>>
          BY <3>3 DEF Ledger!Lose
        <4>2. losses' # 0
          BY <1>5, <4>1
        <4> QED  BY <4>1, <4>2 DEF LedgerInv, WholeInv, SavedIn
      <3> QED  BY <1>7, <3>1, <3>2, <3>3
    <2> QED  BY <1>1, <1>3, <1>4, <1>5, <2>1, <2>3, <2>4, SameLedgerKeeps
  <1> QED  BY <1>6, <1>7

\* One more hop of request i is on record.
HopAdded(i, h) ==
    /\ UNCHANGED batch /\ i \in Ledger!Ids /\ h \in Nat
    /\ \A j \in Ledger!Ids : \A n \in Nat \ {0} :
          Ledger!Hopped(j, n)' <=> (Ledger!Hopped(j, n) \/ (j = i /\ n = h + 1))

\* A hop more on record is one more attempt of its group, and of no other.
LEMMA HopAddedGrows ==
    ASSUME batch \in Batches, NEW i, NEW h, HopAdded(i, h)
    PROVE  /\ \A r : UNCHANGED <<Ledger!R(r), Ledger!Kind(r)>>
           /\ UNCHANGED Ledger!Ids
           /\ Ledger!Attempted \subseteq Ledger!Attempted' /\ Ledger!Attempted' \subseteq Ledger!Attempted \cup {i}
           /\ \A g : /\ Ledger!Attempts(g) \in Nat /\ Ledger!Attempts(g)' \in Nat /\ Ledger!Attempts(g)' <= Ledger!Attempts(g) + 1
                     /\ g # Ledger!R(i).group => Ledger!Attempts(g)' = Ledger!Attempts(g)
  <1>1. UNCHANGED Ledger!Ids /\ \A r : UNCHANGED <<Ledger!R(r), Ledger!Kind(r)>>
    BY DEF HopAdded, Ledger!Ids, Ledger!R, Ledger!Kind
  <1>2. Ledger!Attempted \subseteq Ledger!Attempted' /\ Ledger!Attempted' \subseteq Ledger!Attempted \cup {i}
    <2>1. Ledger!Attempted' = {j \in Ledger!Ids : Ledger!Hopped(j, 1)'}
      BY <1>1 DEF Ledger!Attempted
    <2>2. \A j \in Ledger!Ids : Ledger!Hopped(j, 1)' <=> (Ledger!Hopped(j, 1) \/ (j = i /\ 1 = h + 1))
      BY DEF HopAdded
    <2> QED  BY <2>1, <2>2 DEF Ledger!Attempted
  <1>3. ASSUME NEW g
        PROVE  /\ Ledger!Attempts(g) \in Nat /\ Ledger!Attempts(g)' \in Nat /\ Ledger!Attempts(g)' <= Ledger!Attempts(g) + 1
               /\ g # Ledger!R(i).group => Ledger!Attempts(g)' = Ledger!Attempts(g)
    <2> DEFINE S == {x \in Ledger!Ids \X (1..Hops) : Ledger!R(x[1]).group = g /\ Ledger!Hopped(x[1], x[2])}
               T == {x \in Ledger!Ids \X (1..Hops) : Ledger!R(x[1]).group = g /\ Ledger!Hopped(x[1], x[2])'}
               e == <<i, h + 1>>
    <2>1. ASSUME NEW x \in Ledger!Ids \X (1..Hops)
          PROVE  Ledger!Hopped(x[1], x[2])' <=> (Ledger!Hopped(x[1], x[2]) \/ (x[1] = i /\ x[2] = h + 1))
      <3>1. x[1] \in Ledger!Ids /\ x[2] \in Nat \ {0}
        BY LedgerAssumption DEF LedgerAssumption
      <3> QED  BY <3>1 DEF HopAdded
    <2>2. T \subseteq S \cup {e}
      BY <2>1
    <2>3. g # Ledger!R(i).group => T = S
      BY <2>1
    <2>4. IsFiniteSet(S)
      <3>1. IsFiniteSet(Ledger!Ids \X (1..Hops))
        <4>1. IsFiniteSet(Ledger!Ids)
          BY BatchFacts
        <4>2. IsFiniteSet(1..Hops)
          BY FS_Interval, LedgerAssumption DEF LedgerAssumption
        <4> QED  BY <4>1, <4>2, FS_Product
      <3> QED  BY <3>1, FS_Subset
    <2>5. Ledger!Attempts(g) = Cardinality(S)
      BY SameCount DEF Ledger!Attempts
    <2>6. Ledger!Attempts(g)' = Cardinality(T)
      BY <1>1, SameCount DEF Ledger!Attempts
    <2> HIDE DEF S, T, e
    <2>7. Cardinality(S) \in Nat /\ IsFiniteSet(S \cup {e}) /\ Cardinality(S \cup {e}) <= Cardinality(S) + 1
      <3>1. Cardinality(S) \in Nat
        BY <2>4, FS_CardinalityType
      <3>2. IsFiniteSet(S \cup {e}) /\ Cardinality(S \cup {e}) = IF e \in S THEN Cardinality(S) ELSE Cardinality(S) + 1
        BY <2>4, FS_AddElement
      <3> QED  BY <3>1, <3>2
    <2>8. Cardinality(T) <= Cardinality(S \cup {e}) /\ Cardinality(T) \in Nat /\ Cardinality(S \cup {e}) \in Nat
      BY <2>2, <2>7, FS_Subset, FS_CardinalityType
    <2> QED  BY <2>3, <2>5, <2>6, <2>7, <2>8
  <1> QED  BY <1>1, <1>2, <1>3

\* What is reserved is within each budget, and the first hop is of a request not started before.
LEMMA ReserveKeeps ==
    ASSUME LedgerInv, Ledger!Reserve
    PROVE  LedgerInv'
  <1> USE DEF LedgerInv
  <1>0. PICK i : i = flight.id
    OBVIOUS
  <1> DEFINE cap == Ledger!Min({flight.cap, Ledger!Allowance(i)})
  <1>1. /\ flight # None /\ flight.step = "hop" /\ Ledger!HopRefusals(i) = {"deadline"}
        /\ ledger' = [ledger EXCEPT
                 !.attempts[Ledger!Kind(i)] = @ + 1, !.charged = @ + cap,
                 !.archive = IF Ledger!R(i).archive THEN @ + cap ELSE @,
                 !.records = Ledger!Put(@, i, flight.hops + 1, flight.charged + cap, "in_flight")]
        /\ flight' = [flight EXCEPT !.hops = @ + 1, !.charged = @ + cap, !.cap = cap, !.step = "sent"]
        /\ sent' = [sent EXCEPT ![i] = IF flight.hops = 0 THEN @ + 1 ELSE @]
        /\ UNCHANGED <<batch, bodies, analysis, imported, losses, wire, deaths>>
    BY <1>0 DEF Ledger!Reserve, Ledger!At, Ledger!reading
  <1>2. /\ FlightSound(flight) /\ flight \in FlightType /\ i \in Ledger!Ids /\ batch \in Batches
        /\ flight.cap \in Nat /\ flight.hops \in Nat /\ flight.charged \in Int
        /\ wire \in Int /\ ledger.charged \in Int /\ ledger.archive \in Int
        /\ Ledger!R(i) \in ApprovalType /\ Ledger!Kind(i) \in {"probe", "metadata"}
    BY <1>0, <1>1, FlightFacts, BatchFacts DEF LedgerShape, LedgerType
  <1>3. /\ ~Ledger!IsSpent(i) /\ ~(ledger.attempts[Ledger!Kind(i)] >= Ledger!R(i).ceiling)
        /\ ~(Ledger!Allowance(i) <= 0)
    <2>1. /\ "provider_limit" \notin Ledger!HopRefusals(i) /\ "request_budget" \notin Ledger!HopRefusals(i)
          /\ "byte_budget" \notin Ledger!HopRefusals(i)
      BY <1>1
    <2> QED  BY <2>1 DEF Ledger!HopRefusals
  <1>4. cap \in Nat /\ cap <= Ledger!R(i).total - ledger.charged
    <2> DEFINE a == Ledger!Allowance(i)
    <2>1. a \in Int /\ a <= Ledger!R(i).total - ledger.charged /\ ~(a <= 0)
      BY <1>2, <1>3, AllowanceIsInt
    <2> HIDE DEF a
    <2>2. {flight.cap, a, a} = {flight.cap, a}
      OBVIOUS
    <2>3. Ledger!Min({flight.cap, a}) \in {flight.cap, a} /\ Ledger!Min({flight.cap, a}) <= a
      <3>1. PICK k \in Int : k = flight.cap
        BY <1>2
      <3>2. a \in Int
        BY <2>1
      <3>3. Ledger!Min({k, a, a}) \in {k, a, a} /\ Ledger!Min({k, a, a}) <= a
        BY <3>2, LeastOfThree
      <3> QED  BY <2>2, <3>1, <3>3
    <2>4. Ledger!Min({flight.cap, a}) \in Nat /\ Ledger!Min({flight.cap, a}) <= Ledger!R(i).total - ledger.charged
      <3>1. Ledger!R(i).total \in Int
        BY <1>2 DEF ApprovalType
      <3> QED  BY <1>2, <2>1, <2>3, <3>1
    <2> QED  BY <2>4 DEF a
  <1> HIDE DEF cap
  <1>5. /\ ledger'.records = Ledger!Put(ledger.records, i, flight.hops + 1, flight.charged + cap, "in_flight")
        /\ ledger'.charged = ledger.charged + cap
        /\ ledger'.attempts = [ledger.attempts EXCEPT ![Ledger!Kind(i)] = @ + 1]
    BY <1>1 DEF LedgerShape, LedgerType
  <1>6. \A j : \A n \in Nat : Ledger!Hopped(j, n)' <=> IF j = i THEN n <= flight.hops + 1 ELSE Ledger!Hopped(j, n)
    BY <1>1, <1>2, <1>5, PutHops
  <1>7. HopAdded(i, flight.hops)
    <2>1. \A n \in Nat \ {0} : Ledger!Hopped(i, n) <=> n <= flight.hops
      BY <1>0, <1>2 DEF FlightSound
    <2>2. ASSUME NEW j \in Ledger!Ids, NEW n \in Nat \ {0}
          PROVE  Ledger!Hopped(j, n)' <=> (Ledger!Hopped(j, n) \/ (j = i /\ n = flight.hops + 1))
      <3>1. CASE j = i
        BY <1>2, <1>6, <2>1, <3>1
      <3>2. CASE j # i
        BY <1>6, <3>2
      <3> QED  BY <3>1, <3>2
    <2> QED  BY <1>1, <1>2, <2>2 DEF HopAdded
  <1>8. /\ \A r : Ledger!R(r)' = Ledger!R(r) /\ Ledger!Kind(r)' = Ledger!Kind(r)
        /\ Ledger!Ids' = Ledger!Ids
        /\ Ledger!Attempted \subseteq Ledger!Attempted' /\ Ledger!Attempted' \subseteq Ledger!Attempted \cup {i}
        /\ \A g : /\ Ledger!Attempts(g) \in Nat /\ Ledger!Attempts(g)' \in Nat /\ Ledger!Attempts(g)' <= Ledger!Attempts(g) + 1
                  /\ g # Ledger!R(i).group => Ledger!Attempts(g)' = Ledger!Attempts(g)
    BY <1>2, <1>7, HopAddedGrows
  <1>9. Ledger!Attempted' = Ledger!Attempted \cup {i}
    <2>1. Ledger!Hopped(i, 1)'
      BY <1>2, <1>6
    <2> QED  BY <1>2, <1>8, <2>1 DEF Ledger!Attempted
  <1>10. /\ flight' \in FlightType /\ flight'.id = i /\ flight'.hops = flight.hops + 1 /\ flight'.step = "sent" /\ flight'.cap = cap
    <2>1. flight.hops + 1 \in Nat /\ flight.charged + cap \in Int
      BY <1>2, <1>4
    <2>2. flight' = [flight EXCEPT !.hops = flight.hops + 1, !.charged = flight.charged + cap, !.cap = cap, !.step = "sent"]
      BY <1>1, <1>2 DEF FlightType
    <2> QED  BY <1>0, <1>2, <1>4, <2>1, <2>2 DEF FlightType
  <1>11. flight' # None
    BY <1>10, LedgerAssumption DEF LedgerAssumption
  <1>12. \A r \in ledger'.records : r.id # i => r \in ledger.records
    BY <1>5 DEF Ledger!Put
  <1>13. FlightSound(flight)'
    <2>1. \A n \in Nat \ {0} : Ledger!Hopped(i, n)' <=> n <= flight.hops + 1
      BY <1>6
    <2>2. Ledger!R(i)'.of # None => \A r \in ledger'.records : r.id # i => Ledger!R(r.id)'.of # Ledger!R(i)'.of
      <3>1. Ledger!R(i).of # None => \A r \in ledger.records : r.id # i => Ledger!R(r.id).of # Ledger!R(i).of
        BY <1>0, <1>2 DEF FlightSound
      <3> QED  BY <1>8, <1>12, <3>1
    <2> QED  BY <1>2, <1>8, <1>10, <2>1, <2>2 DEF FlightSound
  <1>14. LedgerShape'
    <2> DEFINE new == [id |-> i, hops |-> flight.hops + 1, charged |-> flight.charged + cap, outcome |-> "in_flight"]
    <2>1. ledger'.records = {r \in ledger.records : r.id # i} \cup {new}
      BY <1>5 DEF Ledger!Put
    <2>2. new \in [id : Ledger!Ids, hops : Nat, charged : Int, outcome : Outcomes]
      <3>1. flight.hops + 1 \in Nat /\ flight.charged + cap \in Int /\ "in_flight" \in Outcomes
        BY <1>2, <1>4 DEF Outcomes
      <3> QED  BY <1>2, <3>1
    <2> HIDE DEF new
    <2>3. ledger'.records \in SUBSET [id : Ledger!Ids, hops : Nat, charged : Int, outcome : Outcomes]
      BY <2>1, <2>2 DEF LedgerShape, LedgerType
    <2>4. ledger'.attempts \in [{"probe", "metadata"} -> Nat]
      BY <1>2, <1>5 DEF LedgerShape, LedgerType
    <2>5. ledger' = [ledger EXCEPT !.attempts = ledger'.attempts, !.charged = ledger.charged + cap,
                        !.archive = IF Ledger!R(i).archive THEN @ + cap ELSE @, !.records = ledger'.records]
      BY <1>1, <1>5 DEF LedgerShape, LedgerType
    <2>6. ledger' \in LedgerType'
      <3>1. ledger.charged + cap \in Int /\ (IF Ledger!R(i).archive THEN ledger.archive + cap ELSE ledger.archive) \in Int
        BY <1>2, <1>4
      <3>2. ledger' = [ledger EXCEPT !.attempts = ledger'.attempts, !.charged = ledger.charged + cap,
                        !.archive = IF Ledger!R(i).archive THEN ledger.archive + cap ELSE ledger.archive,
                        !.records = ledger'.records]
        BY <2>5 DEF LedgerShape, LedgerType
      <3>3. ledger' \in LedgerType
        BY <2>3, <2>4, <3>1, <3>2 DEF LedgerShape, LedgerType
      <3> QED  BY <1>8, <3>3 DEF LedgerType
    <2>7. sent' \in [Ledger!Ids' -> Nat]
      <3>1. sent \in [Ledger!Ids -> Nat]
        BY DEF LedgerShape
      <3>2. sent[i] \in Nat /\ sent[i] + 1 \in Nat
        BY <1>2, <3>1
      <3>3. sent' \in [Ledger!Ids -> Nat]
        BY <1>1, <3>1, <3>2
      <3> QED  BY <1>8, <3>3
    <2> QED  BY <1>1, <1>13, <2>6, <2>7 DEF LedgerShape
  <1>15. Over' = Over /\ Over \in Nat
    <2>1. Ended' = {j \in Ledger!Attempted' : Ledger!R(j).errors /\ (flight' # None => flight'.id # j)}
      BY <1>8 DEF Ended
    <2>2. Ended' = Ended
      BY <1>1, <1>9, <1>10, <1>11, <2>1 DEF Ended
    <2>3. Cardinality(Ended) \in Nat /\ Chunk \in Nat
      BY <1>2, AttemptedIsFinite, FS_CardinalityType, LedgerAssumption DEF LedgerAssumption
    <2>4. Chunk * Cardinality(Ended) \in Nat
      BY <2>3
    <2> QED  BY <2>2, <2>4 DEF Over
  <1>16. batch' \in Batches
    BY <1>1, <1>2
  <1>17. MoneyInv'
    <2>1. Owed = 0 /\ Owed' = cap
      BY <1>1, <1>10, <1>11 DEF Owed
    <2>2. Totals' \subseteq Nat /\ IsFiniteSet(Totals')
      BY <1>16, FiniteNext
    <2>3. Ledger!R(i).total \in Totals'
      BY <1>8, <1>9 DEF Totals
    <2>4. Ledger!Largest(Totals') \in Nat /\ Ledger!R(i).total <= Ledger!Largest(Totals')
      BY <2>2, <2>3, LargestOf
    <2>5. Ledger!Largest(Totals)' = Ledger!Largest(Totals')
      OBVIOUS
    <2>6. Ledger!R(i).total \in Nat
      BY <1>2 DEF ApprovalType
    <2> QED  BY <1>1, <1>2, <1>4, <1>5, <1>15, <2>1, <2>4, <2>5, <2>6 DEF MoneyInv
  <1>18. CountInv'
    <2>1. ASSUME NEW k \in {"probe", "metadata"} PROVE ledger'.attempts[k] <= Ledger!Largest(Ceilings(k)')
      <3>1. Ceilings(k)' = {Ledger!R(j).ceiling : j \in {x \in Ledger!Attempted' : Ledger!Kind(x) = k}}
        BY <1>8 DEF Ceilings
      <3>2. Ceilings(k) \subseteq Ceilings(k)'
        BY <1>8, <3>1 DEF Ceilings
      <3>3. Ceilings(k)' \subseteq Nat /\ IsFiniteSet(Ceilings(k)')
        BY <1>16, FiniteNext
      <3>4. /\ Ledger!Largest(Ceilings(k)) \in Nat /\ Ledger!Largest(Ceilings(k)') \in Nat
            /\ Ledger!Largest(Ceilings(k)) <= Ledger!Largest(Ceilings(k)')
            /\ \A x \in Ceilings(k)' : x <= Ledger!Largest(Ceilings(k)')
        BY <1>2, <3>2, <3>3, LargestOf, LargestGrows, AttemptedIsFinite
      <3>5. ledger.attempts[k] \in Nat /\ ledger.attempts[k] <= Ledger!Largest(Ceilings(k))
        BY DEF LedgerShape, LedgerType, CountInv
      <3>6. CASE k = Ledger!Kind(i)
        <4>1. Ledger!R(i).ceiling \in Ceilings(k)' /\ Ledger!R(i).ceiling \in Nat
          BY <1>2, <1>9, <3>1, <3>6 DEF ApprovalType
        <4>2. ledger'.attempts[k] = ledger.attempts[k] + 1
          BY <1>5, <3>6 DEF LedgerShape, LedgerType
        <4>3. ledger.attempts[k] < Ledger!R(i).ceiling
          BY <1>3, <3>5, <3>6, <4>1
        <4> QED  BY <3>4, <3>5, <4>1, <4>2, <4>3
      <3>7. CASE k # Ledger!Kind(i)
        <4>1. ledger'.attempts[k] = ledger.attempts[k]
          BY <1>5, <3>7 DEF LedgerShape, LedgerType
        <4> QED  BY <3>4, <3>5, <4>1
      <3> QED  BY <3>6, <3>7
    <2>2. ASSUME NEW j \in Ledger!Attempted', Ledger!R(j).allowed # None
          PROVE  Ledger!Attempts(Ledger!R(j).group)' <= Ledger!Largest(Limits(Ledger!R(j).group)')
      <3> DEFINE g == Ledger!R(j).group
      <3>1. j \in Ledger!Ids /\ i \in Ledger!Ids
        BY <1>2, <1>8 DEF Ledger!Attempted
      <3>2. Limits(g)' = {Ledger!R(x).allowed : x \in {y \in Ledger!Attempted' : Ledger!R(y).group = g}}
        BY <1>8 DEF Limits
      <3>3. IsFiniteSet(Limits(g)')
        BY <1>16, FiniteNext
      <3>4. Limits(g)' \subseteq Nat
        <4>1. ASSUME NEW x \in Ledger!Attempted', Ledger!R(x).group = g PROVE Ledger!R(x).allowed \in Nat
          <5>1. x \in Ledger!Ids
            BY <1>2, <1>8, <4>1 DEF Ledger!Attempted
          <5>2. Ledger!R(x) \in ApprovalType /\ Ledger!R(x).allowed # None
            BY <1>2, <2>2, <3>1, <4>1, <5>1, BatchFacts
          <5> QED  BY <5>2 DEF ApprovalType
        <4> QED  BY <3>2, <4>1
      <3>5. Ledger!Largest(Limits(g)') \in Nat /\ \A x \in Limits(g)' : x <= Ledger!Largest(Limits(g)')
        BY <3>3, <3>4, LargestOf
      <3>6. CASE g = Ledger!R(i).group
        <4>1. Ledger!R(i).allowed # None /\ Ledger!R(i).allowed \in Limits(g)'
          BY <1>2, <1>9, <2>2, <3>1, <3>2, <3>6, BatchFacts
        <4>2. Ledger!R(i).allowed \in Nat
          BY <3>4, <4>1
        <4>3. Ledger!Attempts(g) < Ledger!R(i).allowed
          <5>1. ~(Ledger!Attempts(Ledger!R(i).group) >= Ledger!R(i).allowed)
            BY <1>3, <4>1 DEF Ledger!IsSpent
          <5> QED  BY <1>8, <3>6, <4>2, <5>1
        <4>4. Ledger!Attempts(g)' <= Ledger!Attempts(g) + 1 /\ Ledger!Attempts(g) \in Nat
          BY <1>8
        <4>5. Ledger!Attempts(g)' \in Int
          BY <1>8
        <4> QED  BY <3>5, <4>1, <4>2, <4>3, <4>4, <4>5
      <3>7. CASE g # Ledger!R(i).group
        <4>1. j \in Ledger!Attempted
          BY <1>8, <3>7
        <4>2. Ledger!Attempts(g)' = Ledger!Attempts(g) /\ Ledger!Attempts(g) \in Nat
          BY <1>8, <3>7
        <4>3. Limits(g)' = Limits(g)
          BY <1>8, <1>9, <3>2, <3>7 DEF Limits
        <4>4. Ledger!Attempts(g) <= Ledger!Largest(Limits(g))
          BY <2>2, <4>1 DEF CountInv
        <4> QED  BY <4>2, <4>3, <4>4
      <3> QED  BY <3>6, <3>7
    <2> QED  BY <1>8, <2>1, <2>2 DEF CountInv
  <1>19. OnceInv'
    <2>1. ASSUME NEW j \in Ledger!Ids PROVE sent'[j] <= 1 /\ (j \notin Ledger!Attempted' => sent'[j] = 0)
      <3>1. sent[j] \in Nat /\ sent[j] <= 1 /\ (j \notin Ledger!Attempted => sent[j] = 0)
        BY DEF OnceInv, LedgerShape
      <3>2. CASE j = i /\ flight.hops = 0
        <4>1. i \notin Ledger!Attempted
          <5>1. ~Ledger!Hopped(i, 1)
            BY <1>0, <1>2, <3>2 DEF FlightSound
          <5> QED  BY <5>1 DEF Ledger!Attempted
        <4> QED  BY <1>1, <1>9, <3>1, <3>2, <4>1 DEF LedgerShape
      <3>3. CASE ~(j = i /\ flight.hops = 0)
        BY <1>1, <1>8, <3>1, <3>3 DEF LedgerShape
      <3> QED  BY <3>2, <3>3
    <2>2. ASSUME NEW j \in Ledger!Attempted, Ledger!R(j).of = Ledger!R(i).of, Ledger!R(j).of # None PROVE j = i
      <3>1. \E r \in ledger.records : r.id = j
        BY DEF Ledger!Attempted, Ledger!Hopped, Ledger!Record
      <3> QED  BY <1>0, <1>2, <2>2, <3>1 DEF FlightSound
    <2>3. ASSUME NEW j \in Ledger!Attempted', NEW k \in Ledger!Attempted', Ledger!R(j).of = Ledger!R(k).of, Ledger!R(j).of # None
          PROVE  j = k
      BY <1>9, <2>2, <2>3 DEF OnceInv
    <2> QED  BY <1>8, <2>1, <2>3 DEF OnceInv
  <1>20. WholeInv'
    <2>1. Ledger!Saved' \subseteq Ledger!Saved
      BY <1>5 DEF Ledger!Put, Ledger!Saved
    <2> QED  BY <1>1, <2>1 DEF WholeInv, SavedIn
  <1> QED  BY <1>14, <1>17, <1>18, <1>19, <1>20
-----------------------------------------------------------------------------
\* A new ledger holds nothing.
LEMMA LedgerInit == Ledger!Init => LedgerInv
  <1> SUFFICES ASSUME Ledger!Init PROVE LedgerInv
    OBVIOUS
  <1>1. /\ batch \in Batches /\ flight = None /\ analysis = None /\ imported = None /\ bodies = {}
        /\ wire = 0 /\ losses = 0 /\ sent = [i \in Ledger!Ids |-> 0]
        /\ ledger = [records |-> {}, attempts |-> [k \in {"probe", "metadata"} |-> 0],
                     charged |-> 0, archive |-> 0, blocked |-> {}]
    BY DEF Ledger!Init
  <1>2. Ledger!Attempted = {}
    BY <1>1 DEF Ledger!Attempted, Ledger!Hopped, Ledger!Record
  <1>3. Ledger!Largest({}) = 0
    BY DEF Ledger!Largest
  <1>4. Over = 0 /\ Owed = 0
    <2>1. Ended = {}
      BY <1>2 DEF Ended
    <2>2. Cardinality({}) = 0 /\ Chunk \in Nat
      BY FS_EmptySet, LedgerAssumption DEF LedgerAssumption
    <2> QED  BY <1>1, <2>1, <2>2 DEF Over, Owed
  <1>5. LedgerShape
    <2>1. ledger \in LedgerType
      BY <1>1 DEF LedgerType
    <2> QED  BY <1>1, <2>1 DEF LedgerShape
  <1>6. MoneyInv
    <2>1. Totals = {}
      BY <1>2 DEF Totals
    <2> QED  BY <1>1, <1>3, <1>4, <2>1 DEF MoneyInv
  <1>7. CountInv
    <2>1. \A k : Ceilings(k) = {}
      BY <1>2 DEF Ceilings
    <2>2. \A k \in {"probe", "metadata"} : ledger.attempts[k] = 0
      BY <1>1
    <2>3. ASSUME NEW k \in {"probe", "metadata"} PROVE ledger.attempts[k] <= Ledger!Largest(Ceilings(k))
      <3>1. Ceilings(k) = {}
        BY <2>1
      <3>2. Ledger!Largest(Ceilings(k)) = 0
        BY <1>3, <3>1, Zenon
      <3> QED  BY <2>2, <3>2
    <2> QED  BY <1>2, <2>3 DEF CountInv
  <1>8. OnceInv
    BY <1>1, <1>2 DEF OnceInv
  <1>9. WholeInv
    BY <1>1 DEF WholeInv, Ledger!Saved
  <1> QED  BY <1>5, <1>6, <1>7, <1>8, <1>9 DEF LedgerInv

\* Every step of a collection keeps the ledger sound.
LEMMA LedgerStep == LedgerInv /\ Ledger!Next => LedgerInv'
  BY RefuseKeeps, BeginKeeps, StopKeeps, ReserveKeeps, ReceiveKeeps, BreakKeeps, KeepKeeps, SettleKeeps, RestKeeps
     DEF Ledger!Next

\* Nothing changes while the others move.
LEMMA LedgerRests == LedgerInv /\ UNCHANGED ledgerVars => LedgerInv'
  <1> SUFFICES ASSUME LedgerInv, UNCHANGED ledgerVars PROVE LedgerInv'
    OBVIOUS
  <1>1. UNCHANGED <<batch, ledger, bodies, flight, analysis, imported, wire, sent, deaths, losses>>
    BY DEF ledgerVars
  <1>2. /\ Ledger!Ids' = Ledger!Ids /\ \A r : Ledger!R(r)' = Ledger!R(r)
        /\ \A i, n : Ledger!Hopped(i, n)' = Ledger!Hopped(i, n)
    BY <1>1 DEF Ledger!R, Ledger!Ids, Ledger!Hopped, Ledger!Record
  <1>3. flight' # None => FlightSound(flight)'
    BY <1>1, <1>2 DEF LedgerInv, LedgerShape, FlightSound
  <1>4. SameHops
    BY <1>1, <1>2 DEF SameHops
  <1>5. Over' = Over /\ Over \in Nat
    BY <1>1, <1>4, OverMoves
  <1>6. Owed' = Owed /\ Owed \in Int
    <2>1. Owed' = Owed
      BY <1>1 DEF Owed
    <2>2. Owed \in Int
      BY FlightFacts DEF Owed
    <2> QED  BY <2>1, <2>2
  <1>7. WholeInv'
    BY <1>1 DEF LedgerInv, WholeInv, SavedIn, Ledger!Saved
  <1>8. wire' = wire /\ wire \in Int /\ losses' \in Nat
    BY <1>1 DEF LedgerInv, LedgerShape
  <1> HIDE DEF Owed, Over
  <1>9. wire' + Owed' <= wire + Owed + Over' - Over /\ Over' >= Over
    BY <1>5, <1>6, <1>8
  <1> QED  BY <1>1, <1>3, <1>7, <1>8, <1>9, SameLedgerKeeps

\* What is still out is at most what may come on top of it.
LEMMA OwedIsCovered ==
    ASSUME LedgerInv
    PROVE  /\ Over \in Nat /\ Ledger!Overrun \in Nat /\ Owed \in Int
           /\ Over <= Ledger!Overrun /\ Over <= Owed + Ledger!Overrun
  <1> DEFINE E == {i \in Ledger!Attempted : Ledger!R(i).errors}
             c == Cardinality(Ended)
             d == Cardinality(E)
  <1>1. IsFiniteSet(E) /\ Ended \subseteq E /\ IsFiniteSet(Ended)
    BY AttemptedIsFinite, FS_Subset DEF LedgerInv, LedgerShape, Ended
  <1>2. c \in Nat /\ d \in Nat /\ c <= d
    BY <1>1, FS_Subset, FS_CardinalityType
  <1>3. Over = Chunk * c /\ Ledger!Overrun = Chunk * d /\ Chunk \in Nat
    BY SameCount, LedgerAssumption DEF Over, Ledger!Overrun, LedgerAssumption
  <1>4. flight # None /\ flight.id \in E => d = c + 1
    <2> SUFFICES ASSUME flight # None, flight.id \in E PROVE d = c + 1
      OBVIOUS
    <2>1. E = Ended \cup {flight.id} /\ flight.id \notin Ended
      BY DEF Ended
    <2> QED  BY <1>1, <2>1, FS_AddElement
  <1> HIDE DEF c, d
  <1>5. Chunk * c \in Nat /\ Chunk * d \in Nat /\ Chunk * c <= Chunk * d /\ (d = c + 1 => Chunk * d = Chunk * c + Chunk)
    BY <1>2, <1>3
  <1>6. Owed \in Int
    BY FlightFacts DEF Owed
  <1>7. Owed >= 0 \/ (Owed + Chunk >= 0 /\ flight # None /\ flight.id \in E)
    <2>1. CASE flight = None \/ flight.step = "hop"
      BY <2>1 DEF Owed
    <2>2. CASE flight # None /\ flight.step # "hop"
      <3>1. FlightSound(flight) /\ flight.cap \in Nat /\ flight.read \in Nat /\ flight.id \in Ledger!Attempted
        BY <2>2, FlightFacts
      <3>2. CASE flight.step = "sent"
        BY <2>2, <3>1, <3>2 DEF Owed
      <3>3. CASE flight.step \in {"received", "kept"}
        <4>1. flight.read <= flight.cap + (IF Ledger!R(flight.id).errors /\ flight.outcome = "http_error" THEN Chunk ELSE 0)
          BY <3>1, <3>3 DEF FlightSound
        <4>2. Owed = flight.cap - flight.read
          BY <2>2, <3>3 DEF Owed
        <4>3. CASE Ledger!R(flight.id).errors
          <5>1. flight.id \in E
            BY <3>1, <4>3
          <5>2. Owed + Chunk >= 0
            BY <1>3, <3>1, <4>1, <4>2
          <5> QED  BY <2>2, <5>1, <5>2
        <4>4. CASE ~Ledger!R(flight.id).errors
          BY <3>1, <4>1, <4>2, <4>4
        <4> QED  BY <4>3, <4>4
      <3>4. flight.step \in {"hop", "sent", "received", "kept"}
        BY <3>1 DEF FlightSound, FlightType
      <3> QED  BY <2>2, <3>2, <3>3, <3>4
    <2> QED  BY <2>1, <2>2
  <1> HIDE DEF Owed
  <1>8. Ledger!Overrun \in Nat /\ Over \in Nat /\ Over <= Ledger!Overrun
        /\ (flight # None /\ flight.id \in E => Ledger!Overrun = Over + Chunk)
    BY <1>3, <1>4, <1>5
  <1> HIDE DEF E
  <1>9. Over <= Owed + Ledger!Overrun
    BY <1>3, <1>6, <1>7, <1>8
  <1> QED  BY <1>6, <1>8, <1>9

\* A sound ledger keeps budgets, starts nothing twice and is of whole bodies.
LEMMA LedgerIsSound == LedgerInv => Ledger!CollectionHolds
  <1> SUFFICES ASSUME LedgerInv PROVE Ledger!CollectionHolds
    OBVIOUS
  <1>1. batch \in Batches /\ wire \in Int /\ ledger.charged \in Int
    BY DEF LedgerInv, LedgerShape, LedgerType
  <1>2. Ledger!BudgetsHold
    <2>1. wire <= ledger.charged + Ledger!Overrun /\ ledger.charged <= Ledger!Largest(Totals) + Ledger!Overrun
      <3>1. wire + Owed <= ledger.charged + Over /\ ledger.charged <= Ledger!Largest(Totals) + Over
        BY DEF LedgerInv, MoneyInv
      <3>2. Ledger!Largest(Totals) \in Nat
        BY <1>1, AttemptedIsFinite, LargestOf
      <3>3. PICK w, o, v, c, x, m :
               w = wire /\ o = Owed /\ v = Over /\ c = ledger.charged /\ x = Ledger!Overrun /\ m = Ledger!Largest(Totals)
        OBVIOUS
      <3>4. /\ w \in Int /\ o \in Int /\ v \in Nat /\ c \in Int /\ x \in Nat /\ m \in Nat
            /\ v <= x /\ v <= o + x /\ w + o <= c + v /\ c <= m + v
        BY <1>1, <3>1, <3>2, <3>3, OwedIsCovered, Zenon
      <3>5. w <= c + x /\ c <= m + x
        BY <3>4
      <3> QED  BY <3>3, <3>5, Zenon
    <2>2. CountInv
      BY DEF LedgerInv
    <2> QED  BY <2>1, <2>2 DEF Ledger!BudgetsHold, CountInv, Totals, Ceilings, Limits
  <1>3. Ledger!NothingTwice
    <2>1. ASSUME NEW i \in Ledger!Ids PROVE Ledger!Cardinality({j \in Ledger!Attempted : Ledger!R(j).of = i}) <= 1
      <3> DEFINE S == {j \in Ledger!Attempted : Ledger!R(j).of = i}
      <3>1. i # None
        BY <1>1, BatchFacts, LedgerAssumption DEF LedgerAssumption
      <3>2. \A j, k \in S : j = k
        BY <3>1 DEF LedgerInv, OnceInv
      <3> HIDE DEF S
      <3>3. S = {} \/ \E j : S = {j}
        BY <3>2
      <3>4. Cardinality(S) = 0 \/ Cardinality(S) = 1
        BY <3>3, FS_EmptySet, FS_Singleton
      <3>5. Ledger!Cardinality(S) <= 1
        BY <3>4, SameCount
      <3> QED  BY <3>5 DEF S
    <2> QED  BY <2>1 DEF Ledger!NothingTwice, LedgerInv, OnceInv
  <1>4. Ledger!EvidenceIsWhole
    BY DEF LedgerInv, WholeInv, Ledger!EvidenceIsWhole
  <1> QED  BY <1>2, <1>3, <1>4 DEF Ledger!CollectionHolds

\* Nothing changes while the others move.
LEMMA GridRests == GridInv /\ UNCHANGED gridVars => GridInv'
  BY DEF gridVars, GridInv, ManifestSound, RunSound, Grid!Loads, Versions

EvidenceInv == GridInv /\ (subject = "ledger" => LedgerInv)

\* Collection keeps to what was approved and starts nothing twice, an import has used whole bodies,
\* and a grid's mask that loads is one version's, paid within approval: for any approved batch and
\* caps, and however often a process is killed (Collector, acquire_grid).
THEOREM EvidenceAlwaysHolds == AnswersSpec => []EvidenceHolds
  <1>1. AnswersInit => EvidenceInv
    BY GridInit, LedgerInit DEF AnswersInit, NoEvidence, NoGrid, EvidenceInit, EvidenceInv
  <1>2. EvidenceInv /\ [AnswersNext]_all => EvidenceInv'
    <2> SUFFICES ASSUME EvidenceInv, [AnswersNext]_all PROVE EvidenceInv'
      OBVIOUS
    <2>1. /\ UNCHANGED subject
          /\ Grid!Next \/ UNCHANGED gridVars
          /\ (subject = "ledger" /\ Ledger!Next) \/ UNCHANGED ledgerVars
      BY DEF AnswersNext, EvidenceNext, all, evidenceVars
    <2>2. GridInv'
      BY <2>1, GridStep, GridRests DEF EvidenceInv
    <2>3. subject = "ledger" => LedgerInv'
      BY <2>1, LedgerStep, LedgerRests DEF EvidenceInv
    <2> QED  BY <2>1, <2>2, <2>3 DEF EvidenceInv
  <1>3. EvidenceInv => EvidenceHolds
    BY GridIsSound, LedgerIsSound DEF EvidenceInv, EvidenceHolds
  <1> QED  BY <1>1, <1>2, <1>3, PTL DEF AnswersSpec
=============================================================================
