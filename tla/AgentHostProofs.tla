-------------------------- MODULE AgentHostProofs --------------------------
(***************************************************************************)
(* Machine-checked proofs about AgentHost for every number of sessions,    *)
(* plans, inputs, failing tools and (where a theorem says so) crashes.     *)
(***************************************************************************)
EXTENDS AgentHost, FiniteSetTheorems, SequenceTheorems, TLAPS

-----------------------------------------------------------------------------
(* Helpers of the model.                                                   *)

\* The plans a session can come to, and its jobs.
Planned(s) == UNION {{ps[i] : i \in DOMAIN ps} : ps \in PlanLists[s]}
JobsOf(s) == {j \in Jobs : j[1] = s /\ j[2] \in Planned(s)}
PlanEntries == [hash : Plans, job : BOOLEAN]

\* What a record names belongs to its session.
Own(s, f) ==
    /\ Hashes(f.plans) \cup Hashes(f.form.plans) \subseteq Planned(s)
    /\ f.jobs \cup f.failed \cup f.form.jobs \subseteq JobsOf(s)
Good(s, f) == f \in FactsType /\ Own(s, f)
Same(f, g) == g.started = f.started /\ g.retries = f.retries

\* The two ways a step writes the record of a session: in memory, or with a form in the store.
Showed(s, g) ==
    /\ live' = [live EXCEPT ![s] = g]
    /\ saved' = [saved EXCEPT ![s] = g]
    /\ snaps' = [snaps EXCEPT ![s] = Append(@, g)]
Writes(s, f) == \E g \in FactsType : Own(s, g) /\ Same(f, g) /\ (Keep(s, g) \/ Showed(s, g))

\* There are finitely many jobs.
LEMMA JobsAreFinite == IsFiniteSet(Jobs)
  <1> DEFINE Retryings == 0 .. RetryLimit
             Pairs == Sessions \X (Plans \X Retryings)
             flat == [x \in Pairs |-> <<x[1], x[2][1], x[2][2]>>]
  <1>1. IsFiniteSet(Retryings)
    <2>1. 0 \in Int /\ RetryLimit \in Int
      BY HostAssumption DEF HostAssumption
    <2>2. QED
      BY <2>1, FS_Interval
  <1>2. IsFiniteSet(Plans \X Retryings)
    BY <1>1, FS_Product, HostAssumption DEF HostAssumption
  <1>3. IsFiniteSet(Pairs)
    BY <1>2, FS_Product, HostAssumption DEF HostAssumption
  <1>4. flat \in Surjection(Pairs, Jobs)
    <2>1. flat \in [Pairs -> Jobs]
      BY DEF Jobs
    <2>2. ASSUME NEW j \in Jobs PROVE \E x \in Pairs : flat[x] = j
      <3>1. PICK s \in Sessions, p \in Plans, n \in Retryings : j = <<s, p, n>>
        BY DEF Jobs
      <3>2. <<s, <<p, n>>>> \in Pairs /\ flat[<<s, <<p, n>>>>] = j
        BY <3>1
      <3>3. QED
        BY <3>2
    <2>3. QED
      BY <2>1, <2>2 DEF Surjection
  <1>5. QED
    BY <1>3, <1>4, FS_Surjection

\* Sets of jobs and of places of a list have a size.
LEMMA Sizes ==
    /\ \A S \in SUBSET Jobs : Cardinality(S) \in Nat
    /\ \A n \in Nat : \A S \in SUBSET (1 .. n) : Cardinality(S) \in Nat
  <1>1. ASSUME NEW S \in SUBSET Jobs PROVE Cardinality(S) \in Nat
    BY JobsAreFinite, FS_Subset, FS_CardinalityType
  <1>2. ASSUME NEW n \in Nat, NEW S \in SUBSET (1 .. n) PROVE Cardinality(S) \in Nat
    <2>1. IsFiniteSet(1 .. n)
      BY FS_Interval
    <2>2. QED
      BY <2>1, FS_Subset, FS_CardinalityType
  <1>3. QED
    BY <1>1, <1>2

\* An enumeration of some places of a list is a list of places.
LEMMA Enumerates ==
    ASSUME NEW n \in Nat, NEW S \in SUBSET (1 .. n), NEW q \in InOrder(S)
    PROVE  /\ Cardinality(S) \in Nat
           /\ q \in [1 .. Cardinality(S) -> S]
  BY Sizes DEF InOrder

\* The plans of a session are plans.
LEMMA PlannedArePlans ==
    ASSUME NEW s \in Sessions
    PROVE  /\ Planned(s) \subseteq Plans
           /\ \A ps \in PlanLists[s] :
                 /\ ps \in Seq(Plans)
                 /\ \A i \in DOMAIN ps : ps[i] \in Planned(s)
  <1>1. \A ps \in PlanLists[s] : ps \in Seq(Plans) /\ \A i \in DOMAIN ps : ps[i] \in Plans
    BY HostAssumption, ElementOfSeq DEF HostAssumption
  <1>2. QED
    BY <1>1 DEF Planned

\* The entries of a list of plans.
LEMMA EntriesOf ==
    ASSUME NEW s \in Sessions, NEW ps \in PlanLists[s]
    PROVE  /\ [i \in DOMAIN ps |-> Entry(ps[i])] \in Seq(PlanEntries)
           /\ Hashes([i \in DOMAIN ps |-> Entry(ps[i])]) \subseteq Planned(s)
  <1>1. /\ ps \in Seq(Plans) /\ \A i \in DOMAIN ps : ps[i] \in Planned(s)
        /\ DOMAIN ps = 1 .. Len(ps) /\ Len(ps) \in Nat
    BY PlannedArePlans
  <1>2. \A i \in DOMAIN ps : Entry(ps[i]) \in PlanEntries
    BY <1>1, PlannedArePlans DEF Entry, PlanEntries
  <1>3. [i \in 1 .. Len(ps) |-> Entry(ps[i])] \in Seq(PlanEntries)
    BY <1>1, <1>2
  <1>4. QED
    BY <1>1, <1>3 DEF Hashes, Entry
-----------------------------------------------------------------------------
(* Types, and whose plans and jobs a record names.                         *)

\* The steps of a submission, which is at the head of the list.
Submitting == {"ask", "submit", "settle", "failed"}

\* What a turn of session s may become.
TurnFits(s, u) ==
    /\ u \in TurnType
    /\ \A i \in DOMAIN u.todo : u.todo[i] \in JobsOf(s)
    /\ u.pc \in Submitting => u.todo # <<>>

\* Everything a session keeps or works on is its own.
OwnInv ==
    /\ \A s \in Sessions : /\ Own(s, saved[s]) /\ Own(s, live[s])
                           /\ \A i \in DOMAIN snaps[s] : Own(s, snaps[s][i])
                           /\ TurnFits(s, turn[s])

\* A turn that has not begun, or is over, has nothing unsaved.
NothingUnsaved ==
    \A s \in Sessions : turn[s].pc \in {"idle", "act", "record"} => live[s] = saved[s]

HostTypes == TypeOK /\ OwnInv /\ NothingUnsaved

\* Opening a form.
LEMMA ShowWrites ==
    ASSUME NEW s \in Sessions, NEW f \in FactsType, Own(s, f), NEW gate \in Gates,
           NEW ps \in Seq(PlanEntries), NEW js \in SUBSET JobsOf(s), Hashes(ps) \subseteq Planned(s),
           Show(s, f, gate, ps, js)
    PROVE  Writes(s, f)
  <1> DEFINE g == Opened(f, gate, ps, js)
  <1>1. g \in FactsType
    <2> DEFINE form == [gate |-> gate, rev |-> f.rev + 1, plans |-> ps, jobs |-> js]
    <2>1. f.rev + 1 \in Nat /\ js \subseteq Jobs
      BY DEF FactsType, JobsOf
    <2>2. form \in FormType
      BY <2>1 DEF FormType, PlanEntries
    <2>3. g = [f EXCEPT !.rev = f.rev + 1, !.form = form]
      BY DEF Opened, FactsType
    <2> HIDE DEF form, g
    <2>4. QED
      BY <2>1, <2>2, <2>3 DEF FactsType
  <1>2. Own(s, g) /\ Same(f, g)
    BY DEF Opened, Own, Same, FactsType, FormType
  <1>3. Showed(s, g)
    BY DEF Show, Showed
  <1>4. QED
    BY <1>1, <1>2, <1>3 DEF Writes

\* Keeping a record in memory.
LEMMA KeepWrites ==
    ASSUME NEW s \in Sessions, NEW f \in FactsType, Own(s, f), Keep(s, f)
    PROVE  Writes(s, f)
  BY DEF Writes, Same

\* Closing the form of a record.
LEMMA ClosedIsGood ==
    ASSUME NEW s \in Sessions, NEW f \in FactsType, Own(s, f)
    PROVE  Closed(f) \in FactsType /\ Own(s, Closed(f)) /\ Same(f, Closed(f))
  <1>1. NoForm \in FormType
    BY DEF NoForm, FormType, Gates
  <1>2. Hashes(NoForm.plans) = {} /\ NoForm.jobs = {}
    BY DEF NoForm, Hashes
  <1>3. QED
    BY <1>1, <1>2 DEF Closed, FactsType, Own, Same

\* The rules write the record they were given, whatever form they open.
LEMMA AdvanceWrites ==
    ASSUME NEW s \in Sessions, NEW f \in FactsType, Own(s, f), Advance(s, f)
    PROVE  Writes(s, f)
  <1>1. /\ <<>> \in Seq(PlanEntries) /\ {} \in SUBSET JobsOf(s) /\ Hashes(<<>>) = {}
        /\ {"request", "next_steps", "review_plan"} \subseteq Gates
    BY DEF Hashes, Gates
  <1>2. CASE \E gate \in {"request", "next_steps"} : Show(s, f, gate, <<>>, {})
    BY <1>1, <1>2, ShowWrites
  <1>3. CASE Keep(s, f)
    BY <1>3, KeepWrites
  <1>4. CASE Keep(s, Closed(f))
    BY <1>4, ClosedIsGood DEF Writes
  <1>5. ASSUME NEW ps \in PlanLists[s],
               Show(s, [f EXCEPT !.plans = [i \in DOMAIN ps |-> Entry(ps[i])]], "review_plan",
                    [i \in DOMAIN ps |-> Entry(ps[i])], {})
        PROVE  Writes(s, f)
    <2> DEFINE made == [i \in DOMAIN ps |-> Entry(ps[i])]
               g == [f EXCEPT !.plans = made]
    <2>1. made \in Seq(PlanEntries) /\ Hashes(made) \subseteq Planned(s)
      BY EntriesOf
    <2>2. g \in FactsType /\ Own(s, g) /\ Same(f, g)
      BY <2>1 DEF FactsType, FormType, PlanEntries, Own, Same
    <2>3. Writes(s, g)
      BY <1>1, <1>5, <2>1, <2>2, ShowWrites
    <2>4. QED
      BY <2>2, <2>3 DEF Writes, Same
  <1>6. CASE Show(s, f, "review_plan", f.plans, {})
    <2>1. f.plans \in Seq(PlanEntries) /\ Hashes(f.plans) \subseteq Planned(s)
      BY DEF FactsType, PlanEntries, Own
    <2>2. QED
      BY <1>1, <1>6, <2>1, ShowWrites
  <1>7. QED
    BY <1>2, <1>3, <1>4, <1>5, <1>6 DEF Advance

\* The variables besides the records and the turns.
OthersTyped ==
    /\ approvals \subseteq Plans /\ owned \subseteq Jobs /\ following \subseteq Sessions
    /\ jobs \in [Jobs -> {"none", "running", "done", "failed"}]
    /\ inbox \subseteq [s : Sessions, kind : Kinds \cap {"run", "retry"}, rev : Nat]
    /\ follower \in FollowerType /\ crashes \in Nat

\* A turn of one session writes its record, moves on, and touches no other session.
LEMMA SessionStep ==
    ASSUME HostTypes, OthersTyped', NEW s \in Sessions, NEW f \in FactsType, Own(s, f),
           \/ Writes(s, f)
           \/ UNCHANGED request
           \/ saved' = [saved EXCEPT ![s] = f] /\ UNCHANGED <<snaps, live>>,
           NEW u, TurnFits(s, u), turn' = [turn EXCEPT ![s] = u],
           u.pc \in {"idle", "act", "record"} => live'[s] = saved'[s]
    PROVE  HostTypes'
  <1> USE DEF HostTypes, TypeOK, OwnInv
  <1>1. /\ saved' \in [Sessions -> FactsType] /\ live' \in [Sessions -> FactsType]
        /\ \A t \in Sessions : Own(t, saved'[t]) /\ Own(t, live'[t])
        /\ \A t \in Sessions \ {s} : saved'[t] = saved[t] /\ live'[t] = live[t]
    BY DEF Writes, Keep, Showed, request
  <1>2. /\ snaps' \in [Sessions -> Seq(FactsType)]
        /\ \A t \in Sessions : \A i \in DOMAIN snaps'[t] : Own(t, snaps'[t][i])
    <2>1. CASE UNCHANGED snaps
      BY <2>1
    <2>2. CASE \E g \in FactsType : Own(s, g) /\ snaps' = [snaps EXCEPT ![s] = Append(@, g)]
      <3>1. PICK g \in FactsType : Own(s, g) /\ snaps' = [snaps EXCEPT ![s] = Append(@, g)]
        BY <2>2
      <3>2. snaps[s] \in Seq(FactsType)
        OBVIOUS
      <3>3. /\ Append(snaps[s], g) \in Seq(FactsType)
            /\ \A i \in DOMAIN Append(snaps[s], g) : Own(s, Append(snaps[s], g)[i])
        BY <3>1, <3>2
      <3>4. QED
        BY <3>1, <3>3
    <2>3. QED
      BY <2>1, <2>2 DEF Writes, Keep, Showed, request
  <1>3. /\ turn' \in [Sessions -> TurnType]
        /\ \A t \in Sessions : TurnFits(t, turn'[t])
        /\ \A t \in Sessions \ {s} : turn'[t] = turn[t]
        /\ turn'[s] = u
    BY DEF TurnFits
  <1>4. NothingUnsaved'
    BY <1>1, <1>3 DEF NothingUnsaved
  <1>5. QED
    BY <1>1, <1>2, <1>3, <1>4 DEF OthersTyped

\* The next steps of a turn that has nothing more to submit.
LEMMA GotoFits ==
    ASSUME HostTypes, NEW s \in Sessions, NEW pc \in {"save", "record", "next", "ask", "submit", "settle",
           "failed", "inspect"}, Goto(s, pc), pc \in Submitting => turn[s].todo # <<>>
    PROVE  \E u : TurnFits(s, u) /\ turn' = [turn EXCEPT ![s] = u] /\ u.pc = pc
  <1> DEFINE u == [turn[s] EXCEPT !.pc = pc]
  <1>1. turn[s] \in TurnType
    BY DEF HostTypes, TypeOK
  <1>2. TurnFits(s, u) /\ u.pc = pc
    BY <1>1 DEF TurnFits, TurnType, HostTypes, OwnInv
  <1>3. turn' = [turn EXCEPT ![s] = u]
    BY <1>1 DEF Goto, TurnType, HostTypes, TypeOK
  <1>4. QED
    BY <1>2, <1>3

\* Inputs that only write the record and go on to save it.
LEMMA PlainInputTypes ==
    ASSUME HostTypes, NEW s \in Sessions, NEW f \in FactsType, Own(s, f), Writes(s, f),
           Goto(s, "save"), OthersTyped'
    PROVE  HostTypes'
  <1>1. PICK u : TurnFits(s, u) /\ turn' = [turn EXCEPT ![s] = u] /\ u.pc = "save"
    BY GotoFits DEF Submitting
  <1>2. u.pc \in {"idle", "act", "record"} => live'[s] = saved'[s]
    BY <1>1
  <1>3. QED
    BY <1>1, <1>2, SessionStep

\* A record the current turn may write, with other plans.
LEMMA WithPlans ==
    ASSUME NEW s \in Sessions, NEW f \in FactsType, Own(s, f), NEW ps \in Seq(PlanEntries),
           Hashes(ps) \subseteq Planned(s)
    PROVE  /\ [f EXCEPT !.plans = ps] \in FactsType
           /\ Own(s, [f EXCEPT !.plans = ps])
           /\ Same(f, [f EXCEPT !.plans = ps])
  BY DEF FactsType, FormType, PlanEntries, Own, Same

\* The record of a new request.
LEMMA NewRequestIsGood ==
    ASSUME NEW s \in Sessions, NEW f \in FactsType, Own(s, f)
    PROVE  /\ NewRequest(f) \in FactsType /\ Own(s, NewRequest(f)) /\ Same(f, NewRequest(f))
  <1>1. <<>> \in Seq(PlanEntries) /\ Hashes(<<>>) = {}
    BY DEF Hashes
  <1>2. QED
    BY <1>1 DEF NewRequest, FactsType, FormType, PlanEntries, Own, Same

\* Writing a record that says the same of what was started.
LEMMA WritesSame ==
    ASSUME NEW s \in Sessions, NEW f, NEW g, Same(f, g), Writes(s, g)
    PROVE  Writes(s, f)
  BY DEF Writes, Same

\* The inputs that plan, change or show, without submitting: they write the session's record.
LEMMA PlanningWrites ==
    ASSUME HostTypes, NEW s \in Sessions,
           \/ Fill(s) \/ Revise(s) \/ Change(s) \/ New(s) \/ Summary(s) \/ Approve(s) \/ Model(s)
           \/ RetryForm(s)
    PROVE  Writes(s, saved[s]) /\ Goto(s, "save") /\ Outside
  <1> DEFINE f == saved[s]
  <1>1. f \in FactsType /\ Own(s, f)
    BY DEF HostTypes, TypeOK, OwnInv
  <1>2. Goto(s, "save") /\ Outside
    BY DEF Fill, Revise, Change, New, Summary, Approve, Model, RetryForm, Acts
  <1> SUFFICES Writes(s, f)
    BY <1>2
  <1>3. /\ <<>> \in Seq(PlanEntries) /\ {} \in SUBSET JobsOf(s) /\ Hashes(<<>>) = {}
        /\ {"request", "review_request", "review_retry"} \subseteq Gates
    BY DEF Hashes, Gates
  <1>4. CASE Keep(s, f) \/ Refused(s)
    BY <1>1, <1>4, KeepWrites DEF Refused
  <1>5. ASSUME NEW a \in BOOLEAN, Advance(s, [f EXCEPT !.asked = a, !.plans = <<>>])
        PROVE  Writes(s, f)
    <2> DEFINE g == [f EXCEPT !.asked = a, !.plans = <<>>]
    <2>1. g \in FactsType /\ Own(s, g) /\ Same(f, g)
      BY <1>1, <1>3 DEF FactsType, FormType, PlanEntries, Own, Same
    <2> HIDE DEF f, g
    <2>2. QED
      BY <1>5, <2>1, AdvanceWrites, WritesSame DEF g
  <1>6. CASE Advance(s, f)
    BY <1>1, <1>6, AdvanceWrites
  <1>7. CASE Fill(s)
    BY <1>4, <1>5, <1>7 DEF Fill
  <1>8. CASE Revise(s)
    <2>1. [f EXCEPT !.plans = <<>>] \in FactsType /\ Own(s, [f EXCEPT !.plans = <<>>])
          /\ Same(f, [f EXCEPT !.plans = <<>>])
      BY <1>1, <1>3, WithPlans
    <2>2. QED
      BY <1>4, <1>8, <2>1, AdvanceWrites, WritesSame DEF Revise
  <1>9. CASE Change(s)
    <2> DEFINE g == [f EXCEPT !.plans = <<>>]
    <2>1. g \in FactsType /\ Own(s, g) /\ Same(f, g)
      BY <1>1, <1>3, WithPlans
    <2>2. Closed(g) \in FactsType /\ Own(s, Closed(g)) /\ Same(f, Closed(g))
      BY <2>1, ClosedIsGood DEF Same
    <2>3. Show(s, Closed(g), "request", <<>>, {}) \/ Keep(s, Closed(g)) \/ Refused(s)
      BY <1>9 DEF Change
    <2> HIDE DEF f, g
    <2>4. QED
      BY <1>3, <1>4, <2>2, <2>3, ShowWrites, KeepWrites, WritesSame
  <1>10. CASE New(s)
    <2>1. NewRequest(f) \in FactsType /\ Own(s, NewRequest(f)) /\ Same(f, NewRequest(f))
      BY <1>1, NewRequestIsGood
    <2>2. /\ Closed(NewRequest(f)) \in FactsType /\ Own(s, Closed(NewRequest(f)))
          /\ Same(f, Closed(NewRequest(f)))
      BY <2>1, ClosedIsGood DEF Same
    <2>3. QED
      BY <1>10, <2>2, AdvanceWrites, WritesSame DEF New
  <1>11. CASE Summary(s)
    BY <1>1, <1>3, <1>11, ShowWrites DEF Summary
  <1>12. CASE Approve(s)
    BY <1>4, <1>6, <1>12 DEF Approve
  <1>13. CASE Model(s)
    <2>1. ASSUME NEW ps \in PlanLists[s], NEW i \in DOMAIN ps,
                 NEW q \in InOrder({k \in DOMAIN f.plans : Product[f.plans[k].hash] # Product[ps[i]]}),
                 Keep(s, [f EXCEPT !.plans = Append([k \in DOMAIN q |-> f.plans[q[k]]], Entry(ps[i]))])
          PROVE  Writes(s, f)
      <3> DEFINE S == {k \in DOMAIN f.plans : Product[f.plans[k].hash] # Product[ps[i]]}
                 rest == [k \in DOMAIN q |-> f.plans[q[k]]]
                 all == Append(rest, Entry(ps[i]))
      <3>1. /\ f.plans \in Seq(PlanEntries) /\ DOMAIN f.plans = 1 .. Len(f.plans)
            /\ Len(f.plans) \in Nat /\ \A k \in DOMAIN f.plans : f.plans[k].hash \in Planned(s)
            /\ \A k \in DOMAIN f.plans : f.plans[k] \in PlanEntries
        <4>1. f.plans \in Seq(PlanEntries)
          BY <1>1 DEF FactsType, PlanEntries
        <4>2. \A k \in DOMAIN f.plans : f.plans[k].hash \in Planned(s)
          BY <1>1 DEF Own, Hashes
        <4>3. QED
          BY <4>1, <4>2, ElementOfSeq
      <3>2. Cardinality(S) \in Nat /\ q \in [1 .. Cardinality(S) -> S]
        BY <2>1, <3>1, Enumerates
      <3>3. /\ rest \in [1 .. Cardinality(S) -> PlanEntries]
            /\ \A k \in DOMAIN rest : rest[k].hash \in Planned(s)
        BY <3>1, <3>2
      <3>4. rest \in Seq(PlanEntries) /\ Len(rest) \in Nat /\ DOMAIN rest = 1 .. Len(rest)
        <4> HIDE DEF rest, S
        <4>1. QED
          BY <3>2, <3>3
      <3>5. Entry(ps[i]) \in PlanEntries /\ Entry(ps[i]).hash \in Planned(s)
        BY PlannedArePlans DEF Entry, PlanEntries
      <3>6. all \in Seq(PlanEntries) /\ Hashes(all) \subseteq Planned(s)
        <4> HIDE DEF rest
        <4>1. all \in Seq(PlanEntries)
          BY <3>4, <3>5
        <4>2. \A k \in DOMAIN all : all[k].hash \in Planned(s)
          BY <3>3, <3>4, <3>5
        <4> HIDE DEF all
        <4>3. QED
          BY <4>1, <4>2 DEF Hashes
      <3>7. [f EXCEPT !.plans = all] \in FactsType /\ Own(s, [f EXCEPT !.plans = all])
            /\ Same(f, [f EXCEPT !.plans = all])
        BY <1>1, <3>6, WithPlans
      <3>8. QED
        BY <2>1, <3>7, KeepWrites, WritesSame
    <2>2. QED
      BY <1>4, <1>13, <2>1 DEF Model
  <1>14. CASE RetryForm(s)
    <2>1. RetryJobs(f) \in SUBSET JobsOf(s)
      BY <1>1 DEF RetryJobs, Own
    <2>2. QED
      BY <1>1, <1>3, <1>4, <1>6, <1>14, <2>1, ShowWrites DEF RetryForm
  <1>15. QED
    BY <1>2, <1>7, <1>8, <1>9, <1>10, <1>11, <1>12, <1>13, <1>14

\* A list of some of a session's jobs is work its turn may have.
LEMMA JobLists ==
    ASSUME NEW s \in Sessions, NEW S \in SUBSET JobsOf(s), NEW order \in [1 .. Cardinality(S) -> S]
    PROVE  /\ order \in Seq(Jobs) /\ DOMAIN order = 1 .. Cardinality(S)
           /\ \A i \in DOMAIN order : order[i] \in JobsOf(s) /\ order[i] \in S
  <1>1. S \in SUBSET Jobs /\ Cardinality(S) \in Nat
    BY Sizes DEF JobsOf
  <1>2. order \in [1 .. Cardinality(S) -> Jobs]
    BY <1>1
  <1>3. QED
    BY <1>1, <1>2

\* The plans Run takes, with the session and no retry, are jobs of the session.
LEMMA RunLists ==
    ASSUME NEW s \in Sessions, NEW f \in FactsType, Own(s, f), NEW q \in InOrder(Unstarted(f.plans))
    PROVE  LET todo == [i \in DOMAIN q |-> <<s, f.plans[q[i]].hash, 0>>] IN
           /\ todo \in Seq(Jobs)
           /\ \A i \in DOMAIN todo : /\ todo[i] \in JobsOf(s) /\ todo[i][3] = 0
                                     /\ todo[i][2] \in Hashes(f.plans)
  <1> DEFINE S == Unstarted(f.plans)
             todo == [i \in DOMAIN q |-> <<s, f.plans[q[i]].hash, 0>>]
  <1>1. /\ f.plans \in Seq(PlanEntries) /\ Len(f.plans) \in Nat
        /\ S \in SUBSET (1 .. Len(f.plans)) /\ S \subseteq DOMAIN f.plans
    BY DEF FactsType, PlanEntries, Unstarted
  <1>2. Cardinality(S) \in Nat /\ q \in [1 .. Cardinality(S) -> S]
    BY <1>1, Enumerates
  <1>3. \A i \in DOMAIN f.plans : /\ f.plans[i].hash \in Hashes(f.plans)
                                  /\ f.plans[i].hash \in Planned(s)
    BY DEF Hashes, Own
  <1>4. 0 \in 0 .. RetryLimit
    BY HostAssumption DEF HostAssumption
  <1>5. ASSUME NEW i \in DOMAIN q
        PROVE  /\ todo[i] \in JobsOf(s) /\ todo[i][3] = 0 /\ todo[i][2] \in Hashes(f.plans)
    <2>1. q[i] \in DOMAIN f.plans
      BY <1>1, <1>2
    <2>2. f.plans[q[i]].hash \in Planned(s) /\ f.plans[q[i]].hash \in Plans
          /\ f.plans[q[i]].hash \in Hashes(f.plans)
      BY <1>3, <2>1, PlannedArePlans
    <2>3. todo[i] = <<s, f.plans[q[i]].hash, 0>>
      OBVIOUS
    <2> HIDE DEF todo
    <2>4. QED
      BY <1>4, <2>2, <2>3 DEF JobsOf, Jobs
  <1>6. todo \in [1 .. Cardinality(S) -> Jobs]
    BY <1>2, <1>5 DEF JobsOf
  <1>7. DOMAIN todo = DOMAIN q
    OBVIOUS
  <1> HIDE DEF todo, S
  <1>8. todo \in Seq(Jobs)
    BY <1>2, <1>6
  <1>9. QED
    BY <1>5, <1>7, <1>8 DEF todo

\* A retry of a job that has retries left is a job of the same session.
LEMMA RetryIsJob ==
    ASSUME NEW s \in Sessions, NEW f \in FactsType, Own(s, f), NEW j \in RetryJobs(f)
    PROVE  /\ j \in JobsOf(s) /\ Retry(j) \in JobsOf(s)
           /\ Retry(j)[3] > 0 /\ Parent(Retry(j)) = j
  <1>1. j \in JobsOf(s) /\ j[3] < RetryLimit
    BY DEF RetryJobs, Own
  <1>2. PICK t \in Sessions, p \in Plans, n \in 0 .. RetryLimit : j = <<t, p, n>>
    BY <1>1 DEF JobsOf, Jobs
  <1>3. n + 1 \in 0 .. RetryLimit /\ n + 1 > 0 /\ (n + 1) - 1 = n
    BY <1>1, <1>2, HostAssumption DEF HostAssumption
  <1>4. Retry(j) = <<t, p, n + 1>> /\ Parent(Retry(j)) = <<t, p, (n + 1) - 1>>
    BY <1>2 DEF Retry, Parent
  <1>5. <<t, p, n + 1>> \in Jobs /\ t = s /\ p \in Planned(s)
    BY <1>1, <1>2, <1>3 DEF Jobs, JobsOf
  <1>6. QED
    BY <1>1, <1>2, <1>3, <1>4, <1>5 DEF JobsOf

LEMMA RetryLists ==
    ASSUME NEW s \in Sessions, NEW f \in FactsType, Own(s, f),
           NEW order \in [1 .. Cardinality(RetryJobs(f)) -> RetryJobs(f)]
    PROVE  LET todo == [i \in DOMAIN order |-> Retry(order[i])] IN
           /\ todo \in Seq(Jobs)
           /\ \A i \in DOMAIN todo : /\ todo[i] \in JobsOf(s) /\ todo[i][3] > 0
                                     /\ Parent(todo[i]) \in RetryJobs(f)
  <1> DEFINE todo == [i \in DOMAIN order |-> Retry(order[i])]
             n == Cardinality(RetryJobs(f))
  <1>1. RetryJobs(f) \in SUBSET JobsOf(s)
    BY RetryIsJob
  <1>2. RetryJobs(f) \in SUBSET Jobs /\ n \in Nat
    BY <1>1, Sizes DEF JobsOf
  <1>3. ASSUME NEW i \in DOMAIN order
        PROVE  todo[i] \in JobsOf(s) /\ todo[i][3] > 0 /\ Parent(todo[i]) \in RetryJobs(f)
    BY RetryIsJob
  <1>4. todo \in [1 .. n -> Jobs] /\ DOMAIN todo = DOMAIN order
    BY <1>3 DEF JobsOf
  <1> HIDE DEF todo, n
  <1>5. todo \in Seq(Jobs)
    BY <1>2, <1>4
  <1>6. QED
    BY <1>3, <1>4, <1>5 DEF todo

\* The form of a restored record gets a revision of its own.
LEMMA Restored ==
    ASSUME NEW f \in FactsType, NEW a, NEW b, NEW c, NEW d, NEW r
    PROVE  [f EXCEPT !.finished = a, !.failed = b, !.retries = c, !.rev = d, !.form.rev = r]
             = [f EXCEPT !.finished = a, !.failed = b, !.retries = c, !.rev = d,
                         !.form = [f.form EXCEPT !.rev = r]]
  BY DEF FactsType

\* What Back writes: nothing, or an earlier record with what is known since then.
LEMMA BackWrites ==
    ASSUME HostTypes, NEW s \in Sessions, Back(s)
    PROVE  \/ Keep(s, saved[s])
           \/ /\ Len(snaps[s]) >= 2
              /\ \E g \in FactsType :
                    /\ Own(s, g) /\ Same(saved[s], g)
                    /\ live' = [live EXCEPT ![s] = g] /\ saved' = [saved EXCEPT ![s] = g]
                    /\ snaps' = [snaps EXCEPT ![s] = SubSeq(@, 1, Len(snaps[s]) - 1)]
  <1> DEFINE n == Len(snaps[s])
             f == snaps[s][n - 1]
             rev == IF f.form = NoForm THEN 0 ELSE saved[s].rev + 1
             form == [f.form EXCEPT !.rev = rev]
             g == [f EXCEPT !.finished = saved[s].finished, !.failed = saved[s].failed,
                            !.retries = saved[s].retries, !.rev = saved[s].rev + 1,
                            !.form.rev = IF f.form = NoForm THEN 0 ELSE saved[s].rev + 1]
  <1>1. /\ snaps[s] \in Seq(FactsType) /\ n \in Nat /\ saved[s] \in FactsType /\ Own(s, saved[s])
        /\ \A i \in DOMAIN snaps[s] : Own(s, snaps[s][i])
    BY DEF HostTypes, TypeOK, OwnInv
  <1>2. CASE n < 2 \/ Crosses(f, saved[s])
    BY <1>2 DEF Back
  <1>3. CASE ~(n < 2 \/ Crosses(f, saved[s]))
    <2>1. f \in FactsType /\ Own(s, f) /\ f.started = saved[s].started
      <3>1. n - 1 \in 1 .. n /\ DOMAIN snaps[s] = 1 .. n
        BY <1>1, <1>3
      <3>2. QED
        BY <1>1, <1>3, <3>1, ElementOfSeq DEF Crosses
    <2>2. rev \in Nat /\ saved[s].rev + 1 \in Nat /\ form \in FormType
      <3>1. saved[s].rev + 1 \in Nat /\ rev \in Nat
        BY <1>1 DEF FactsType
      <3>2. f.form \in FormType
        BY <2>1 DEF FactsType
      <3> HIDE DEF f, rev
      <3>3. form \in FormType
        BY <3>1, <3>2 DEF FormType
      <3>4. QED
        BY <3>1, <3>3
    <2>3. g = [f EXCEPT !.finished = saved[s].finished, !.failed = saved[s].failed,
                        !.retries = saved[s].retries, !.rev = saved[s].rev + 1, !.form = form]
      BY <2>1, Restored
    <2>4. form.plans = f.form.plans /\ form.jobs = f.form.jobs
      BY <2>1 DEF FactsType, FormType
    <2>5. /\ live' = [live EXCEPT ![s] = g] /\ saved' = [saved EXCEPT ![s] = g]
          /\ snaps' = [snaps EXCEPT ![s] = SubSeq(@, 1, n - 1)]
      BY <1>3 DEF Back
    <2> HIDE DEF f, form, rev, g
    <2>6. g \in FactsType
      BY <1>1, <2>1, <2>2, <2>3 DEF FactsType
    <2>7. /\ g.plans = f.plans /\ g.form = form /\ g.jobs = f.jobs /\ g.failed = saved[s].failed
          /\ g.started = f.started /\ g.retries = saved[s].retries
      BY <1>1, <2>1, <2>2, <2>3 DEF FactsType
    <2>8. Own(s, g) /\ Same(saved[s], g)
      BY <1>1, <2>1, <2>4, <2>7 DEF Own, Same
    <2>9. n >= 2
      BY <1>1, <1>3
    <2>10. \E h \in FactsType :
              /\ Own(s, h) /\ Same(saved[s], h)
              /\ live' = [live EXCEPT ![s] = h] /\ saved' = [saved EXCEPT ![s] = h]
              /\ snaps' = [snaps EXCEPT ![s] = SubSeq(@, 1, n - 1)]
      BY <2>5, <2>6, <2>8
    <2>11. QED
      BY <2>9, <2>10
  <1>4. QED
    BY <1>2, <1>3

\* Going back keeps the types.
LEMMA BackTypes ==
    ASSUME HostTypes, NEW s \in Sessions, Back(s), OthersTyped'
    PROVE  HostTypes'
  <1>1. saved[s] \in FactsType /\ Own(s, saved[s]) /\ live[s] = saved[s]
    BY DEF HostTypes, TypeOK, OwnInv, NothingUnsaved, Back, Acts
  <1>2. PICK u : TurnFits(s, u) /\ turn' = [turn EXCEPT ![s] = u] /\ u.pc = "record"
    BY GotoFits DEF Submitting, Back
  <1>3. CASE Keep(s, saved[s])
    <2>1. Writes(s, saved[s]) /\ live'[s] = saved'[s]
      BY <1>1, <1>3, KeepWrites DEF Keep, HostTypes, TypeOK
    <2>2. QED
      BY <1>1, <1>2, <2>1, SessionStep
  <1>4. ASSUME NEW g \in FactsType, Own(s, g), Len(snaps[s]) >= 2,
               live' = [live EXCEPT ![s] = g], saved' = [saved EXCEPT ![s] = g],
               snaps' = [snaps EXCEPT ![s] = SubSeq(@, 1, Len(snaps[s]) - 1)]
        PROVE  HostTypes'
    <2> DEFINE shorter == SubSeq(snaps[s], 1, Len(snaps[s]) - 1)
    <2>1. /\ shorter \in Seq(FactsType)
          /\ \A i \in DOMAIN shorter : Own(s, shorter[i])
      <3>1. snaps[s] \in Seq(FactsType) /\ Len(snaps[s]) \in Nat
            /\ \A i \in DOMAIN snaps[s] : Own(s, snaps[s][i])
        BY DEF HostTypes, TypeOK, OwnInv
      <3>2. Len(snaps[s]) - 1 \in 1 .. Len(snaps[s])
        BY <1>4, <3>1
      <3>3. QED
        BY <3>1, <3>2
    <2> HIDE DEF shorter
    <2>2. /\ snaps' \in [Sessions -> Seq(FactsType)]
          /\ \A t \in Sessions : \A i \in DOMAIN snaps'[t] : Own(t, snaps'[t][i])
      BY <1>4, <2>1 DEF HostTypes, TypeOK, OwnInv, shorter
    <2>3. /\ saved' \in [Sessions -> FactsType] /\ live' \in [Sessions -> FactsType]
          /\ \A t \in Sessions : Own(t, saved'[t]) /\ Own(t, live'[t])
          /\ \A t \in Sessions \ {s} : saved'[t] = saved[t] /\ live'[t] = live[t]
          /\ saved'[s] = live'[s]
      BY <1>4 DEF HostTypes, TypeOK, OwnInv
    <2>4. /\ turn' \in [Sessions -> TurnType] /\ \A t \in Sessions : TurnFits(t, turn'[t])
          /\ \A t \in Sessions \ {s} : turn'[t] = turn[t]
      BY <1>2 DEF HostTypes, TypeOK, OwnInv, TurnFits
    <2>5. NothingUnsaved'
      BY <2>3, <2>4 DEF HostTypes, NothingUnsaved
    <2>6. QED
      BY <2>2, <2>3, <2>4, <2>5 DEF HostTypes, TypeOK, OwnInv, OthersTyped
  <1>5. QED
    BY <1>3, <1>4, BackWrites

\* A turn whose record is only read or kept, and what is left of its work.
LEMMA QuietTypes ==
    ASSUME HostTypes, NEW s \in Sessions, OthersTyped', NEW f \in FactsType, Own(s, f),
           Writes(s, f) \/ UNCHANGED request,
           NEW pc \in {"next", "ask", "submit", "settle", "failed", "inspect", "save"},
           NEW todo \in Seq(Jobs), \A i \in DOMAIN todo : todo[i] \in JobsOf(s),
           pc \in Submitting => todo # <<>>,
           turn' = [turn EXCEPT ![s].pc = pc, ![s].todo = todo]
    PROVE  HostTypes'
  <1> DEFINE u == [turn[s] EXCEPT !.pc = pc, !.todo = todo]
  <1>1. turn \in [Sessions -> TurnType]
    BY DEF HostTypes, TypeOK
  <1>2. turn' = [turn EXCEPT ![s] = u]
    BY <1>1 DEF TurnType
  <1>3. u \in TurnType /\ u.pc = pc /\ u.todo = todo
    BY <1>1 DEF TurnType
  <1> HIDE DEF u
  <1>4. TurnFits(s, u)
    BY <1>3 DEF TurnFits
  <1>5. u.pc \in {"idle", "act", "record"} => live'[s] = saved'[s]
    BY <1>3
  <1>6. QED
    BY <1>2, <1>4, <1>5, SessionStep

\* Refusing an input writes the saved record.
LEMMA RefusedWrites ==
    ASSUME HostTypes, NEW s \in Sessions, Refused(s)
    PROVE  Writes(s, saved[s])
  BY KeepWrites DEF Refused, HostTypes, TypeOK, OwnInv

\* What the three inputs that begin a loop write and where they go: on with a list of jobs of
\* the session, or to the end of the turn.
LEMMA LoopInputs ==
    ASSUME HostTypes, NEW s \in Sessions, Run(s) \/ RetryRun(s) \/ Check(s)
    PROVE  /\ Writes(s, saved[s]) /\ Outside
           /\ \/ Goto(s, "save")
              \/ \E pc \in {"next", "inspect"} : \E todo \in Seq(Jobs) :
                    /\ \A i \in DOMAIN todo : todo[i] \in JobsOf(s)
                    /\ turn' = [turn EXCEPT ![s].pc = pc, ![s].todo = todo]
  <1> DEFINE f == saved[s]
  <1>1. f \in FactsType /\ Own(s, f)
    BY DEF HostTypes, TypeOK, OwnInv
  <1>2. CASE Run(s)
    <2>1. ~OnReview(s) \/ ~ShowsCurrentPlans(f) => Writes(s, f) /\ Goto(s, "save")
      BY <1>1, <1>2, RefusedWrites, AdvanceWrites DEF Run
    <2>2. ASSUME OnReview(s), ShowsCurrentPlans(f)
          PROVE  /\ Writes(s, f)
                 /\ \E todo \in Seq(Jobs) :
                       /\ \A i \in DOMAIN todo : todo[i] \in JobsOf(s)
                       /\ turn' = [turn EXCEPT ![s].pc = "next", ![s].todo = todo]
      <3>1. /\ Refused(s)
            /\ \E q \in InOrder(Unstarted(f.plans)) :
                  turn' = [turn EXCEPT ![s].pc = "next",
                               ![s].todo = [i \in DOMAIN q |-> <<s, f.plans[q[i]].hash, 0>>]]
        BY <1>2, <2>2 DEF Run
      <3>2. PICK q \in InOrder(Unstarted(f.plans)) :
                  turn' = [turn EXCEPT ![s].pc = "next",
                               ![s].todo = [i \in DOMAIN q |-> <<s, f.plans[q[i]].hash, 0>>]]
        BY <3>1
      <3> DEFINE todo == [i \in DOMAIN q |-> <<s, f.plans[q[i]].hash, 0>>]
      <3>3. todo \in Seq(Jobs) /\ \A i \in DOMAIN todo : todo[i] \in JobsOf(s)
        BY <1>1, RunLists
      <3>4. turn' = [turn EXCEPT ![s].pc = "next", ![s].todo = todo]
        BY <3>2
      <3> HIDE DEF todo
      <3>5. QED
        BY <3>1, <3>3, <3>4, RefusedWrites
    <2>3. QED
      BY <1>2, <2>1, <2>2 DEF Run, Acts
  <1>3. CASE RetryRun(s)
    <2>1. RetryJobs(f) \in SUBSET JobsOf(s) /\ <<>> \in Seq(PlanEntries) /\ "review_retry" \in Gates
          /\ Hashes(<<>>) = {}
      BY <1>1, RetryIsJob DEF Gates, Hashes
    <2>2. \/ Writes(s, f) /\ Goto(s, "save")
          \/ /\ Writes(s, f)
             /\ \E order \in [1 .. Cardinality(RetryJobs(f)) -> RetryJobs(f)] :
                   turn' = [turn EXCEPT ![s].pc = "next",
                                ![s].todo = [i \in DOMAIN order |-> Retry(order[i])]]
      <3>1. Show(s, f, "review_retry", <<>>, RetryJobs(f)) => Writes(s, f)
        BY <1>1, <2>1, ShowWrites
      <3>2. Refused(s) => Writes(s, f)
        BY RefusedWrites
      <3>3. QED
        BY <1>3, <3>1, <3>2 DEF RetryRun
    <2>3. ASSUME NEW order \in [1 .. Cardinality(RetryJobs(f)) -> RetryJobs(f)],
                 turn' = [turn EXCEPT ![s].pc = "next",
                                ![s].todo = [i \in DOMAIN order |-> Retry(order[i])]]
          PROVE  \E todo \in Seq(Jobs) :
                    /\ \A i \in DOMAIN todo : todo[i] \in JobsOf(s)
                    /\ turn' = [turn EXCEPT ![s].pc = "next", ![s].todo = todo]
      <3> DEFINE todo == [i \in DOMAIN order |-> Retry(order[i])]
      <3>1. todo \in Seq(Jobs) /\ \A i \in DOMAIN todo : todo[i] \in JobsOf(s)
        BY <1>1, RetryLists
      <3>2. turn' = [turn EXCEPT ![s].pc = "next", ![s].todo = todo]
        BY <2>3
      <3> HIDE DEF todo
      <3>3. QED
        BY <3>1, <3>2
    <2>4. Outside
      BY <1>3 DEF RetryRun, Acts
    <2>5. QED
      BY <2>2, <2>3, <2>4
  <1>4. CASE Check(s)
    <2>1. Pending(f) \in SUBSET JobsOf(s)
      BY <1>1 DEF Pending, Own
    <2>2. \/ Goto(s, "save")
          \/ \E order \in [1 .. Cardinality(Pending(f)) -> Pending(f)] :
                turn' = [turn EXCEPT ![s].pc = "inspect", ![s].todo = order]
      BY <1>4 DEF Check
    <2>3. \A order \in [1 .. Cardinality(Pending(f)) -> Pending(f)] :
             order \in Seq(Jobs) /\ \A i \in DOMAIN order : order[i] \in JobsOf(s)
      BY <2>1, JobLists
    <2>4. Writes(s, f) /\ Outside
      BY <1>4, RefusedWrites DEF Check, Acts
    <2>5. QED
      BY <2>2, <2>3, <2>4
  <1>5. QED
    BY <1>2, <1>3, <1>4

\* The inputs that begin a loop keep the types.
LEMMA LoopInputTypes ==
    ASSUME HostTypes, NEW s \in Sessions, Run(s) \/ RetryRun(s) \/ Check(s), OthersTyped'
    PROVE  HostTypes'
  <1>1. saved[s] \in FactsType /\ Own(s, saved[s])
    BY DEF HostTypes, TypeOK, OwnInv
  <1>2. CASE Goto(s, "save")
    BY <1>1, <1>2, LoopInputs, PlainInputTypes
  <1>3. ASSUME NEW pc \in {"next", "inspect"}, NEW todo \in Seq(Jobs),
               \A i \in DOMAIN todo : todo[i] \in JobsOf(s),
               turn' = [turn EXCEPT ![s].pc = pc, ![s].todo = todo]
        PROVE  HostTypes'
    <2>1. /\ pc \in Submitting => todo # <<>>
          /\ pc \in {"next", "ask", "submit", "settle", "failed", "inspect", "save"}
      BY DEF Submitting
    <2>2. Writes(s, saved[s])
      BY LoopInputs
    <2>3. QED
      BY <1>1, <1>3, <2>1, <2>2, QuietTypes
  <1>4. QED
    BY <1>2, <1>3, LoopInputs

\* The job at the head of the list of a turn, and what is left of the list.
LEMMA HeadFits ==
    ASSUME HostTypes, NEW s \in Sessions, turn[s].todo # <<>>
    PROVE  /\ Job(s) \in JobsOf(s) /\ Job(s) = turn[s].todo[1] /\ Hash(s) \in Planned(s)
           /\ 1 \in DOMAIN turn[s].todo
           /\ Tail(turn[s].todo) \in Seq(Jobs)
           /\ \A i \in DOMAIN Tail(turn[s].todo) :
                 /\ i + 1 \in DOMAIN turn[s].todo
                 /\ Tail(turn[s].todo)[i] = turn[s].todo[i + 1]
                 /\ Tail(turn[s].todo)[i] \in JobsOf(s)
  <1>1. turn[s].todo \in Seq(Jobs) /\ \A i \in DOMAIN turn[s].todo : turn[s].todo[i] \in JobsOf(s)
    BY DEF HostTypes, TypeOK, OwnInv, TurnFits, TurnType
  <1> DEFINE todo == turn[s].todo
  <1>2. Len(todo) \in Nat /\ Len(todo) > 0 /\ DOMAIN todo = 1 .. Len(todo)
    BY <1>1
  <1>3. Tail(todo) \in Seq(Jobs) /\ DOMAIN Tail(todo) = 1 .. (Len(todo) - 1)
        /\ \A i \in 1 .. (Len(todo) - 1) : Tail(todo)[i] = todo[i + 1] /\ i + 1 \in 1 .. Len(todo)
    BY <1>1, <1>2
  <1>4. Job(s) = todo[1] /\ 1 \in DOMAIN todo
    BY <1>1, <1>2 DEF Job
  <1> HIDE DEF todo
  <1>5. Job(s) \in JobsOf(s)
    BY <1>1, <1>4 DEF todo
  <1>6. Hash(s) \in Planned(s)
    BY <1>5 DEF Hash, JobsOf
  <1>7. QED
    BY <1>1, <1>2, <1>3, <1>4, <1>5, <1>6 DEF todo

\* A step of a turn's loop that goes on with the rest of the list.
LEMMA TailTypes ==
    ASSUME HostTypes, NEW s \in Sessions, OthersTyped', NEW f \in FactsType, Own(s, f), Writes(s, f),
           turn[s].todo # <<>>, NEW pc \in {"next", "inspect"},
           \/ turn' = [turn EXCEPT ![s].pc = pc, ![s].todo = Tail(@)]
           \/ turn' = [turn EXCEPT ![s].todo = Tail(@)] /\ pc = turn[s].pc
    PROVE  HostTypes'
  <1> DEFINE todo == Tail(turn[s].todo)
  <1>1. turn \in [Sessions -> TurnType]
    BY DEF HostTypes, TypeOK
  <1>2. turn' = [turn EXCEPT ![s].pc = pc, ![s].todo = todo]
    <2>1. CASE turn' = [turn EXCEPT ![s].pc = pc, ![s].todo = Tail(@)]
      BY <1>1, <2>1 DEF TurnType
    <2>2. CASE turn' = [turn EXCEPT ![s].todo = Tail(@)] /\ pc = turn[s].pc
      BY <1>1, <2>2 DEF TurnType
    <2>3. QED
      BY <2>1, <2>2
  <1>3. todo \in Seq(Jobs) /\ \A i \in DOMAIN todo : todo[i] \in JobsOf(s)
    BY HeadFits
  <1>4. /\ pc \in Submitting => todo # <<>>
        /\ pc \in {"next", "ask", "submit", "settle", "failed", "inspect", "save"}
    BY DEF Submitting
  <1> HIDE DEF todo
  <1>5. QED
    BY <1>2, <1>3, <1>4, QuietTypes

\* What is recorded of a job of the session is a record of the session.
LEMMA RecordedIsGood ==
    ASSUME NEW s \in Sessions, NEW f \in FactsType, Own(s, f), NEW j \in JobsOf(s)
    PROVE  /\ Recorded(f, j) \in FactsType /\ Own(s, Recorded(f, j))
           /\ f.started \subseteq Recorded(f, j).started /\ f.retries \subseteq Recorded(f, j).retries
           /\ IF j[3] = 0 THEN j[2] \in Recorded(f, j).started ELSE j \in Recorded(f, j).retries
  <1> DEFINE ps == [i \in DOMAIN f.plans |->
                       IF f.plans[i].hash = j[2] THEN [f.plans[i] EXCEPT !.job = TRUE] ELSE f.plans[i]]
  <1>1. /\ j \in Jobs /\ j[2] \in Plans
        /\ f.plans \in Seq(PlanEntries) /\ Len(f.plans) \in Nat /\ DOMAIN f.plans = 1 .. Len(f.plans)
        /\ \A i \in DOMAIN f.plans : f.plans[i] \in PlanEntries
    <2>1. f.plans \in Seq(PlanEntries)
      BY DEF FactsType, PlanEntries
    <2>2. QED
      BY <2>1, ElementOfSeq DEF JobsOf, Jobs
  <1>2. \A i \in DOMAIN f.plans : ps[i] \in PlanEntries /\ ps[i].hash = f.plans[i].hash
    BY <1>1 DEF PlanEntries
  <1>3. ps \in [1 .. Len(f.plans) -> PlanEntries] /\ DOMAIN ps = DOMAIN f.plans
    BY <1>1, <1>2
  <1>4. Hashes(ps) \subseteq Hashes(f.plans)
    BY <1>2, <1>3 DEF Hashes
  <1> HIDE DEF ps
  <1>5. ps \in Seq(PlanEntries)
    BY <1>1, <1>3
  <1>6. CASE j[3] = 0
    <2>1. Recorded(f, j) = [f EXCEPT !.jobs = f.jobs \cup {j}, !.started = f.started \cup {j[2]}, !.plans = ps]
      BY <1>6 DEF Recorded, ps, FactsType
    <2>2. f.jobs \cup {j} \subseteq Jobs /\ f.started \cup {j[2]} \subseteq Plans
      BY <1>1 DEF FactsType
    <2>3. Recorded(f, j) \in FactsType
      BY <1>5, <2>1, <2>2 DEF FactsType, PlanEntries
    <2>4. /\ Recorded(f, j).plans = ps /\ Recorded(f, j).form = f.form
          /\ Recorded(f, j).jobs = f.jobs \cup {j} /\ Recorded(f, j).failed = f.failed
          /\ Recorded(f, j).started = f.started \cup {j[2]} /\ Recorded(f, j).retries = f.retries
      BY <2>1 DEF FactsType
    <2>5. QED
      BY <1>4, <1>6, <2>3, <2>4 DEF Own
  <1>7. CASE j[3] # 0
    <2>1. Recorded(f, j) = [f EXCEPT !.jobs = f.jobs \cup {j}, !.retries = f.retries \cup {j}]
      BY <1>7 DEF Recorded, FactsType
    <2>2. f.jobs \cup {j} \subseteq Jobs /\ f.retries \cup {j} \subseteq Jobs
      BY <1>1 DEF FactsType
    <2>3. Recorded(f, j) \in FactsType
      BY <2>1, <2>2 DEF FactsType
    <2>4. /\ Recorded(f, j).plans = f.plans /\ Recorded(f, j).form = f.form
          /\ Recorded(f, j).jobs = f.jobs \cup {j} /\ Recorded(f, j).failed = f.failed
          /\ Recorded(f, j).started = f.started /\ Recorded(f, j).retries = f.retries \cup {j}
      BY <2>1 DEF FactsType
    <2>5. QED
      BY <1>7, <2>3, <2>4 DEF Own
  <1>8. QED
    BY <1>6, <1>7

\* In a loop only a settled submission adds to what the session remembers.
LEMMA LoopWrites ==
    ASSUME HostTypes, NEW s \in Sessions,
           \/ Approves(s) \/ Confirm(s) \/ Submit(s) \/ Fails(s) \/ Submitted(s)
           \/ Inspect(s) \/ JobsDone(s) \/ Record(s)
    PROVE  UNCHANGED request \/ Writes(s, live[s])
  <1> DEFINE f == live[s]
  <1>1. f \in FactsType /\ Own(s, f)
    BY DEF HostTypes, TypeOK, OwnInv
  <1>2. CASE Approves(s) \/ Confirm(s) \/ Submit(s) \/ Record(s)
    BY <1>2 DEF Approves, Confirm, Submit, Record
  <1>3. CASE Fails(s)
    BY <1>1, <1>3, KeepWrites, AdvanceWrites DEF Fails
  <1>4. CASE Submitted(s)
    <2>1. Closed(f) \in FactsType /\ Own(s, Closed(f)) /\ Same(f, Closed(f))
      BY <1>1, ClosedIsGood
    <2>2. QED
      BY <1>4, <2>1, KeepWrites, WritesSame DEF Submitted
  <1>5. CASE Inspect(s)
    <2>1. Job(s) \in JobsOf(s) /\ Job(s) \in Jobs
      BY <1>5, HeadFits DEF Inspect, JobsOf
    <2> DEFINE fs == IF jobs[Job(s)] = "failed" THEN f.failed \cup {Job(s)} ELSE f.failed
               g == [f EXCEPT !.finished = f.finished \cup {Job(s)}, !.failed = fs]
    <2>2. fs \in SUBSET Jobs /\ fs \subseteq JobsOf(s) /\ f.finished \cup {Job(s)} \in SUBSET Jobs
      BY <1>1, <2>1 DEF FactsType, Own
    <2>3. Keep(s, f) \/ Keep(s, g)
      BY <1>1, <1>5 DEF Inspect, FactsType
    <2> HIDE DEF fs
    <2>4. g \in FactsType /\ Own(s, g) /\ Same(f, g)
      BY <1>1, <2>2 DEF FactsType, Own, Same
    <2> HIDE DEF g
    <2>5. QED
      BY <1>1, <2>3, <2>4, KeepWrites, WritesSame
  <1>6. CASE JobsDone(s)
    <2> DEFINE g == [f EXCEPT !.stage = "results"]
    <2>1. g \in FactsType /\ Own(s, g) /\ Same(f, g)
      BY <1>1 DEF FactsType, Own, Same
    <2>2. Closed(g) \in FactsType /\ Own(s, Closed(g)) /\ Same(f, Closed(g))
      BY <2>1, ClosedIsGood DEF Same
    <2>3. Advance(s, Closed(g)) \/ Keep(s, f)
      BY <1>6 DEF JobsDone
    <2> HIDE DEF g
    <2>4. QED
      BY <1>1, <2>2, <2>3, KeepWrites, AdvanceWrites, WritesSame
  <1>7. QED
    BY <1>2, <1>3, <1>4, <1>5, <1>6

\* The steps of the loops keep the types.
LEMMA LoopTypes ==
    ASSUME HostTypes, NEW s \in Sessions, Loop(s), OthersTyped'
    PROVE  HostTypes'
  <1>1. /\ live[s] \in FactsType /\ Own(s, live[s])
        /\ saved[s] \in FactsType /\ Own(s, saved[s])
        /\ turn[s].pc \in Submitting => turn[s].todo # <<>>
    BY DEF HostTypes, TypeOK, OwnInv, TurnFits
  <1>2. CASE Approves(s) \/ Confirm(s) \/ Submit(s)
    <2>1. PICK pc \in {"save", "ask", "submit", "settle", "failed"} : Goto(s, pc)
      BY <1>2 DEF Approves, Confirm, Submit
    <2>2. turn[s].todo # <<>>
      BY <1>1, <1>2 DEF Approves, Confirm, Submit, Submitting
    <2>3. PICK u : TurnFits(s, u) /\ turn' = [turn EXCEPT ![s] = u] /\ u.pc = pc
      BY <2>1, <2>2, GotoFits
    <2>4. u.pc \in {"idle", "act", "record"} => live'[s] = saved'[s]
      BY <2>1, <2>3
    <2>5. UNCHANGED request
      BY <1>2 DEF Approves, Confirm, Submit
    <2>6. QED
      BY <1>1, <2>3, <2>4, <2>5, SessionStep
  <1>3. CASE Settle(s)
    <2>1. turn[s].todo # <<>>
      BY <1>1, <1>3 DEF Settle, Submitting
    <2>2. Recorded(live[s], Job(s)) \in FactsType /\ Own(s, Recorded(live[s], Job(s)))
      BY <1>1, <2>1, HeadFits, RecordedIsGood
    <2>3. /\ Writes(s, Recorded(live[s], Job(s)))
          /\ turn' = [turn EXCEPT ![s].pc = "next", ![s].todo = Tail(@)]
      BY <1>3, <2>2, KeepWrites DEF Settle
    <2>4. QED
      BY <2>1, <2>2, <2>3, TailTypes
  <1>4. CASE Fails(s)
    <2>1. turn[s].todo # <<>>
      BY <1>1, <1>4 DEF Fails, Submitting
    <2>2. Writes(s, live[s])
      BY <1>1, <1>4, KeepWrites, AdvanceWrites DEF Fails
    <2>3. Goto(s, "save") \/ turn' = [turn EXCEPT ![s].pc = "next", ![s].todo = Tail(@)]
      BY <1>4 DEF Fails
    <2>4. QED
      BY <1>1, <2>1, <2>2, <2>3, TailTypes, PlainInputTypes
  <1>5. CASE Submitted(s) \/ JobsDone(s)
    <2>1. Goto(s, "save") /\ (UNCHANGED request \/ Writes(s, live[s]))
      BY <1>5, LoopWrites DEF Submitted, JobsDone
    <2>2. PICK u : TurnFits(s, u) /\ turn' = [turn EXCEPT ![s] = u] /\ u.pc = "save"
      BY <2>1, GotoFits DEF Submitting
    <2>3. u.pc \in {"idle", "act", "record"} => live'[s] = saved'[s]
      BY <2>2
    <2>4. QED
      BY <1>1, <2>1, <2>2, <2>3, SessionStep
  <1>6. CASE Inspect(s)
    <2>1. UNCHANGED request \/ Writes(s, live[s])
      BY <1>6, LoopWrites
    <2>2. Goto(s, "save") \/ (turn' = [turn EXCEPT ![s].todo = Tail(@)] /\ turn[s].pc = "inspect")
      BY <1>6 DEF Inspect
    <2>3. CASE Goto(s, "save")
      <3>1. PICK u : TurnFits(s, u) /\ turn' = [turn EXCEPT ![s] = u] /\ u.pc = "save"
        BY <2>3, GotoFits DEF Submitting
      <3>2. u.pc \in {"idle", "act", "record"} => live'[s] = saved'[s]
        BY <3>1
      <3>3. QED
        BY <1>1, <2>1, <3>1, <3>2, SessionStep
    <2>4. CASE turn' = [turn EXCEPT ![s].todo = Tail(@)] /\ turn[s].pc = "inspect"
      <3>1. turn[s].todo # <<>> /\ Writes(s, live[s])
        <4>1. Keep(s, live[s]) => Writes(s, live[s])
          BY <1>1, KeepWrites
        <4>2. \E g : Keep(s, g)
          BY <1>6 DEF Inspect
        <4>3. UNCHANGED request => Keep(s, live[s])
          BY <1>6, <4>2 DEF Keep, request, HostTypes, TypeOK
        <4>4. QED
          BY <1>6, <2>1, <4>1, <4>3 DEF Inspect
      <3>2. QED
        BY <1>1, <2>4, <3>1, TailTypes
    <2>5. QED
      BY <2>2, <2>3, <2>4
  <1>7. CASE Save(s)
    <2>1. PICK u : TurnFits(s, u) /\ turn' = [turn EXCEPT ![s] = u] /\ u.pc = "record"
      BY <1>7, GotoFits DEF Submitting, Save
    <2>2. saved' = [saved EXCEPT ![s] = live[s]] /\ UNCHANGED <<snaps, live>>
      BY <1>7 DEF Save
    <2>3. live'[s] = saved'[s]
      BY <2>2 DEF HostTypes, TypeOK
    <2>4. QED
      BY <1>1, <2>1, <2>2, <2>3, SessionStep
  <1>8. CASE Record(s)
    <2>1. Idle \in TurnType /\ TurnFits(s, Idle) /\ turn' = [turn EXCEPT ![s] = Idle]
      BY <1>8 DEF Record, Idle, TurnFits, TurnType, Submitting
    <2>2. UNCHANGED request /\ live'[s] = saved'[s]
      BY <1>8 DEF Record, request, HostTypes, NothingUnsaved
    <2>3. QED
      BY <1>1, <2>1, <2>2, SessionStep
  <1>9. QED
    BY <1>2, <1>3, <1>4, <1>5, <1>6, <1>7, <1>8 DEF Loop

\* What everything else is stays of its type.
LEMMA OthersStep ==
    ASSUME HostTypes, [Next]_vars
    PROVE  OthersTyped'
  <1> USE DEF HostTypes, TypeOK, OthersTyped
  <1>1. ASSUME NEW s \in Sessions, Input(s) PROVE OthersTyped'
    <2>1. Outside
      BY <1>1, PlanningWrites, LoopInputs DEF Input, Back, Acts
    <2>2. QED
      BY <2>1 DEF Outside
  <1>2. ASSUME NEW s \in Sessions, Loop(s) PROVE OthersTyped'
    <2>1. turn[s].todo # <<>> => Job(s) \in Jobs /\ Hash(s) \in Plans
      BY HeadFits, PlannedArePlans DEF JobsOf
    <2>2. turn[s].pc \in Submitting => turn[s].todo # <<>>
      BY DEF OwnInv, TurnFits
    <2>3. CASE Approves(s)
      BY <2>1, <2>3 DEF Approves, Elsewhere
    <2>4. CASE Confirm(s)
      BY <2>4 DEF Confirm, Elsewhere
    <2>5. CASE Submit(s)
      BY <2>1, <2>2, <2>5 DEF Submit, Elsewhere, Submitting
    <2>6. CASE Settle(s)
      BY <2>6 DEF Settle, Elsewhere
    <2>7. CASE Fails(s)
      BY <2>7 DEF Fails, Elsewhere
    <2>8. CASE Submitted(s) \/ Inspect(s) \/ JobsDone(s) \/ Save(s)
      BY <2>8 DEF Submitted, Inspect, JobsDone, Save, Elsewhere
    <2>9. CASE Record(s)
      BY <2>9 DEF Record, FactsType, FollowerType
    <2>10. QED
      BY <1>2, <2>3, <2>4, <2>5, <2>6, <2>7, <2>8, <2>9 DEF Loop
  <1>3. ASSUME NEW s \in Sessions, Ask(s) PROVE OthersTyped'
    <2>1. PICK kind \in Kinds \cap {"run", "retry"}, rev \in Revisions(s) :
             inbox' = inbox \cup {[s |-> s, kind |-> kind, rev |-> rev]}
      BY <1>3 DEF Ask
    <2>2. rev \in Nat
      BY <2>1 DEF Revisions, FactsType, FormType
    <2>3. QED
      BY <1>3, <2>1, <2>2 DEF Ask
  <1>4. ASSUME NEW s \in Sessions, Send(s) \/ Open(s) PROVE OthersTyped'
    BY <1>4 DEF Send, Open, Alone
  <1>5. CASE Queue
    BY <1>5 DEF Queue
  <1>6. CASE Following
    <2>1. CASE Wake \/ Rest
      <3>1. Asleep \in FollowerType
        BY DEF Asleep, FollowerType
      <3>2. \A W \in SUBSET Sessions :
               [follower EXCEPT !.pc = "next", !.todo = W] \in FollowerType
        BY DEF FollowerType
      <3>3. follower' \in FollowerType
        <4>1. {s \in following : ~Busy(s)} \in SUBSET Sessions
          OBVIOUS
        <4> HIDE DEF Asleep
        <4>2. QED
          BY <2>1, <3>1, <3>2, <4>1 DEF Wake, Rest
      <3>4. QED
        BY <2>1, <3>3 DEF Wake, Rest, Alone
    <2>2. CASE Load
      BY <2>2 DEF Load, Alone, FollowerType
    <2>3. CASE Decide
      BY <2>3 DEF Decide, Alone, FollowerType
    <2>4. QED
      BY <1>6, <2>1, <2>2, <2>3 DEF Following
  <1>7. CASE \E j \in Jobs : Finish(j)
    BY <1>7 DEF Finish
  <1>8. CASE Crash
    BY <1>8 DEF Crash, Asleep, FollowerType
  <1>9. CASE UNCHANGED vars
    BY <1>9 DEF vars, request
  <1>10. QED
    BY <1>1, <1>2, <1>3, <1>4, <1>5, <1>6, <1>7, <1>8, <1>9 DEF Next, Turn

\* A turn that begins.
LEMMA BeginsTyped ==
    /\ \A kind \in Kinds, rev \in Nat :
          [Idle EXCEPT !.pc = "act", !.kind = kind, !.rev = rev] \in TurnType
    /\ [Idle EXCEPT !.pc = "act", !.kind = "check"] \in TurnType
  <1>1. Idle \in TurnType
    BY DEF Idle, TurnType
  <1> HIDE DEF Idle
  <1>2. QED
    BY <1>1 DEF TurnType

\* Turns change only when their session is idle, except by their own steps.
LEMMA TurnBegins ==
    ASSUME HostTypes, [Next]_vars, ~ \E s \in Sessions : Turn(s)
    PROVE  \/ /\ UNCHANGED <<saved, snaps, live>>
              /\ turn' \in [Sessions -> TurnType]
              /\ \A s \in Sessions : \/ turn'[s] = turn[s]
                                     \/ /\ turn[s].pc = "idle" /\ turn'[s].pc = "act"
                                        /\ turn'[s].todo = <<>>
           \/ Crash
  <1> USE DEF HostTypes, TypeOK
  <1> DEFINE Begins == /\ UNCHANGED <<saved, snaps, live>>
                       /\ turn' \in [Sessions -> TurnType]
                       /\ \A s \in Sessions : \/ turn'[s] = turn[s]
                                              \/ /\ turn[s].pc = "idle" /\ turn'[s].pc = "act"
                                                 /\ turn'[s].todo = <<>>
  <1>1. CASE UNCHANGED <<request, turn>>
    BY <1>1 DEF request
  <1>2. ASSUME NEW s \in Sessions, Send(s) PROVE Begins
    <2>1. PICK kind \in Kinds, rev \in Nat :
             turn' = [turn EXCEPT ![s] = [Idle EXCEPT !.pc = "act", !.kind = kind, !.rev = rev]]
      BY <1>2 DEF Send, Revisions, FactsType, FormType
    <2>2. [Idle EXCEPT !.pc = "act", !.kind = kind, !.rev = rev] \in TurnType
      BY BeginsTyped
    <2>3. QED
      BY <1>2, <2>1, <2>2 DEF Send, Busy, Idle, request
  <1>3. CASE Queue
    <2>1. PICK r \in inbox :
             turn' = IF Busy(r.s) THEN turn
                     ELSE [turn EXCEPT ![r.s] = [Idle EXCEPT !.pc = "act", !.kind = r.kind, !.rev = r.rev]]
      BY <1>3 DEF Queue
    <2>2. r.s \in Sessions /\ r.kind \in Kinds /\ r.rev \in Nat
      BY DEF HostTypes
    <2>3. [Idle EXCEPT !.pc = "act", !.kind = r.kind, !.rev = r.rev] \in TurnType
      BY <2>2, BeginsTyped
    <2>4. QED
      BY <1>3, <2>1, <2>2, <2>3 DEF Queue, Busy, Idle, request
  <1>4. CASE Decide
    <2>1. [Idle EXCEPT !.pc = "act", !.kind = "check"] \in TurnType
      BY BeginsTyped
    <2>2. PICK due \in SUBSET {s \in Sessions : ~Busy(s)} :
             turn' = [s \in Sessions |->
                        IF s \in due THEN [Idle EXCEPT !.pc = "act", !.kind = "check"] ELSE turn[s]]
      <3>1. turn' = [s \in Sessions |->
                        IF s \in {t \in follower.at : follower.read = "waiting" /\ ~Busy(t)} \cap Sessions
                        THEN [Idle EXCEPT !.pc = "act", !.kind = "check"] ELSE turn[s]]
        BY <1>4 DEF Decide
      <3>2. QED
        BY <3>1
    <2>3. QED
      BY <1>4, <2>1, <2>2 DEF Decide, Alone, Busy, Idle, request
  <1>5. QED
    BY <1>1, <1>2, <1>3, <1>4
       DEF Next, Following, Wake, Load, Rest, Alone, Ask, Open, Finish, vars

\* The types hold in the beginning, and every step keeps them.
LEMMA HostTypesInit == Init => HostTypes
  <1> SUFFICES ASSUME Init PROVE HostTypes
    OBVIOUS
  <1>1. Fresh \in FactsType
    <2>1. [NoForm EXCEPT !.gate = "request", !.rev = 1] \in FormType
      <3>1. NoForm \in FormType
        BY DEF NoForm, FormType, Gates
      <3> HIDE DEF NoForm
      <3>2. QED
        BY <3>1 DEF FormType, Gates
    <2>2. QED
      BY <2>1 DEF Fresh, FactsType
  <1>2. \A s \in Sessions : Own(s, Fresh)
    <2>1. /\ Fresh.plans = <<>> /\ Fresh.form.plans = <<>> /\ Fresh.jobs = {}
          /\ Fresh.failed = {} /\ Fresh.form.jobs = {}
      BY DEF Fresh, NoForm
    <2>2. Hashes(<<>>) = {}
      BY DEF Hashes
    <2>3. QED
      BY <2>1, <2>2 DEF Own
  <1>3. <<Fresh>> \in Seq(FactsType) /\ DOMAIN <<Fresh>> = {1} /\ <<Fresh>>[1] = Fresh
    BY <1>1
  <1>4. Idle \in TurnType /\ \A s \in Sessions : TurnFits(s, Idle)
    BY DEF Idle, TurnType, TurnFits, Submitting
  <1>5. TypeOK
    <2>1. Asleep \in FollowerType
      BY DEF Asleep, FollowerType
    <2> HIDE DEF Fresh, Idle, Asleep
    <2>2. QED
      BY <1>1, <1>3, <1>4, <2>1 DEF Init, TypeOK
  <1> HIDE DEF Fresh, Idle
  <1>6. OwnInv
    BY <1>2, <1>3, <1>4 DEF Init, OwnInv
  <1>7. QED
    BY <1>5, <1>6 DEF Init, HostTypes, NothingUnsaved

LEMMA HostTypesStep ==
    ASSUME HostTypes, [Next]_vars
    PROVE  HostTypes'
  <1>1. OthersTyped'
    BY OthersStep
  <1>2. ASSUME NEW s \in Sessions, Input(s) PROVE HostTypes'
    <2>1. saved[s] \in FactsType /\ Own(s, saved[s])
      BY DEF HostTypes, TypeOK, OwnInv
    <2>2. CASE Back(s)
      BY <1>1, <2>2, BackTypes
    <2>3. CASE Run(s) \/ RetryRun(s) \/ Check(s)
      BY <1>1, <2>3, LoopInputTypes
    <2>4. CASE ~(Back(s) \/ Run(s) \/ RetryRun(s) \/ Check(s))
      BY <1>1, <1>2, <2>1, <2>4, PlanningWrites, PlainInputTypes DEF Input
    <2>5. QED
      BY <2>2, <2>3, <2>4
  <1>3. ASSUME NEW s \in Sessions, Loop(s) PROVE HostTypes'
    BY <1>1, <1>3, LoopTypes
  <1>4. CASE Crash
    <2>1. Idle \in TurnType /\ \A s \in Sessions : TurnFits(s, Idle)
      BY DEF Idle, TurnType, TurnFits, Submitting
    <2>2. saved' = saved /\ snaps' = snaps /\ live' = saved /\ turn' = [s \in Sessions |-> Idle]
      BY <1>4 DEF Crash
    <2> HIDE DEF Idle
    <2>3. QED
      BY <1>1, <2>1, <2>2 DEF HostTypes, TypeOK, OwnInv, NothingUnsaved, OthersTyped
  <1>5. CASE /\ UNCHANGED <<saved, snaps, live>>
             /\ turn' \in [Sessions -> TurnType]
             /\ \A s \in Sessions : \/ turn'[s] = turn[s]
                                    \/ /\ turn[s].pc = "idle" /\ turn'[s].pc = "act"
                                       /\ turn'[s].todo = <<>>
    <2>1. \A s \in Sessions : TurnFits(s, turn'[s])
      BY <1>5 DEF HostTypes, TypeOK, OwnInv, TurnFits, Submitting
    <2>2. NothingUnsaved'
      BY <1>5 DEF HostTypes, NothingUnsaved
    <2>3. QED
      BY <1>1, <1>5, <2>1, <2>2 DEF HostTypes, TypeOK, OwnInv, OthersTyped
  <1>6. QED
    BY <1>2, <1>3, <1>4, <1>5, TurnBegins DEF Turn

\* Everything the host keeps has its type, names only plans and jobs of its own session, and a
\* turn that has not begun or is over leaves nothing unsaved (session.py:381, web.py:309).
THEOREM HostIsTyped == Spec => []HostTypes
  <1>1. Init => HostTypes
    BY HostTypesInit
  <1>2. HostTypes /\ [Next]_vars => HostTypes'
    BY HostTypesStep
  <1>3. QED
    BY <1>1, <1>2, PTL DEF Spec
-----------------------------------------------------------------------------
(* What a turn does to the other sessions, and what it carries on.         *)

\* How a step of a turn changes its own: the turns and the records of the others stay.
TurnMoves(s) ==
    /\ \E u : turn' = [turn EXCEPT ![s] = u]
    /\ \E f : live' = [live EXCEPT ![s] = f]
    /\ \E f : saved' = [saved EXCEPT ![s] = f]

LEMMA WritesMove ==
    ASSUME HostTypes, NEW s \in Sessions, NEW f, Writes(s, f) \/ UNCHANGED request
    PROVE  (\E g : live' = [live EXCEPT ![s] = g]) /\ (\E g : saved' = [saved EXCEPT ![s] = g])
  <1>1. saved = [saved EXCEPT ![s] = saved[s]] /\ live = [live EXCEPT ![s] = live[s]]
    BY DEF HostTypes, TypeOK
  <1>2. CASE UNCHANGED request
    BY <1>1, <1>2 DEF request
  <1>3. CASE Writes(s, f)
    BY <1>1, <1>3 DEF Writes, Keep, Showed
  <1>4. QED
    BY <1>2, <1>3

LEMMA TurnsMove ==
    ASSUME HostTypes, NEW s \in Sessions, Turn(s)
    PROVE  TurnMoves(s)
  <1>1. turn \in [Sessions -> TurnType]
    BY DEF HostTypes, TypeOK
  <1>2. \A pc : Goto(s, pc) => turn' = [turn EXCEPT ![s] = [turn[s] EXCEPT !.pc = pc]]
    BY <1>1 DEF Goto
  <1>3. \A pc, todo : turn' = [turn EXCEPT ![s].pc = pc, ![s].todo = todo]
                         => turn' = [turn EXCEPT ![s] = [turn[s] EXCEPT !.pc = pc, !.todo = todo]]
    BY <1>1
  <1>4. \E u : turn' = [turn EXCEPT ![s] = u]
    <2>1. CASE Input(s)
      BY <1>2, <1>3, <2>1, PlanningWrites, LoopInputs DEF Input, Back
    <2>2. CASE Approves(s) \/ Confirm(s) \/ Submit(s) \/ Submitted(s) \/ JobsDone(s) \/ Save(s)
      BY <1>2, <2>2 DEF Approves, Confirm, Submit, Submitted, JobsDone, Save
    <2>3. CASE Settle(s) \/ Fails(s)
      <3>1. Goto(s, "save") \/ turn' = [turn EXCEPT ![s].pc = "next", ![s].todo = Tail(turn[s].todo)]
        BY <1>1, <2>3 DEF Settle, Fails, TurnType
      <3>2. QED
        BY <1>2, <1>3, <3>1
    <2>4. CASE Inspect(s)
      BY <1>2, <2>4 DEF Inspect
    <2>5. CASE Record(s)
      BY <2>5 DEF Record
    <2>6. QED
      BY <2>1, <2>2, <2>3, <2>4, <2>5 DEF Turn, Loop
  <1>5. (\E f : live' = [live EXCEPT ![s] = f]) /\ (\E f : saved' = [saved EXCEPT ![s] = f])
    <2>1. saved = [saved EXCEPT ![s] = saved[s]] /\ live = [live EXCEPT ![s] = live[s]]
      BY DEF HostTypes, TypeOK
    <2>2. \A f : Keep(s, f) => (\E g : live' = [live EXCEPT ![s] = g]) /\ (\E g : saved' = [saved EXCEPT ![s] = g])
      BY <2>1 DEF Keep
    <2>3. CASE Back(s)
      BY <2>2, <2>3, BackWrites
    <2>4. CASE Input(s) /\ ~Back(s)
      BY <2>4, PlanningWrites, LoopInputs, WritesMove DEF Input
    <2>5. CASE Settle(s)
      BY <2>2, <2>5 DEF Settle
    <2>6. CASE Save(s)
      BY <2>1, <2>6 DEF Save
    <2>7. CASE Loop(s) /\ ~Settle(s) /\ ~Save(s)
      BY <2>7, LoopWrites, WritesMove DEF Loop
    <2>8. QED
      BY <2>3, <2>4, <2>5, <2>6, <2>7 DEF Turn
  <1>6. QED
    BY <1>4, <1>5 DEF TurnMoves
-----------------------------------------------------------------------------
(* Run and Retry start what was shown.                                     *)

\* What a turn still has to submit is what the open form shows.
ShownBy(u, form) ==
    u.pc \in {"next"} \cup Submitting =>
        \/ /\ u.kind \in {"run", "typed"} /\ form.gate = "review_plan"
           /\ \A i \in DOMAIN u.todo : u.todo[i][3] = 0 /\ u.todo[i][2] \in Hashes(form.plans)
        \/ /\ u.kind = "retry" /\ form.gate = "review_retry"
           /\ \A i \in DOMAIN u.todo : u.todo[i][3] > 0 /\ Parent(u.todo[i]) \in form.jobs
ShownInv == \A s \in Sessions : ShownBy(turn[s], saved[s].form)

\* The loops begin with what the form shows.
LEMMA LoopsShow ==
    ASSUME HostTypes, NEW s \in Sessions, Run(s) \/ RetryRun(s) \/ Check(s)
    PROVE  ShownBy(turn'[s], saved'[s].form)
  <1> DEFINE f == saved[s]
  <1>1. f \in FactsType /\ Own(s, f) /\ turn \in [Sessions -> TurnType] /\ saved \in [Sessions -> FactsType]
    BY DEF HostTypes, TypeOK, OwnInv
  <1>2. ASSUME NEW pc \in {"save", "inspect"}, turn'[s].pc = pc PROVE ShownBy(turn'[s], saved'[s].form)
    BY <1>2 DEF ShownBy, Submitting
  <1>3. Goto(s, "save") => turn'[s].pc = "save"
    BY <1>1 DEF Goto, TurnType
  <1>4. ASSUME NEW pc, NEW todo, turn' = [turn EXCEPT ![s].pc = pc, ![s].todo = todo]
        PROVE  turn'[s].pc = pc /\ turn'[s].todo = todo /\ turn'[s].kind = turn[s].kind
    BY <1>1, <1>4 DEF TurnType
  <1>5. Refused(s) => saved'[s] = f
    BY DEF Refused, Keep
  <1>6. CASE Check(s)
    <2>1. turn'[s].pc \in {"save", "inspect"}
      BY <1>3, <1>4, <1>6 DEF Check
    <2>2. QED
      BY <1>2, <2>1
  <1>7. CASE Run(s) /\ turn'[s].pc # "save"
    <2>1. OnReview(s) /\ ShowsCurrentPlans(f) /\ Refused(s) /\ turn[s].kind \in {"run", "typed"}
      BY <1>3, <1>7 DEF Run, Acts
    <2>2. PICK q \in InOrder(Unstarted(f.plans)) :
                turn' = [turn EXCEPT ![s].pc = "next",
                             ![s].todo = [i \in DOMAIN q |-> <<s, f.plans[q[i]].hash, 0>>]]
      BY <1>3, <1>7 DEF Run
    <2> DEFINE todo == [i \in DOMAIN q |-> <<s, f.plans[q[i]].hash, 0>>]
    <2>3. \A i \in DOMAIN todo : todo[i][3] = 0 /\ todo[i][2] \in Hashes(f.plans)
      BY <1>1, RunLists
    <2>4. turn'[s].todo = todo /\ turn'[s].pc = "next" /\ turn'[s].kind \in {"run", "typed"}
      BY <1>4, <2>1, <2>2
    <2>5. f.form.gate = "review_plan" /\ HashList(f.form.plans) = HashList(f.plans)
      BY <2>1 DEF ShowsCurrentPlans
    <2>6. Hashes(f.plans) = Hashes(f.form.plans)
      <3>1. /\ DOMAIN f.plans = DOMAIN HashList(f.plans)
            /\ DOMAIN f.form.plans = DOMAIN HashList(f.form.plans)
            /\ \A i \in DOMAIN f.plans : f.plans[i].hash = HashList(f.plans)[i]
            /\ \A i \in DOMAIN f.form.plans : f.form.plans[i].hash = HashList(f.form.plans)[i]
        BY DEF HashList
      <3>2. QED
        BY <2>5, <3>1 DEF Hashes
    <2>7. saved'[s] = f
      BY <1>5, <2>1
    <2> HIDE DEF todo
    <2>8. QED
      BY <2>3, <2>4, <2>5, <2>6, <2>7 DEF ShownBy
  <1>8. CASE RetryRun(s) /\ turn'[s].pc # "save"
    <2>1. Current(s, "review_retry") /\ f.form.jobs = RetryJobs(f) /\ Refused(s) /\ turn[s].kind = "retry"
      BY <1>3, <1>8 DEF RetryRun, Acts
    <2>2. PICK order \in [1 .. Cardinality(RetryJobs(f)) -> RetryJobs(f)] :
                turn' = [turn EXCEPT ![s].pc = "next",
                             ![s].todo = [i \in DOMAIN order |-> Retry(order[i])]]
      BY <1>3, <1>8 DEF RetryRun
    <2> DEFINE todo == [i \in DOMAIN order |-> Retry(order[i])]
    <2>3. \A i \in DOMAIN todo : todo[i][3] > 0 /\ Parent(todo[i]) \in RetryJobs(f)
      BY <1>1, RetryLists
    <2>4. turn'[s].todo = todo /\ turn'[s].pc = "next" /\ turn'[s].kind = "retry"
      BY <1>4, <2>1, <2>2
    <2>5. saved'[s] = f /\ f.form.gate = "review_retry"
      BY <1>5, <2>1 DEF Current
    <2> HIDE DEF todo
    <2>6. QED
      BY <2>1, <2>3, <2>4, <2>5 DEF ShownBy
  <1>9. QED
    BY <1>2, <1>6, <1>7, <1>8

\* Going on with the list keeps what the form shows.
LEMMA TailsShow ==
    ASSUME HostTypes, NEW s \in Sessions, ShownBy(turn[s], saved[s].form), saved'[s] = saved[s],
           turn[s].pc \in {"next"} \cup Submitting,
           \/ \E pc : Goto(s, pc)
           \/ turn[s].todo # <<>> /\ turn' = [turn EXCEPT ![s].pc = "next", ![s].todo = Tail(@)]
    PROVE  ShownBy(turn'[s], saved'[s].form)
  <1>1. turn \in [Sessions -> TurnType]
    BY DEF HostTypes, TypeOK
  <1>2. CASE \E pc : Goto(s, pc)
    <2>1. turn'[s].kind = turn[s].kind /\ turn'[s].todo = turn[s].todo
      BY <1>1, <1>2 DEF Goto, TurnType
    <2>2. QED
      BY <2>1 DEF ShownBy
  <1>3. CASE turn[s].todo # <<>> /\ turn' = [turn EXCEPT ![s].pc = "next", ![s].todo = Tail(@)]
    <2>1. turn'[s].kind = turn[s].kind /\ turn'[s].todo = Tail(turn[s].todo)
      BY <1>1, <1>3 DEF TurnType
    <2>2. \A i \in DOMAIN Tail(turn[s].todo) :
             /\ i + 1 \in DOMAIN turn[s].todo
             /\ Tail(turn[s].todo)[i] = turn[s].todo[i + 1]
      BY <1>3, HeadFits
    <2>3. QED
      BY <2>1, <2>2 DEF ShownBy
  <1>4. QED
    BY <1>2, <1>3

\* Every step keeps the list of a turn to what its form shows.
LEMMA ShownStep ==
    ASSUME HostTypes, ShownInv, [Next]_vars
    PROVE  ShownInv'
  <1>1. turn \in [Sessions -> TurnType] /\ saved \in [Sessions -> FactsType]
    BY DEF HostTypes, TypeOK
  <1>2. ASSUME NEW s \in Sessions, Goto(s, "save") \/ Goto(s, "record") PROVE ShownBy(turn'[s], saved'[s].form)
    <2>1. turn'[s].pc \in {"save", "record"}
      BY <1>1, <1>2 DEF Goto, TurnType
    <2>2. QED
      BY <2>1 DEF ShownBy, Submitting
  <1>3. ASSUME NEW s \in Sessions, Turn(s) PROVE ShownBy(turn'[s], saved'[s].form)
    <2>1. CASE Input(s)
      BY <1>2, <2>1, PlanningWrites, LoopsShow DEF Input, Back
    <2>2. CASE Approves(s) \/ Confirm(s) \/ Submit(s)
      <3>1. \E pc : Goto(s, pc)
        BY <2>2 DEF Approves, Confirm, Submit
      <3>2. saved'[s] = saved[s] /\ turn[s].pc \in {"next"} \cup Submitting
        BY <2>2 DEF Approves, Confirm, Submit, request, Submitting
      <3>3. QED
        BY <3>1, <3>2, TailsShow DEF ShownInv
    <2>3. CASE Settle(s) \/ (Fails(s) /\ Retries(s))
      <3>1. turn' = [turn EXCEPT ![s].pc = "next", ![s].todo = Tail(@)]
        BY <2>3 DEF Settle, Fails
      <3>2. saved'[s] = saved[s] /\ turn[s].pc \in Submitting
        BY <2>3 DEF Settle, Fails, Keep, Submitting
      <3>3. turn[s].todo # <<>>
        BY <3>2 DEF HostTypes, OwnInv, TurnFits
      <3>4. QED
        BY <3>1, <3>2, <3>3, TailsShow DEF ShownInv
    <2>4. CASE (Fails(s) /\ ~Retries(s)) \/ Submitted(s) \/ JobsDone(s) \/ Save(s)
      BY <1>2, <2>4 DEF Fails, Submitted, JobsDone, Save
    <2>5. CASE Inspect(s)
      <3>1. Goto(s, "save") \/ (turn' = [turn EXCEPT ![s].todo = Tail(@)] /\ turn[s].pc = "inspect")
        BY <2>5 DEF Inspect
      <3>2. turn' = [turn EXCEPT ![s].todo = Tail(@)] => turn'[s].pc = turn[s].pc
        BY <1>1 DEF TurnType
      <3>3. QED
        BY <1>2, <3>1, <3>2 DEF ShownBy, Submitting
    <2>6. CASE Record(s)
      <3>1. turn'[s].pc = "idle"
        BY <1>1, <2>6 DEF Record, Idle
      <3>2. QED
        BY <3>1 DEF ShownBy, Submitting
    <2>7. QED
      BY <1>3, <2>1, <2>2, <2>3, <2>4, <2>5, <2>6 DEF Turn, Loop
  <1>4. ASSUME NEW s \in Sessions, Turn(s) PROVE ShownInv'
    <2>1. \A t \in Sessions \ {s} : turn'[t] = turn[t] /\ saved'[t] = saved[t]
      BY <1>1, <1>4, TurnsMove DEF TurnMoves
    <2>2. QED
      BY <1>3, <1>4, <2>1 DEF ShownInv
  <1>5. CASE Crash
    BY <1>5 DEF Crash, Idle, ShownInv, ShownBy, Submitting
  <1>6. CASE /\ UNCHANGED <<saved, snaps, live>>
             /\ \A s \in Sessions : turn'[s] = turn[s] \/ turn'[s].pc = "act"
    BY <1>6 DEF ShownInv, ShownBy, Submitting
  <1>7. QED
    BY <1>4, <1>5, <1>6, TurnBegins

\* Which jobs a step starts: that of the submission in hand, and no other.
LEMMA JobStarts ==
    ASSUME HostTypes, [Next]_vars, NEW j \in Jobs, jobs[j] = "none", jobs'[j] # "none"
    PROVE  \E s \in Sessions : /\ turn[s].pc = "submit" /\ Submit(s) /\ Job(s) = j /\ j[1] = s
                               /\ turn[s].todo # <<>> /\ j = turn[s].todo[1]
                               /\ 1 \in DOMAIN turn[s].todo
  <1>1. jobs \in [Jobs -> {"none", "running", "done", "failed"}]
    BY DEF HostTypes, TypeOK
  <1>2. ASSUME NEW s \in Sessions, Turn(s) PROVE Submit(s)
    <2>1. Input(s) => UNCHANGED jobs
      BY PlanningWrites, LoopInputs DEF Input, Back, Acts, Outside
    <2>2. Loop(s) /\ ~Submit(s) => UNCHANGED jobs
      BY DEF Loop, Approves, Confirm, Settle, Fails, Submitted, Inspect, JobsDone, Save, Record
    <2>3. QED
      BY <1>2, <2>1, <2>2 DEF Turn
  <1>3. ASSUME NEW s \in Sessions, Submit(s)
        PROVE  /\ turn[s].pc = "submit" /\ Job(s) = j /\ j[1] = s
               /\ turn[s].todo # <<>> /\ j = turn[s].todo[1] /\ 1 \in DOMAIN turn[s].todo
    <2>1. turn[s].pc = "submit" /\ turn[s].todo # <<>>
      BY <1>3 DEF Submit, HostTypes, OwnInv, TurnFits, Submitting
    <2>2. Job(s) = j
      BY <1>1, <1>3 DEF Submit
    <2>3. QED
      BY <2>1, <2>2, HeadFits DEF JobsOf
  <1>4. CASE \E k \in Jobs : Finish(k)
    BY <1>1, <1>4 DEF Finish
  <1>5. CASE ~(\E s \in Sessions : Turn(s)) /\ ~(\E k \in Jobs : Finish(k))
    BY <1>5 DEF Next, Ask, Send, Open, Queue, Following, Wake, Load, Decide, Rest, Alone, Crash, vars
  <1>6. QED
    BY <1>2, <1>3, <1>4, <1>5

\* A started job is one the person saw, whatever was sent, answered late, refused or lost in
\* between: the plans of the open review, or the failed jobs of the open form
\* (host.py:361, outputs.py:174).
THEOREM ShownBeforeRun == Spec => RunsWhatWasShown
  <1>1. Init => HostTypes /\ ShownInv
    <2>1. Init => ShownInv
      BY DEF Init, Idle, ShownInv, ShownBy, Submitting
    <2>2. QED
      BY <2>1, HostTypesInit
  <1>2. HostTypes /\ ShownInv /\ [Next]_vars => HostTypes' /\ ShownInv'
    BY HostTypesStep, ShownStep
  <1> DEFINE Shown == \A j \in Jobs : jobs[j] = "none" /\ jobs'[j] # "none" =>
                LET form == saved[j[1]].form IN
                IF j[3] = 0 THEN form.gate = "review_plan" /\ j[2] \in Hashes(form.plans)
                ELSE form.gate = "review_retry" /\ Parent(j) \in form.jobs
  <1>3. HostTypes /\ ShownInv /\ [Next]_vars => [Shown]_vars
    <2> SUFFICES ASSUME HostTypes, ShownInv, [Next]_vars, NEW j \in Jobs, jobs[j] = "none", jobs'[j] # "none"
                 PROVE  LET form == saved[j[1]].form IN
                        IF j[3] = 0 THEN form.gate = "review_plan" /\ j[2] \in Hashes(form.plans)
                        ELSE form.gate = "review_retry" /\ Parent(j) \in form.jobs
      OBVIOUS
    <2>1. PICK s \in Sessions : /\ turn[s].pc = "submit" /\ j[1] = s
                                /\ j = turn[s].todo[1] /\ 1 \in DOMAIN turn[s].todo
      BY JobStarts
    <2>2. ShownBy(turn[s], saved[s].form) /\ turn[s].pc \in {"next"} \cup Submitting
      BY <2>1 DEF ShownInv, Submitting
    <2>3. QED
      BY <2>1, <2>2 DEF ShownBy
  <1>4. QED
    BY <1>1, <1>2, <1>3, PTL DEF Spec, RunsWhatWasShown
-----------------------------------------------------------------------------
(* The book of approvals.                                                  *)

\* What a step of a turn does to the book: a question is approved, an approval is taken out at
\* the answer or at the end of the submission, and otherwise nothing changes.
LEMMA BookChanges ==
    ASSUME HostTypes, NEW s \in Sessions, Turn(s)
    PROVE  \/ /\ UNCHANGED approvals
              /\ turn[s].pc \notin Submitting /\ turn'[s].pc \notin Submitting
           \/ /\ approvals' = approvals \cup {Hash(s)} /\ turn'[s].pc = "ask"
              /\ turn'[s].todo = turn[s].todo /\ turn[s].pc \notin Submitting
           \/ /\ approvals' = approvals \/ approvals' = approvals \ {Hash(s)}
              /\ turn'[s].pc \in {"submit", "settle", "failed"}
              /\ turn'[s].todo = turn[s].todo /\ turn[s].pc \in Submitting
           \/ /\ approvals' = approvals \ {Hash(s)}
              /\ turn'[s].pc \notin Submitting /\ turn[s].pc \in Submitting
  <1>1. turn \in [Sessions -> TurnType]
    BY DEF HostTypes, TypeOK
  <1>2. ASSUME NEW pc, Goto(s, pc)
        PROVE  turn'[s].pc = pc /\ turn'[s].todo = turn[s].todo
    BY <1>1, <1>2 DEF Goto, TurnType
  <1>3. CASE Input(s)
    <2>1. Outside /\ turn[s].pc = "act"
      BY <1>3, PlanningWrites, LoopInputs
         DEF Input, Fill, Revise, Change, New, Back, Summary, Approve, Model, Run, RetryForm, RetryRun,
             Check, Acts
    <2>2. turn'[s].pc \in {"save", "record", "next", "inspect"}
      <3>1. ASSUME NEW pc, NEW todo, turn' = [turn EXCEPT ![s].pc = pc, ![s].todo = todo]
            PROVE  turn'[s].pc = pc
        BY <1>1, <3>1 DEF TurnType
      <3>2. QED
        BY <1>2, <1>3, <3>1, PlanningWrites, LoopInputs DEF Input, Back
    <2>3. QED
      BY <2>1, <2>2 DEF Outside, Submitting
  <1>4. CASE Approves(s)
    BY <1>2, <1>4 DEF Approves, Submitting
  <1>5. CASE Confirm(s) \/ Submit(s)
    BY <1>2, <1>5 DEF Confirm, Submit, Submitting
  <1>6. CASE Settle(s) \/ Fails(s)
    <2>1. turn'[s].pc \in {"next", "save"}
      <3>1. turn' = [turn EXCEPT ![s].pc = "next", ![s].todo = Tail(@)] => turn'[s].pc = "next"
        BY <1>1 DEF TurnType
      <3>2. QED
        BY <1>2, <1>6, <3>1 DEF Settle, Fails
    <2>2. QED
      BY <1>6, <2>1 DEF Settle, Fails, Submitting
  <1>7. CASE Submitted(s) \/ JobsDone(s) \/ Save(s)
    BY <1>2, <1>7 DEF Submitted, JobsDone, Save, Submitting
  <1>8. CASE Inspect(s)
    <2>1. turn' = [turn EXCEPT ![s].todo = Tail(@)] => turn'[s].pc = turn[s].pc
      BY <1>1 DEF TurnType
    <2>2. QED
      BY <1>2, <1>8, <2>1 DEF Inspect, Submitting
  <1>9. CASE Record(s)
    BY <1>1, <1>9 DEF Record, request, Idle, Submitting
  <1>10. QED
    BY <1>3, <1>4, <1>5, <1>6, <1>7, <1>8, <1>9 DEF Turn, Loop

\* Outside the turns the book only changes when the process dies.
LEMMA BookStays ==
    ASSUME HostTypes, [Next]_vars, ~ \E s \in Sessions : Turn(s), ~Crash
    PROVE  UNCHANGED <<approvals, crashes>>
  BY DEF Next, Ask, Send, Open, Queue, Following, Wake, Load, Decide, Rest, Alone, Finish, vars

\* Every step that ends a submission takes its approval out of the book.
LEMMA ApprovalsStep ==
    ASSUME HostTypes, NoApprovalIsLeft, [Next]_vars
    PROVE  NoApprovalIsLeft'
  <1>1. \A s \in Sessions : turn'[s].todo = turn[s].todo => Hash(s)' = Hash(s)
    BY DEF Hash, Job
  <1>2. ASSUME NEW s \in Sessions, Turn(s) PROVE NoApprovalIsLeft'
    <2>1. \A t \in Sessions \ {s} : turn'[t] = turn[t] /\ Hash(t)' = Hash(t)
      <3>1. \A t \in Sessions \ {s} : turn'[t] = turn[t]
        BY <1>2, TurnsMove DEF TurnMoves, HostTypes, TypeOK
      <3>2. QED
        BY <1>1, <3>1
    <2>2. CASE /\ UNCHANGED approvals
               /\ turn[s].pc \notin Submitting /\ turn'[s].pc \notin Submitting
      BY <2>1, <2>2 DEF NoApprovalIsLeft, Submitting
    <2>3. CASE /\ approvals' = approvals \cup {Hash(s)} /\ turn'[s].pc = "ask"
               /\ turn'[s].todo = turn[s].todo /\ turn[s].pc \notin Submitting
      <3>1. Hash(s)' = Hash(s)
        BY <1>1, <2>3
      <3>2. QED
        BY <2>1, <2>3, <3>1 DEF NoApprovalIsLeft, Submitting
    <2>4. CASE /\ approvals' = approvals \/ approvals' = approvals \ {Hash(s)}
               /\ turn'[s].pc \in {"submit", "settle", "failed"}
               /\ turn'[s].todo = turn[s].todo /\ turn[s].pc \in Submitting
      <3>1. Hash(s)' = Hash(s)
        BY <1>1, <2>4
      <3>2. ASSUME NEW p \in approvals'
            PROVE  \E t \in Sessions : turn'[t].pc \in Submitting /\ Hash(t)' = p
        <4>1. PICK t \in Sessions : turn[t].pc \in Submitting /\ Hash(t) = p
          BY <2>4, <3>2 DEF NoApprovalIsLeft, Submitting
        <4>2. QED
          BY <2>1, <2>4, <3>1, <4>1 DEF Submitting
      <3>3. QED
        BY <3>2 DEF NoApprovalIsLeft, Submitting
    <2>5. CASE /\ approvals' = approvals \ {Hash(s)}
               /\ turn'[s].pc \notin Submitting /\ turn[s].pc \in Submitting
      <3>1. ASSUME NEW p \in approvals'
            PROVE  \E t \in Sessions : turn'[t].pc \in Submitting /\ Hash(t)' = p
        <4>1. PICK t \in Sessions : turn[t].pc \in Submitting /\ Hash(t) = p
          BY <2>5, <3>1 DEF NoApprovalIsLeft, Submitting
        <4>2. QED
          BY <2>1, <2>5, <3>1, <4>1
      <3>2. QED
        BY <3>1 DEF NoApprovalIsLeft, Submitting
    <2>6. QED
      BY <1>2, <2>2, <2>3, <2>4, <2>5, BookChanges
  <1>3. CASE Crash
    BY <1>3 DEF Crash, Idle, NoApprovalIsLeft
  <1>4. CASE ~(\E s \in Sessions : Turn(s)) /\ ~Crash
    <2>1. /\ UNCHANGED approvals
          /\ \A s \in Sessions : turn'[s] = turn[s] \/ (turn[s].pc = "idle" /\ turn'[s].pc = "act")
      BY <1>4, BookStays, TurnBegins
    <2>2. \A s \in Sessions : turn'[s] = turn[s] => Hash(s)' = Hash(s)
      BY <1>1
    <2>3. QED
      BY <2>1, <2>2 DEF NoApprovalIsLeft
  <1>5. QED
    BY <1>2, <1>3, <1>4

\* An approval is in the book only while a session is submitting that plan: whatever fails, and
\* whether or not sessions share plans, none is left for a submission nobody approved.
THEOREM NoApprovalOutlives == Spec => []NoApprovalIsLeft
  <1>1. Init => HostTypes /\ NoApprovalIsLeft
    <2>1. Init => NoApprovalIsLeft
      BY DEF Init, Idle, NoApprovalIsLeft
    <2>2. QED
      BY <2>1, HostTypesInit
  <1>2. HostTypes /\ NoApprovalIsLeft /\ [Next]_vars => HostTypes' /\ NoApprovalIsLeft'
    BY HostTypesStep, ApprovalsStep
  <1>3. QED
    BY <1>1, <1>2, PTL DEF Spec
-----------------------------------------------------------------------------
(* Started jobs are remembered.                                            *)

\* What the turn of a session remembers only grows while the process lives.
LEMMA MemoryGrows ==
    ASSUME HostTypes, [Next]_vars, ~Crash, NEW s \in Sessions
    PROVE  live[s].started \subseteq live'[s].started /\ live[s].retries \subseteq live'[s].retries
  <1>1. /\ live \in [Sessions -> FactsType] /\ live[s] \in FactsType /\ Own(s, live[s])
        /\ turn[s].pc = "act" => live[s] = saved[s]
    BY DEF HostTypes, TypeOK, OwnInv, NothingUnsaved
  <1>2. ASSUME NEW f, Same(live[s], f), Writes(s, f) PROVE Same(live[s], live'[s])
    BY <1>1, <1>2 DEF Writes, Same, Keep, Showed
  <1>3. CASE Input(s)
    <2>1. turn[s].pc = "act"
      BY <1>3 DEF Input, Fill, Revise, Change, New, Back, Summary, Approve, Model, Run, RetryForm, RetryRun,
                  Check, Acts
    <2>2. Same(live[s], saved[s])
      BY <1>1, <2>1 DEF Same
    <2>3. CASE Back(s)
      BY <1>1, <2>2, <2>3, BackWrites DEF Keep, Same
    <2>4. CASE ~Back(s)
      <3>1. Writes(s, saved[s])
        BY <1>3, <2>4, PlanningWrites, LoopInputs DEF Input
      <3>2. QED
        BY <1>2, <2>2, <3>1 DEF Same
    <2>5. QED
      BY <2>3, <2>4
  <1>4. CASE Settle(s)
    <2>1. Job(s) \in JobsOf(s)
      BY <1>4, HeadFits DEF Settle, HostTypes, OwnInv, TurnFits, Submitting
    <2>2. live'[s] = Recorded(live[s], Job(s))
      BY <1>1, <1>4 DEF Settle, Keep
    <2>3. QED
      BY <1>1, <2>1, <2>2, RecordedIsGood
  <1>5. CASE Save(s)
    BY <1>5 DEF Save
  <1>6. CASE Loop(s) /\ ~Settle(s) /\ ~Save(s)
    <2>1. UNCHANGED request \/ Writes(s, live[s])
      BY <1>6, LoopWrites DEF Loop
    <2>2. CASE UNCHANGED request
      BY <2>2 DEF request
    <2>3. CASE Writes(s, live[s])
      BY <1>2, <2>3 DEF Same
    <2>4. QED
      BY <2>1, <2>2, <2>3
  <1>7. ASSUME NEW t \in Sessions, Turn(t), t # s PROVE live'[s] = live[s]
    BY <1>7, TurnsMove DEF TurnMoves, HostTypes, TypeOK
  <1>8. CASE ~ \E t \in Sessions : Turn(t)
    BY <1>8, TurnBegins
  <1>9. QED
    BY <1>3, <1>4, <1>5, <1>6, <1>7, <1>8 DEF Turn

\* Every started job is remembered, or about to be, until the process dies.
Remembered == crashes = 0 => JobsRemembered

LEMMA RememberedStep ==
    ASSUME HostTypes, Remembered, [Next]_vars
    PROVE  Remembered'
  <1>1. CASE Crash
    BY <1>1 DEF Crash, Remembered, HostTypes, TypeOK
  <1>2. CASE ~Crash
    <2>1. crashes' = crashes
      <3>1. ASSUME NEW s \in Sessions, Turn(s) PROVE crashes' = crashes
        <4>1. Input(s) => crashes' = crashes
          BY PlanningWrites, LoopInputs DEF Input, Back, Acts, Outside
        <4>2. Loop(s) => crashes' = crashes
          BY DEF Loop, Approves, Confirm, Submit, Settle, Fails, Submitted, Inspect, JobsDone, Save,
                 Record, Elsewhere
        <4>3. QED
          BY <3>1, <4>1, <4>2 DEF Turn
      <3>2. QED
        BY <1>2, <3>1, BookStays
    <2> SUFFICES ASSUME crashes = 0, NEW j \in Jobs, jobs'[j] # "none"
                 PROVE  \/ turn'[j[1]].pc = "settle" /\ Job(j[1])' = j
                        \/ IF j[3] = 0 THEN j[2] \in live'[j[1]].started ELSE j \in live'[j[1]].retries
      BY <2>1 DEF Remembered, JobsRemembered
    <2> DEFINE s == j[1]
    <2>2. s \in Sessions
      BY DEF Jobs
    <2>3. JobsRemembered /\ turn \in [Sessions -> TurnType]
      BY DEF Remembered, HostTypes, TypeOK
    <2>4. CASE jobs[j] = "none"
      <3>1. Submit(s) /\ Job(s) = j
        BY <2>4, JobStarts
      <3>2. Goto(s, "settle")
        <4>1. jobs' # jobs
          BY <2>4
        <4>2. QED
          BY <3>1, <4>1 DEF Submit
      <3>3. turn'[s].pc = "settle" /\ turn'[s].todo = turn[s].todo
        BY <2>2, <2>3, <3>2 DEF Goto, TurnType
      <3>4. QED
        BY <3>1, <3>3 DEF Job
    <2>5. CASE turn[s].pc = "settle" /\ Job(s) = j
      <3>1. CASE Settle(s)
        <4>1. Job(s) \in JobsOf(s) /\ live[s] \in FactsType /\ Own(s, live[s])
          BY <2>2, <2>5, HeadFits DEF HostTypes, TypeOK, OwnInv, TurnFits, Submitting
        <4>2. live'[s] = Recorded(live[s], j)
          BY <2>2, <2>5, <3>1 DEF Settle, Keep, HostTypes, TypeOK
        <4>3. QED
          BY <2>2, <2>5, <4>1, <4>2, RecordedIsGood
      <3>2. CASE ~Settle(s)
        <4>1. ~Turn(s)
          BY <2>5, <3>2 DEF Turn, Input, Fill, Revise, Change, New, Back, Summary, Approve, Model, Run,
                RetryForm, RetryRun, Check, Acts, Loop, Approves, Confirm, Submit, Fails, Submitted,
                Inspect, JobsDone, Save, Record
        <4>2. ASSUME NEW t \in Sessions, Turn(t) PROVE turn'[s] = turn[s]
          BY <2>2, <2>3, <4>1, <4>2, TurnsMove DEF TurnMoves
        <4>3. ASSUME ~ \E t \in Sessions : Turn(t) PROVE turn'[s] = turn[s]
          BY <1>2, <2>2, <2>5, <4>3, TurnBegins
        <4>4. turn'[s] = turn[s]
          BY <4>2, <4>3
        <4>5. QED
          BY <2>5, <4>4 DEF Job
      <3>3. QED
        BY <3>1, <3>2
    <2>6. CASE jobs[j] # "none" /\ ~(turn[s].pc = "settle" /\ Job(s) = j)
      <3>1. IF j[3] = 0 THEN j[2] \in live[s].started ELSE j \in live[s].retries
        BY <2>3, <2>6 DEF JobsRemembered
      <3>2. live[s].started \subseteq live'[s].started /\ live[s].retries \subseteq live'[s].retries
        BY <1>2, <2>2, MemoryGrows
      <3>3. QED
        BY <3>1, <3>2
    <2>7. QED
      BY <2>4, <2>5, <2>6
  <1>3. QED
    BY <1>1, <1>2

LEMMA RememberedInit == Init => HostTypes /\ Remembered
  BY HostTypesInit DEF Init, Remembered, JobsRemembered

\* Every job a session started is known to it until the process dies, through new requests,
\* changes, Back, failed submissions and retries: a job started twice would be paid twice
\* (host.py:400-405).
THEOREM StartedIsRemembered == Spec => [](crashes = 0 => JobsRemembered)
  <1>1. HostTypes /\ Remembered /\ [Next]_vars => HostTypes' /\ Remembered'
    BY HostTypesStep, RememberedStep
  <1>2. HostTypes /\ Remembered => (crashes = 0 => JobsRemembered)
    BY DEF Remembered
  <1>3. QED
    BY <1>1, <1>2, RememberedInit, PTL DEF Spec

\* Back never crosses a started job as long as the process does not die: a death between the
\* submission and the record loses the job, and Back may then cross it (session.py:422).
THEOREM BackRemembers ==
    ASSUME MaxCrashes = 0
    PROVE  Spec => BackNeverCrosses
  <1> DEFINE Crosses2 == \A s \in Sessions : Len(snaps'[s]) < Len(snaps[s]) =>
                \A j \in Jobs : j[1] = s /\ j[3] = 0 /\ jobs[j] # "none"
                    => j[2] \in saved'[s].started
             NoCrash == crashes = 0
  <1>1. Init => HostTypes /\ Remembered /\ NoCrash
    BY RememberedInit DEF Init
  <1>2. HostTypes /\ Remembered /\ NoCrash /\ [Next]_vars => HostTypes' /\ Remembered' /\ NoCrash'
    <2>1. ASSUME HostTypes, [Next]_vars, NoCrash PROVE NoCrash'
      <3>1. ~Crash
        BY <2>1, MaxCrashes = 0 DEF Crash
      <3>2. ASSUME NEW s \in Sessions, Turn(s) PROVE crashes' = crashes
        <4>1. Input(s) => crashes' = crashes
          BY <2>1, PlanningWrites, LoopInputs DEF Input, Back, Acts, Outside
        <4>2. Loop(s) => crashes' = crashes
          BY DEF Loop, Approves, Confirm, Submit, Settle, Fails, Submitted, Inspect, JobsDone, Save,
                 Record, Elsewhere
        <4>3. QED
          BY <3>2, <4>1, <4>2 DEF Turn
      <3>3. QED
        BY <2>1, <3>1, <3>2, BookStays
    <2>2. QED
      BY <2>1, HostTypesStep, RememberedStep
  <1>3. HostTypes /\ Remembered /\ NoCrash /\ [Next]_vars => [Crosses2]_vars
    <2> SUFFICES ASSUME HostTypes, Remembered, NoCrash, [Next]_vars, NEW s \in Sessions,
                        Len(snaps'[s]) < Len(snaps[s]), NEW j \in Jobs, j[1] = s, j[3] = 0, jobs[j] # "none"
                 PROVE  j[2] \in saved'[s].started
      OBVIOUS
    <2>1. snaps[s] \in Seq(FactsType) /\ Len(snaps[s]) \in Nat /\ snaps \in [Sessions -> Seq(FactsType)]
      BY DEF HostTypes, TypeOK
    <2>2. ASSUME NEW f, Writes(s, f) \/ UNCHANGED request PROVE FALSE
      <3>1. snaps'[s] = snaps[s] \/ \E g \in FactsType : snaps'[s] = Append(snaps[s], g)
        BY <2>1, <2>2 DEF Writes, Keep, Showed, request
      <3>2. \A g \in FactsType : Len(Append(snaps[s], g)) = Len(snaps[s]) + 1
        BY <2>1
      <3>3. QED
        BY <2>1, <3>1, <3>2
    <2>3. snaps'[s] # snaps[s]
      BY <2>1
    <2>4. ~Crash
      BY <2>3 DEF Crash
    <2>5. Turn(s)
      <3>1. ASSUME NEW t \in Sessions, Turn(t), t # s PROVE snaps'[s] = snaps[s]
        <4>1. CASE Back(t)
          BY <2>1, <3>1, <4>1, BackWrites DEF Keep
        <4>2. CASE Input(t) /\ ~Back(t)
          BY <2>1, <3>1, <4>2, PlanningWrites, LoopInputs DEF Input, Writes, Keep, Showed
        <4>3. CASE Settle(t) \/ Save(t)
          BY <4>3 DEF Settle, Save, Keep
        <4>4. CASE Loop(t) /\ ~Settle(t) /\ ~Save(t)
          BY <2>1, <3>1, <4>4, LoopWrites DEF Loop, Writes, Keep, Showed, request
        <4>5. QED
          BY <3>1, <4>1, <4>2, <4>3, <4>4 DEF Turn
      <3>2. QED
        BY <2>3, <2>4, <3>1, TurnBegins
    <2>6. Back(s)
      <3>1. CASE Input(s) /\ ~Back(s)
        BY <2>2, <3>1, PlanningWrites, LoopInputs DEF Input
      <3>2. CASE Settle(s) \/ Save(s)
        BY <2>3, <3>2 DEF Settle, Save, Keep
      <3>3. CASE Loop(s) /\ ~Settle(s) /\ ~Save(s)
        BY <2>2, <3>3, LoopWrites DEF Loop
      <3>4. QED
        BY <2>5, <3>1, <3>2, <3>3 DEF Turn
    <2>7. turn[s].pc = "act" /\ live[s] = saved[s]
      BY <2>6 DEF Back, Acts, HostTypes, NothingUnsaved
    <2>8. j[2] \in live[s].started
      BY <2>7 DEF Remembered, JobsRemembered
    <2>9. saved'[s].started = saved[s].started
      BY <2>6, BackWrites DEF Same, Keep, HostTypes, TypeOK
    <2>10. QED
      BY <2>7, <2>8, <2>9
  <1>4. QED
    BY <1>1, <1>2, <1>3, PTL DEF Spec, BackNeverCrosses
=============================================================================
