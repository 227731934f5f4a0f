-------------------------- MODULE AgentTurnProofs --------------------------
(***************************************************************************)
(* Machine-checked proofs about AgentTurn: what a conversation with the    *)
(* model keeps, for every security profile, every bound and any number of  *)
(* inputs, calls and crashes.                                              *)
(***************************************************************************)
EXTENDS AgentTurn, SequenceTheorems, TLAPS

-----------------------------------------------------------------------------
(* Types.                                                                  *)

FormKinds == {"host", "run", "summary", "retry", "change", "ask", "upload"}
PlainForms == [kind : FormKinds, call : Ids \cup {0}, back : {<<>>}, again : BOOLEAN]
OverForms ==
    [kind : {"summary"}, call : Ids \cup {0}, back : {<<f>> : f \in PlainForms \cup {None}}, again : BOOLEAN]
FormType == {None} \cup PlainForms \cup OverForms
PendingType == {None} \cup [id : Ids, name : FormKinds]

SessionType ==
    [mode : {"agent", "guided"}, form : FormType, pending : PendingType, asked : SUBSET Ids,
     told : [Ids -> 0 .. 2], strikes : Nat, struck : BOOLEAN, origin : {"text", "answer", "system"},
     ended : BOOLEAN, down : BOOLEAN, jobs : BOOLEAN, ran : BOOLEAN, torn : BOOLEAN]
ChatType == [now : SessionType, stored : SessionType, snaps : Seq(SessionType)]
TurnType ==
    [at : {"idle", "ask", "calls", "sum"}, todo : Seq(Ids), steps : Nat, repairs : Nat, failures : Nat,
     stop : BOOLEAN, done : BOOLEAN, first : BOOLEAN, said : BOOLEAN, asks : Nat, added : Nat]
TypeOK ==
    /\ profile \in Profiles /\ chat \in ChatType /\ turn \in TurnType
    /\ spent \in [calls : Nat, inputs : Nat, crashes : Nat]
-----------------------------------------------------------------------------
(* What the operators on a chat leave alone.                               *)

\* The part of a session that strikes are about.
Core(s) == <<s.strikes, s.ended, s.down>>

\* A chat that says the same of strikes; its mode stays, or becomes the guided one.
Keeps(c, d) ==
    /\ d \in ChatType
    /\ Core(d.now) = Core(c.now) /\ d.now.struck = c.now.struck
    /\ d.now.mode \in {c.now.mode, "guided"}
    /\ Core(d.stored) \in {Core(c.stored), Core(c.now)}
    /\ d.stored.mode \in {c.stored.mode, c.now.mode, "guided"}

LEMMA KeepsIt == \A c \in ChatType : Keeps(c, c)
  BY DEF Keeps

LEMMA KeepsOn ==
    ASSUME NEW c, NEW d, NEW e, Keeps(c, d), Keeps(d, e)
    PROVE  Keeps(c, e)
  BY DEF Keeps

\* A change of what is in memory that is not about strikes.
LEMMA NowKeeps ==
    ASSUME NEW c \in ChatType, NEW n \in SessionType, Core(n) = Core(c.now), n.struck = c.now.struck,
           n.mode \in {c.now.mode, "guided"}
    PROVE  Keeps(c, [c EXCEPT !.now = n])
  BY DEF Keeps, ChatType

LEMMA FormsTyped ==
    ASSUME NEW kind \in FormKinds, NEW call \in Ids \cup {0}
    PROVE  Form(kind, call) \in PlainForms /\ Form(kind, call) \in FormType
  BY DEF Form, PlainForms, FormType

\* A form opens: the session is stored, and kept for Back.
LEMMA OpenedKeeps ==
    ASSUME NEW c \in ChatType, NEW form \in FormType
    PROVE  Keeps(c, Opened(c, form))
  <1> DEFINE s == [c.now EXCEPT !.form = form]
             all == Append(c.snaps, s)
             snaps == IF Len(all) > MaxSnaps THEN Tail(all) ELSE all
  <1>1. c.now \in SessionType /\ c.snaps \in Seq(SessionType)
    BY DEF ChatType
  <1>2. s \in SessionType /\ Core(s) = Core(c.now) /\ s.struck = c.now.struck /\ s.mode = c.now.mode
    BY <1>1 DEF SessionType, Core
  <1> HIDE DEF s
  <1>3. snaps \in Seq(SessionType)
    <2>1. all \in Seq(SessionType) /\ all # <<>>
      BY <1>1, <1>2
    <2> HIDE DEF all
    <2>2. QED
      BY <2>1
  <1>4. Opened(c, form) = [now |-> s, stored |-> s, snaps |-> snaps]
    BY DEF Opened, s
  <1> HIDE DEF snaps
  <1>5. QED
    BY <1>2, <1>3, <1>4 DEF Keeps, ChatType

LEMMA ClosedKeeps ==
    ASSUME NEW c \in ChatType
    PROVE  Keeps(c, Closed(c))
  <1> DEFINE n == [c.now EXCEPT !.form = None]
  <1>1. n \in SessionType /\ Core(n) = Core(c.now) /\ n.struck = c.now.struck /\ n.mode = c.now.mode
    BY DEF ChatType, SessionType, Core, FormType
  <1>2. Closed(c) = [c EXCEPT !.now = n]
    BY DEF Closed, ChatType
  <1> HIDE DEF n
  <1>3. QED
    BY <1>1, <1>2, NowKeeps

LEMMA SavedKeeps ==
    ASSUME NEW c \in ChatType
    PROVE  Keeps(c, Saved(c)) /\ Saved(c).now = c.now /\ Saved(c).stored = c.now
  BY DEF Saved, Keeps, ChatType

LEMMA ToldKeeps ==
    ASSUME NEW c \in ChatType, NEW id \in Ids
    PROVE  Keeps(c, Told(c, id))
  <1> DEFINE t == [c.now.told EXCEPT ![id] = IF c.now.told[id] < 2 THEN c.now.told[id] + 1 ELSE 2]
             n == [c.now EXCEPT !.told = t]
  <1>1. c.now \in SessionType /\ c.now.told \in [Ids -> 0 .. 2]
    BY DEF ChatType, SessionType
  <1>2. t \in [Ids -> 0 .. 2]
    BY <1>1
  <1>3. Told(c, id) = [c EXCEPT !.now = n]
    BY <1>1 DEF Told, ChatType
  <1> HIDE DEF t
  <1>4. n \in SessionType /\ Core(n) = Core(c.now) /\ n.struck = c.now.struck /\ n.mode = c.now.mode
    BY <1>1, <1>2 DEF SessionType, Core
  <1> HIDE DEF n
  <1>5. QED
    BY <1>3, <1>4, NowKeeps

LEMMA AnsweredKeeps ==
    ASSUME NEW c \in ChatType
    PROVE  Keeps(c, [c EXCEPT !.now.pending = None])
  <1> DEFINE n == [c.now EXCEPT !.pending = None]
  <1>1. n \in SessionType /\ Core(n) = Core(c.now) /\ n.struck = c.now.struck /\ n.mode = c.now.mode
    BY DEF ChatType, SessionType, Core, PendingType
  <1>2. [c EXCEPT !.now.pending = None] = [c EXCEPT !.now = n]
    BY DEF ChatType
  <1> HIDE DEF n
  <1>3. QED
    BY <1>1, <1>2, NowKeeps

LEMMA ForgottenKeeps ==
    ASSUME NEW c \in ChatType
    PROVE  Keeps(c, Forgotten(c))
  <1> DEFINE n == [c.now EXCEPT !.pending = None, !.asked = {}, !.told = NoneTold, !.torn = FALSE]
  <1>1. NoneTold \in [Ids -> 0 .. 2]
    BY DEF NoneTold
  <1>2. n \in SessionType /\ Core(n) = Core(c.now) /\ n.struck = c.now.struck /\ n.mode = c.now.mode
    BY <1>1 DEF ChatType, SessionType, Core, PendingType
  <1>3. Forgotten(c) = [c EXCEPT !.now = n]
    BY DEF Forgotten, ChatType
  <1> HIDE DEF n
  <1>4. QED
    BY <1>2, <1>3, NowKeeps

LEMMA ToGuidedKeeps ==
    ASSUME NEW c \in ChatType
    PROVE  Keeps(c, ToGuided(c)) /\ ToGuided(c).now.mode = "guided"
  <1> DEFINE f == Forgotten(c)
             n == [f.now EXCEPT !.mode = "guided"]
  <1>1. Keeps(c, f)
    BY ForgottenKeeps
  <1>2. ToGuided(c) = [f EXCEPT !.now = n] /\ f \in ChatType
    BY <1>1 DEF ToGuided, ChatType, Keeps
  <1> HIDE DEF f
  <1>3. n \in SessionType /\ Core(n) = Core(f.now) /\ n.struck = f.now.struck /\ n.mode = "guided"
    BY <1>2 DEF ChatType, SessionType, Core
  <1> HIDE DEF n
  <1>4. Keeps(f, ToGuided(c)) /\ ToGuided(c).now = n
    BY <1>2, <1>3, NowKeeps DEF ChatType
  <1>5. QED
    BY <1>1, <1>3, <1>4, KeepsOn

LEMMA ResolvedKeeps ==
    ASSUME NEW c \in ChatType, c.now.pending # None
    PROVE  Keeps(c, Resolved(c))
  <1> DEFINE id == c.now.pending.id
             r == [Told(c, id) EXCEPT !.now.pending = None]
  <1>1. id \in Ids
    BY DEF ChatType, SessionType, PendingType
  <1>2. Keeps(c, Told(c, id)) /\ Told(c, id) \in ChatType
    BY <1>1, ToldKeeps DEF Keeps
  <1>3. Keeps(c, r) /\ r \in ChatType
    BY <1>2, AnsweredKeeps, KeepsOn DEF Keeps
  <1>4. Keeps(r, Closed(r))
    BY <1>3, ClosedKeeps
  <1>5. Resolved(c) \in {r, Closed(r)}
    BY DEF Resolved
  <1> HIDE DEF r
  <1>6. QED
    BY <1>3, <1>4, <1>5, KeepsOn

LEMMA AdvancesKeep ==
    ASSUME NEW c \in ChatType
    PROVE  /\ \A d \in AdvancesTo(c) : Keeps(c, d)
           /\ \A d \in Advances(c) : Keeps(c, d)
  <1>1. \A k \in {"host", "run", "summary"} : Keeps(c, Opened(c, Form(k, 0)))
    BY FormsTyped, OpenedKeeps DEF FormKinds
  <1>2. Keeps(c, c) /\ Keeps(c, Closed(c))
    BY KeepsIt, ClosedKeeps
  <1>3. QED
    BY <1>1, <1>2 DEF AdvancesTo, Advances

\* The rules go on from a chat that kept what it had.
LEMMA AdvancesKeepOn ==
    ASSUME NEW c \in ChatType, NEW d, Keeps(c, d)
    PROVE  /\ \A e \in AdvancesTo(d) : Keeps(c, e)
           /\ \A e \in Advances(d) : Keeps(c, e)
  BY AdvancesKeep, KeepsOn DEF Keeps

LEMMA RenewedKeeps ==
    ASSUME NEW c \in ChatType
    PROVE  Keeps(c, Renewed(c))
  <1> DEFINE n == [c.now EXCEPT !.jobs = FALSE, !.ran = FALSE]
             snaps == IF c.now.ran THEN <<>> ELSE c.snaps
  <1>1. n \in SessionType /\ Core(n) = Core(c.now) /\ n.struck = c.now.struck /\ n.mode = c.now.mode
    BY DEF ChatType, SessionType, Core
  <1>2. snaps \in Seq(SessionType)
    BY DEF ChatType
  <1>3. Renewed(c) = [c EXCEPT !.now = n, !.snaps = snaps]
    BY DEF Renewed, ChatType
  <1> HIDE DEF n, snaps
  <1>4. QED
    BY <1>1, <1>2, <1>3 DEF Keeps, ChatType

\* A form and what is under it are forms.
LEMMA FormUnder ==
    ASSUME NEW f \in FormType, f # None
    PROVE  /\ f.call \in Ids \cup {0} /\ f.kind \in FormKinds
           /\ f.kind # "summary" => f \in PlainForms
           /\ f.back # <<>> => f.back = <<f.back[1]>> /\ f.back[1] \in PlainForms \cup {None}
           /\ [f EXCEPT !.call = 0] \in FormType
           /\ f \in PlainForms => [f EXCEPT !.again = TRUE] \in FormType
  <1>1. CASE f \in PlainForms
    <2>1. f.back = <<>> /\ f.kind \in FormKinds /\ f.call \in Ids \cup {0}
      BY <1>1 DEF PlainForms
    <2>2. [f EXCEPT !.call = 0] \in PlainForms /\ [f EXCEPT !.again = TRUE] \in PlainForms
      BY <1>1 DEF PlainForms
    <2>3. QED
      BY <1>1, <2>1, <2>2 DEF FormType
  <1>2. CASE f \in OverForms
    <2>1. PICK g \in PlainForms \cup {None} : f.back = <<g>>
      BY <1>2 DEF OverForms
    <2>2. f.call \in Ids \cup {0} /\ f.kind = "summary" /\ f.again \in BOOLEAN
      BY <1>2 DEF OverForms
    <2>3. f.back # <<>> /\ f.back[1] = g
      BY <2>1
    <2>4. [f EXCEPT !.call = 0] \in OverForms
      BY <1>2 DEF OverForms
    <2>5. f \notin PlainForms
      BY <2>3 DEF PlainForms
    <2>6. QED
      BY <2>1, <2>2, <2>3, <2>4, <2>5 DEF FormType, FormKinds
  <1>3. QED
    BY <1>1, <1>2 DEF FormType

\* A request summary is a form over another, and of no call.
LEMMA SummaryOver ==
    ASSUME NEW c \in ChatType
    PROVE  \E form \in FormType : form.call = 0 /\ Summary(c) = Opened(c, form)
  <1> DEFINE f == c.now.form
             under == IF ~Shows(c, {"summary"}) THEN <<f>>
                      ELSE IF f.back = <<>> THEN <<None>> ELSE f.back
             form == [Form("summary", 0) EXCEPT !.back = under]
  <1>1. f \in FormType
    BY DEF ChatType, SessionType
  <1>2. under \in {<<g>> : g \in PlainForms \cup {None}}
    <2>1. CASE f = None
      BY <2>1 DEF Shows
    <2>2. CASE f # None /\ f.kind # "summary"
      BY <1>1, <2>2, FormUnder DEF Shows
    <2>3. CASE f # None /\ f.kind = "summary"
      <3>1. f.back # <<>> => f.back = <<f.back[1]>> /\ f.back[1] \in PlainForms \cup {None}
        BY <1>1, <2>3, FormUnder
      <3>2. under = IF f.back = <<>> THEN <<None>> ELSE f.back
        BY <2>3 DEF Shows
      <3> HIDE DEF under
      <3>3. QED
        BY <3>1, <3>2
    <2>4. QED
      BY <2>1, <2>2, <2>3
  <1>3. Form("summary", 0) \in PlainForms /\ Form("summary", 0).kind = "summary" /\ Form("summary", 0).call = 0
    BY FormsTyped DEF Form, FormKinds
  <1>4. Summary(c) = Opened(c, form)
    BY DEF Summary
  <1> HIDE DEF under
  <1>5. form \in FormType /\ form.call = 0
    BY <1>2, <1>3 DEF FormType, OverForms, PlainForms
  <1>6. QED
    BY <1>4, <1>5

LEMMA SummaryKeeps ==
    ASSUME NEW c \in ChatType
    PROVE  Keeps(c, Summary(c))
  BY SummaryOver, OpenedKeeps

LEMMA SummaryAnsweredKeep ==
    ASSUME NEW c \in ChatType, Shows(c, {"summary"})
    PROVE  \A d \in SummaryAnswered(c) : Keeps(c, d)
  <1> DEFINE f == c.now.form
             under == f.back[1]
  <1>1. f \in FormType /\ f # None
    BY DEF ChatType, SessionType, Shows
  <1>2. CASE f.back = <<>> \/ c.now.mode = "guided"
    BY <1>2, AdvancesKeep DEF SummaryAnswered
  <1>3. CASE ~(f.back = <<>> \/ c.now.mode = "guided")
    <2>1. under \in PlainForms \cup {None}
      BY <1>1, <1>3, FormUnder
    <2>2. under # None => [under EXCEPT !.again = TRUE] \in FormType
      <3>1. under # None => under \in FormType /\ under \in PlainForms
        BY <2>1 DEF FormType
      <3> HIDE DEF under
      <3>2. QED
        BY <3>1, FormUnder
    <2>3. Keeps(c, Closed(c))
      BY ClosedKeeps
    <2>4. under # None => Keeps(c, Opened(c, [under EXCEPT !.again = TRUE]))
      BY <2>2, OpenedKeeps
    <2>5. \A d \in SummaryAnswered(c) :
             d = Closed(c) \/ (under # None /\ d = Opened(c, [under EXCEPT !.again = TRUE]))
      BY <1>3 DEF SummaryAnswered
    <2> HIDE DEF under
    <2>6. QED
      BY <2>3, <2>4, <2>5
  <1>4. QED
    BY <1>2, <1>3

LEMMA ReleasedKeeps ==
    ASSUME NEW c \in ChatType, NEW close \in BOOLEAN
    PROVE  Keeps(c, Released(c, close))
  <1> DEFINE r == IF c.now.pending = None THEN c
                  ELSE [Told(c, c.now.pending.id) EXCEPT !.now.pending = None]
  <1>1. Keeps(c, r) /\ r \in ChatType
    <2>1. CASE c.now.pending = None
      BY <2>1, KeepsIt
    <2>2. CASE c.now.pending # None
      <3>1. c.now.pending.id \in Ids
        BY <2>2 DEF ChatType, SessionType, PendingType
      <3>2. Keeps(c, Told(c, c.now.pending.id)) /\ Told(c, c.now.pending.id) \in ChatType
        BY <3>1, ToldKeeps DEF Keeps
      <3>3. Keeps(c, [Told(c, c.now.pending.id) EXCEPT !.now.pending = None])
        BY <3>2, AnsweredKeeps, KeepsOn
      <3>4. QED
        BY <2>2, <3>3 DEF Keeps
    <2>3. QED
      BY <2>1, <2>2
  <1>2. Released(c, close) = IF close THEN Closed(r)
                             ELSE IF OfModel(r) THEN Opened(r, [r.now.form EXCEPT !.call = 0]) ELSE r
    BY DEF Released
  <1> HIDE DEF r
  <1>3. OfModel(r) => [r.now.form EXCEPT !.call = 0] \in FormType
    BY <1>1, FormUnder DEF OfModel, ChatType, SessionType
  <1>4. QED
    BY <1>1, <1>2, <1>3, ClosedKeeps, OpenedKeeps, KeepsOn

LEMMA ChangedKeep ==
    ASSUME NEW c \in ChatType
    PROVE  \A d \in Changed(c) : Keeps(c, d)
  <1> DEFINE r == Released(c, TRUE)
  <1>1. Keeps(c, r) /\ r \in ChatType
    BY ReleasedKeeps DEF Keeps
  <1>2. Form("change", 0) \in FormType
    BY FormsTyped DEF FormKinds
  <1>3. Keeps(c, Opened(r, Form("change", 0)))
    BY <1>1, <1>2, OpenedKeeps, KeepsOn
  <1>4. \A d \in Advances(r) : Keeps(c, d)
    BY <1>1, AdvancesKeepOn
  <1>5. QED
    BY <1>3, <1>4, KeepsIt DEF Changed

LEMMA RevisedKeep ==
    ASSUME NEW c \in ChatType
    PROVE  \A d \in Revised(c) : Keeps(c, d)
  <1>1. Keeps(c, Released(c, FALSE))
    BY ReleasedKeeps
  <1>2. QED
    BY <1>1, ChangedKeep, AdvancesKeepOn DEF Revised

LEMMA StartedKeeps ==
    ASSUME NEW c \in ChatType
    PROVE  /\ Keeps(c, SomeStarted(c)) /\ Keeps(c, Started(c))
           /\ \A d \in Runs(c) : Keeps(c, d)
  <1> DEFINE n == [c.now EXCEPT !.jobs = TRUE, !.ran = TRUE]
  <1>1. n \in SessionType /\ Core(n) = Core(c.now) /\ n.struck = c.now.struck /\ n.mode = c.now.mode
    BY DEF ChatType, SessionType, Core
  <1>2. SomeStarted(c) = [c EXCEPT !.now = n, !.snaps = <<>>]
    BY DEF SomeStarted, ChatType
  <1> HIDE DEF n
  <1>3. Keeps(c, SomeStarted(c))
    <2>1. <<>> \in Seq(SessionType)
      OBVIOUS
    <2>2. SomeStarted(c) \in ChatType
      BY <1>1, <1>2, <2>1 DEF ChatType
    <2>3. SomeStarted(c).now = n /\ SomeStarted(c).stored = c.stored
      BY <1>2 DEF ChatType
    <2>4. QED
      BY <1>1, <2>2, <2>3 DEF Keeps
  <1>4. Keeps(c, Started(c))
    BY <1>3, ClosedKeeps, KeepsOn DEF Started, Keeps
  <1>5. QED
    BY <1>3, <1>4, AdvancesKeep, AdvancesKeepOn DEF Runs

LEMMA GuidedKeep ==
    ASSUME NEW c \in ChatType
    PROVE  /\ \A d \in GuidedText(c) : Keeps(c, d)
           /\ \A d \in GuidedAnswer(c) : Keeps(c, d)
  <1>1. Form("retry", 0) \in FormType
    BY FormsTyped DEF FormKinds
  <1>2. Keeps(c, c) /\ Keeps(c, Summary(c)) /\ Keeps(c, Opened(c, Form("retry", 0)))
    BY <1>1, KeepsIt, SummaryKeeps, OpenedKeeps
  <1>3. /\ \A d \in Advances(c) : Keeps(c, d)
        /\ \A d \in Advances(Renewed(c)) : Keeps(c, d)
        /\ \A d \in Revised(c) : Keeps(c, d)
        /\ \A d \in Runs(c) : Keeps(c, d)
        /\ Shows(c, {"summary"}) => \A d \in SummaryAnswered(c) : Keeps(c, d)
    BY AdvancesKeep, AdvancesKeepOn, RenewedKeeps, RevisedKeep, StartedKeeps, SummaryAnsweredKeep
  <1>4. \A d \in GuidedText(c) : Keeps(c, d)
    BY <1>2, <1>3 DEF GuidedText
  <1>5. /\ Keeps(c, Started(c)) /\ Keeps(c, SomeStarted(c))
        /\ \A d \in Advances(Closed(c)) : Keeps(c, d)
    BY StartedKeeps, ClosedKeeps, AdvancesKeepOn
  <1>6. QED
    BY <1>4, <1>5 DEF GuidedAnswer

LEMMA PairedKeeps ==
    ASSUME NEW c \in ChatType
    PROVE  Keeps(c, Paired(c))
  <1> DEFINE t == [i \in Ids |-> IF i \in Unanswered(c.now) THEN 1 ELSE c.now.told[i]]
             n == [c.now EXCEPT !.told = t]
  <1>1. t \in [Ids -> 0 .. 2]
    BY DEF ChatType, SessionType
  <1>2. Paired(c) = [c EXCEPT !.now = n]
    BY DEF Paired, ChatType, SessionType
  <1> HIDE DEF t
  <1>3. n \in SessionType /\ Core(n) = Core(c.now) /\ n.struck = c.now.struck /\ n.mode = c.now.mode
    BY <1>1 DEF ChatType, SessionType, Core
  <1> HIDE DEF n
  <1>4. QED
    BY <1>2, <1>3, NowKeeps
-----------------------------------------------------------------------------
(* Strikes.                                                                *)

\* A session at the limit has ended, where the profile ends it.
Full(s) == profile.action = "end_session" /\ s.strikes >= Limit => s.ended

\* What is stored says the same of strikes as what is in memory, and guided for good is guided.
Sound(c) ==
    /\ Core(c.stored) = Core(c.now) /\ Full(c.now)
    /\ c.now.down => c.now.mode = "guided" /\ c.stored.mode = "guided"

LEMMA KeepsSound ==
    ASSUME NEW c \in ChatType, Sound(c), NEW d, Keeps(c, d)
    PROVE  Sound(d)
  BY DEF Keeps, Sound, Core, Full

\* What a guard that strikes leaves of a chat.
Strikes(c, r) ==
    /\ r.chat \in ChatType /\ r.raised \in BOOLEAN /\ r.chat.now.struck
    /\ r.chat.now.strikes = IF c.now.struck THEN c.now.strikes ELSE c.now.strikes + 1
    /\ c.now.ended => r.chat.now.ended
    /\ c.now.down => r.chat.now.down
    /\ r.chat.now.down => r.chat.now.mode = "guided"
    /\ Full(r.chat.now)
    /\ ~r.raised => Sound(r.chat)

LEMMA StruckStrikes ==
    ASSUME TypeOK, NEW c \in ChatType, Sound(c)
    PROVE  \A r \in Struck(c) : Strikes(c, r)
  <1> DEFINE n == [c.now EXCEPT !.strikes = c.now.strikes + 1, !.struck = TRUE]
             k == Counted(c)
  <1>1. CASE c.now.struck
    <2>1. \A r \in Struck(c) : r = [chat |-> c, raised |-> FALSE]
      BY <1>1 DEF Struck
    <2>2. [chat |-> c, raised |-> FALSE].chat = c /\ [chat |-> c, raised |-> FALSE].raised = FALSE
      OBVIOUS
    <2>3. Strikes(c, [chat |-> c, raised |-> FALSE])
      BY <1>1, <2>2 DEF Strikes, Sound
    <2>4. QED
      BY <2>1, <2>3
  <1>2. CASE ~c.now.struck
    <2>1. /\ k \in ChatType /\ k.now = n /\ k.stored = c.stored /\ n \in SessionType
          /\ n.strikes = c.now.strikes + 1 /\ n.struck /\ n.ended = c.now.ended /\ n.down = c.now.down
          /\ n.mode = c.now.mode
      <3>1. n \in SessionType /\ n.strikes = c.now.strikes + 1 /\ n.struck /\ n.ended = c.now.ended
            /\ n.down = c.now.down /\ n.mode = c.now.mode
        <4>1. c.now \in SessionType /\ c.now.strikes + 1 \in Nat
          BY DEF ChatType, SessionType
        <4>2. n \in SessionType
          BY <4>1 DEF SessionType
        <4>3. n.strikes = c.now.strikes + 1 /\ n.struck = TRUE /\ n.ended = c.now.ended
              /\ n.down = c.now.down /\ n.mode = c.now.mode
          BY <4>1 DEF SessionType
        <4>4. QED
          BY <4>2, <4>3
      <3>2. k = [c EXCEPT !.now = n]
        BY DEF Counted, ChatType
      <3> HIDE DEF n
      <3>3. QED
        BY <3>1, <3>2 DEF ChatType
    <2> HIDE DEF n, k
    <2>2. \A d : Keeps(k, d) /\ Full(d.now) => Strikes(c, [chat |-> Saved(d), raised |-> FALSE])
      <3> SUFFICES ASSUME NEW d, Keeps(k, d), Full(d.now)
                   PROVE  Strikes(c, [chat |-> Saved(d), raised |-> FALSE])
        OBVIOUS
      <3>1. d \in ChatType /\ Saved(d) \in ChatType /\ Saved(d).now = d.now /\ Saved(d).stored = d.now
        BY SavedKeeps DEF Keeps
      <3>2. /\ d.now.strikes = c.now.strikes + 1 /\ d.now.struck /\ d.now.ended = c.now.ended
            /\ d.now.down = c.now.down /\ d.now.mode \in {c.now.mode, "guided"}
        BY <2>1 DEF Keeps, Core
      <3>3. QED
        BY <1>2, <3>1, <3>2 DEF Strikes, Sound, Core
    <2>3. Keeps(k, k)
      BY <2>1, KeepsIt
    <2>4. profile.action \in {"warn", "end_session", "guided"} /\ Limit \in Nat /\ k.now.strikes \in Nat
      BY <2>1, TurnAssumption DEF TypeOK, TurnAssumption, SessionType
    <2>5. CASE profile.action = "warn" \/ k.now.strikes < Limit
      <3>1. \A r \in Limited(k) : r = [chat |-> Saved(k), raised |-> FALSE]
        BY <2>4, <2>5 DEF Limited, Quietly
      <3>2. Full(k.now)
        BY <2>4, <2>5 DEF Full
      <3>3. QED
        BY <1>2, <2>2, <2>3, <3>1, <3>2 DEF Struck, k
    <2>6. CASE profile.action = "end_session" /\ ~(k.now.strikes < Limit)
      <3> DEFINE f == Closed(Forgotten(k))
                 m == [f.now EXCEPT !.ended = TRUE, !.torn = (turn.at = "calls")]
                 e == [f EXCEPT !.now = m]
      <3>1. Keeps(k, f) /\ f \in ChatType
        BY <2>1, ForgottenKeeps, ClosedKeeps, KeepsOn DEF Keeps
      <3> HIDE DEF f
      <3>2. /\ m \in SessionType /\ m.ended /\ m.strikes = c.now.strikes + 1 /\ m.struck
            /\ m.down = c.now.down /\ m.mode \in {c.now.mode, "guided"}
        <4>1. f.now \in SessionType /\ f.now.strikes = c.now.strikes + 1 /\ f.now.struck
              /\ f.now.down = c.now.down /\ f.now.mode \in {c.now.mode, "guided"}
          BY <2>1, <3>1 DEF ChatType, Keeps, Core
        <4>2. m \in SessionType
          BY <4>1 DEF SessionType
        <4>3. m.ended = TRUE /\ m.strikes = f.now.strikes /\ m.struck = f.now.struck
              /\ m.down = f.now.down /\ m.mode = f.now.mode
          BY <4>1 DEF SessionType
        <4>4. QED
          BY <4>1, <4>2, <4>3
      <3> HIDE DEF m
      <3>3. e \in ChatType /\ e.now = m
        BY <3>1, <3>2 DEF ChatType
      <3>4. \A r \in Limited(k) : r = [chat |-> Saved(e), raised |-> FALSE]
        <4>1. [f EXCEPT !.now.ended = TRUE, !.now.torn = (turn.at = "calls")] = e
          BY <3>1 DEF m, ChatType, SessionType
        <4>2. Limited(k) = Quietly({[f EXCEPT !.now.ended = TRUE, !.now.torn = (turn.at = "calls")]})
          BY <2>4, <2>6 DEF Limited, f
        <4> HIDE DEF e
        <4>3. QED
          BY <4>1, <4>2 DEF Quietly
      <3> HIDE DEF e
      <3>5. Strikes(c, [chat |-> Saved(e), raised |-> FALSE])
        <4>1. Saved(e) \in ChatType /\ Saved(e).now = m /\ Saved(e).stored = m
          BY <3>3, SavedKeeps DEF Keeps
        <4>2. QED
          BY <1>2, <3>2, <4>1 DEF Strikes, Sound, Core, Full
      <3>6. QED
        BY <1>2, <3>4, <3>5 DEF Struck, k
    <2>7. CASE profile.action = "guided" /\ ~(k.now.strikes < Limit)
      <3>1. \A s : Full(s)
        BY <2>7 DEF Full
      <3>2. CASE k.now.down
        <4>1. \A r \in Limited(k) : r = [chat |-> Saved(k), raised |-> FALSE]
          BY <2>4, <2>7, <3>2 DEF Limited, Quietly
        <4>2. QED
          BY <1>2, <2>2, <2>3, <3>1, <4>1 DEF Struck, k
      <3>3. CASE ~k.now.down
        <4> DEFINE g == IF k.now.mode = "guided" THEN k ELSE ToGuided(k)
                   shown == IF k.now.mode = "agent" /\ NeedsForm(g) THEN AdvancesTo(Closed(g)) ELSE {g}
        <4>1. Keeps(k, g) /\ g.now.mode = "guided"
          BY <2>1, <2>3, ToGuidedKeeps
        <4>2. Limited(k) = Quietly({[d EXCEPT !.now.down = TRUE] : d \in shown})
                           \cup (IF shown = {g} THEN {} ELSE {[chat |-> Closed(g), raised |-> TRUE]})
          BY <2>4, <2>7, <3>3 DEF Limited
        <4> HIDE DEF g
        <4>3. Keeps(k, Closed(g)) /\ Closed(g).now.mode = "guided"
          BY <4>1, ClosedKeeps, KeepsOn DEF Keeps
        <4>4. \A d \in shown : Keeps(k, d) /\ d.now.mode = "guided"
          <5>1. \A d \in AdvancesTo(Closed(g)) : Keeps(k, d) /\ Keeps(Closed(g), d)
            BY <2>1, <4>3, AdvancesKeepOn, AdvancesKeep DEF Keeps
          <5>2. \A d : Keeps(Closed(g), d) => d.now.mode = "guided"
            BY <4>3 DEF Keeps
          <5>3. QED
            BY <4>1, <5>1, <5>2
        <4> HIDE DEF shown
        <4>5. ASSUME NEW d \in shown
              PROVE  Strikes(c, [chat |-> Saved([d EXCEPT !.now.down = TRUE]), raised |-> FALSE])
          <5> DEFINE m == [d.now EXCEPT !.down = TRUE]
                     e == [d EXCEPT !.now = m]
          <5>1. Keeps(k, d) /\ d.now.mode = "guided" /\ d \in ChatType
            BY <4>4 DEF Keeps
          <5>2. /\ m \in SessionType /\ m.down /\ m.mode = "guided" /\ m.struck
                /\ m.strikes = c.now.strikes + 1 /\ m.ended = c.now.ended
            <6>1. d.now \in SessionType /\ d.now.struck /\ d.now.strikes = c.now.strikes + 1
                  /\ d.now.ended = c.now.ended
              BY <2>1, <5>1 DEF Keeps, Core, ChatType
            <6>2. m \in SessionType
              BY <6>1 DEF SessionType
            <6>3. m.down = TRUE /\ m.mode = d.now.mode /\ m.struck = d.now.struck
                  /\ m.strikes = d.now.strikes /\ m.ended = d.now.ended
              BY <6>1 DEF SessionType
            <6>4. QED
              BY <5>1, <6>1, <6>2, <6>3
          <5>3. [d EXCEPT !.now.down = TRUE] = e
            BY <5>1 DEF ChatType
          <5> HIDE DEF m
          <5>4. e \in ChatType /\ e.now = m
            BY <5>1, <5>2 DEF ChatType
          <5> HIDE DEF e
          <5>5. Saved(e) \in ChatType /\ Saved(e).now = m /\ Saved(e).stored = m
            BY <5>4, SavedKeeps DEF Keeps
          <5>6. QED
            BY <1>2, <3>1, <5>2, <5>3, <5>5 DEF Strikes, Sound, Core
        <4>6. Strikes(c, [chat |-> Closed(g), raised |-> TRUE])
          <5>1. /\ Closed(g) \in ChatType /\ Closed(g).now.struck
                /\ Closed(g).now.strikes = c.now.strikes + 1
                /\ Closed(g).now.ended = c.now.ended /\ Closed(g).now.down = c.now.down
            BY <2>1, <4>3 DEF Keeps, Core
          <5>2. QED
            BY <1>2, <3>1, <4>3, <5>1 DEF Strikes
        <4>7. QED
          BY <1>2, <4>2, <4>5, <4>6 DEF Struck, k, Quietly
      <3>4. QED
        BY <3>2, <3>3
    <2>8. QED
      BY <2>4, <2>5, <2>6, <2>7
  <1>3. QED
    BY <1>1, <1>2
-----------------------------------------------------------------------------
(* One step.                                                               *)

\* The inductive invariant: a turn that counted a strike is marked, and no strike is unsaved.
StrikeInv ==
    /\ TypeOK /\ Sound(chat)
    /\ turn.added > 0 => chat.now.struck
    /\ turn.at = "idle" => turn.added = 0

\* The action of StrikesStick.
Stick ==
    LET s == chat'.now IN
    /\ s.strikes > chat.now.strikes => s.strikes = chat.now.strikes + 1 /\ turn.added = 0
    /\ s.strikes < chat.now.strikes =>
          s.strikes = 0 /\ (profile.counting = "consecutive" \/ chat.now.ended)
    /\ chat.now.down => s.down /\ s.mode = "guided"
    /\ chat.now.ended /\ ~s.ended => profile.reopen
    /\ turn'.at = "idle" /\ s.strikes >= Limit /\ profile.action = "end_session" => s.ended

\* What a step must leave.
Leaves ==
    /\ chat' \in ChatType /\ turn' \in TurnType /\ Sound(chat')
    /\ turn'.added > 0 => chat'.now.struck
    /\ turn'.at = "idle" => turn'.added = 0
    /\ Stick

\* A chat with the strikes of the current one.
Like(c) == c \in ChatType /\ Sound(c) /\ Core(c.now) = Core(chat.now)

LEMMA IdleTyped == Idle \in TurnType /\ Idle.added = 0 /\ Idle.at = "idle"
  <1>1. <<>> \in Seq(Ids)
    OBVIOUS
  <1>2. QED
    BY <1>1 DEF Idle, TurnType

LEMMA CoreParts ==
    ASSUME NEW s, NEW t, Core(s) = Core(t)
    PROVE  s.strikes = t.strikes /\ s.ended = t.ended /\ s.down = t.down
  BY DEF Core

LEMMA KeepsLike ==
    ASSUME StrikeInv, NEW c, Like(c), NEW d, Keeps(c, d)
    PROVE  Like(d) /\ d.now.struck = c.now.struck
  <1>1. Sound(d)
    BY KeepsSound DEF Like
  <1>2. QED
    BY <1>1 DEF Like, Keeps

LEMMA LikeIt == ASSUME StrikeInv PROVE Like(chat)
  BY DEF Like, StrikeInv, TypeOK

LEMMA GuardedLike ==
    ASSUME StrikeInv, NEW origin \in {"text", "answer", "system"}
    PROVE  Like(Guarded(origin)) /\ ~Guarded(origin).now.struck
           /\ Guarded(origin).now.pending = chat.now.pending
           /\ Guarded(origin).now.mode = chat.now.mode
           /\ Guarded(origin).now.form = chat.now.form
  <1> DEFINE n == [chat.now EXCEPT !.struck = FALSE, !.origin = origin]
  <1>1. chat \in ChatType /\ Sound(chat) /\ chat.now \in SessionType
    BY DEF StrikeInv, TypeOK, ChatType
  <1>2. /\ n \in SessionType /\ Core(n) = Core(chat.now) /\ n.mode = chat.now.mode
        /\ n.pending = chat.now.pending /\ n.struck = FALSE /\ n.form = chat.now.form
    BY <1>1 DEF SessionType, Core
  <1>3. Guarded(origin) = [chat EXCEPT !.now = n]
    BY <1>1 DEF Guarded, ChatType
  <1> HIDE DEF n
  <1>4. Guarded(origin) \in ChatType /\ Guarded(origin).now = n /\ Guarded(origin).stored = chat.stored
    BY <1>1, <1>2, <1>3 DEF ChatType
  <1>5. Sound(Guarded(origin))
    BY <1>1, <1>2, <1>4, CoreParts DEF Sound, Full
  <1>6. QED
    BY <1>2, <1>4, <1>5 DEF Like

\* An input ends with a chat like the current one.
LEMMA SettlesLeave ==
    ASSUME StrikeInv, NEW d, Like(d), NEW said, Settles(d, said)
    PROVE  Leaves
  <1>1. /\ d \in ChatType /\ Sound(d) /\ d.now \in SessionType
        /\ d.now.strikes = chat.now.strikes /\ d.now.ended = chat.now.ended /\ d.now.down = chat.now.down
        /\ chat.now.strikes \in Nat /\ Limit \in Nat \ {0}
    BY CoreParts, TurnAssumption DEF Like, ChatType, StrikeInv, TypeOK, SessionType, TurnAssumption
  <1>2. turn' \in TurnType /\ turn'.added = 0
    BY IdleTyped DEF Settles
  <1>3. CASE ~(profile.counting = "consecutive" /\ said /\ ~d.now.struck)
    <2>1. chat' = Saved(d)
      BY <1>3 DEF Settles
    <2>2. chat' \in ChatType /\ chat'.now = d.now /\ chat'.stored = d.now
      BY <1>1, <2>1, SavedKeeps DEF Keeps
    <2>3. Sound(chat')
      BY <1>1, <2>2 DEF Sound
    <2>4. Stick
      BY <1>1, <2>2 DEF Stick, Sound, Full
    <2>5. QED
      BY <1>2, <2>2, <2>3, <2>4 DEF Leaves
  <1>4. CASE profile.counting = "consecutive" /\ said /\ ~d.now.struck
    <2> DEFINE m == [d.now EXCEPT !.strikes = 0]
               e == [d EXCEPT !.now = m]
    <2>1. /\ m \in SessionType /\ m.strikes = 0 /\ m.ended = d.now.ended /\ m.down = d.now.down
          /\ m.mode = d.now.mode
      BY <1>1 DEF SessionType
    <2>2. chat' = Saved([d EXCEPT !.now.strikes = 0]) /\ [d EXCEPT !.now.strikes = 0] = e
      BY <1>1, <1>4 DEF Settles, ChatType
    <2> HIDE DEF m
    <2>3. e \in ChatType /\ e.now = m
      BY <1>1, <2>1 DEF ChatType
    <2> HIDE DEF e
    <2>4. chat' \in ChatType /\ chat'.now = m /\ chat'.stored = m
      BY <2>2, <2>3, SavedKeeps DEF Keeps
    <2>5. Sound(chat')
      BY <1>1, <2>1, <2>4 DEF Sound, Full
    <2>6. Stick
      BY <1>1, <1>4, <2>1, <2>4 DEF Stick, Sound, Full
    <2>7. QED
      BY <1>2, <2>4, <2>5, <2>6 DEF Leaves
  <1>5. QED
    BY <1>3, <1>4

\* A strike of this input, and what follows from it.
LEMMA StrikeLeaves ==
    ASSUME StrikeInv, NEW c, Like(c), ~c.now.struck => turn.added = 0, NEW r \in Struck(c)
    PROVE  /\ \A said : Settles(r.chat, said) => Leaves
           /\ ~r.raised /\ chat' \in ChatType /\ Keeps(r.chat, chat') /\ turn' \in TurnType
                 /\ turn'.at # "idle" => Leaves
  <1>1. Strikes(c, r)
    BY StruckStrikes DEF Like, StrikeInv
  <1>2. /\ c.now.strikes = chat.now.strikes /\ c.now.ended = chat.now.ended /\ c.now.down = chat.now.down
        /\ chat.now.strikes \in Nat
    BY CoreParts DEF Like, StrikeInv, TypeOK, ChatType, SessionType
  <1>3. ASSUME NEW said, Settles(r.chat, said) PROVE Leaves
    <2>1. chat' = Saved(r.chat) /\ turn' = Idle
      BY <1>1, <1>3 DEF Settles, Strikes
    <2>2. chat' \in ChatType /\ chat'.now = r.chat.now /\ chat'.stored = r.chat.now
      BY <1>1, <2>1, SavedKeeps DEF Keeps, Strikes
    <2>3. Sound(chat')
      BY <1>1, <2>2 DEF Sound, Strikes
    <2>4. Stick
      BY <1>1, <1>2, <2>2 DEF Stick, Strikes, Full
    <2>5. QED
      BY <2>1, <2>2, <2>3, <2>4, IdleTyped DEF Leaves
  <1>4. ASSUME ~r.raised, chat' \in ChatType, Keeps(r.chat, chat'), turn' \in TurnType, turn'.at # "idle"
        PROVE  Leaves
    <2>1. Sound(chat')
      BY <1>1, <1>4, KeepsSound DEF Strikes
    <2>2. /\ chat'.now.strikes = r.chat.now.strikes /\ chat'.now.ended = r.chat.now.ended
          /\ chat'.now.down = r.chat.now.down /\ chat'.now.struck
      BY <1>1, <1>4 DEF Keeps, Core, Strikes
    <2>3. Stick
      BY <1>1, <1>2, <1>4, <2>1, <2>2 DEF Stick, Strikes, Sound
    <2>4. QED
      BY <1>4, <2>1, <2>2, <2>3 DEF Leaves
  <1>5. QED
    BY <1>3, <1>4

\* The turn goes on with a chat like the current one.
LEMMA GoesOn ==
    ASSUME StrikeInv, Like(chat'), turn' \in TurnType,
           turn'.added > 0 => turn'.added = turn.added /\ chat'.now.struck = chat.now.struck,
           turn'.at = "idle" => turn'.added = 0
    PROVE  Leaves
  <1>1. /\ chat'.now.strikes = chat.now.strikes /\ chat'.now.ended = chat.now.ended
        /\ chat'.now.down = chat.now.down /\ chat.now.strikes \in Nat
    BY CoreParts DEF Like, StrikeInv, TypeOK, ChatType, SessionType
  <1>2. Stick
    BY <1>1 DEF Stick, Like, Sound, Full
  <1>3. QED
    BY <1>2 DEF Leaves, Like, StrikeInv

\* An input that the rules handle.
LEMMA RulesLeave ==
    ASSUME StrikeInv, NEW origin \in {"text", "answer", "system"}, NEW d, Keeps(Guarded(origin), d),
           NEW said, Settles(d, said)
    PROVE  Leaves
  <1>1. Like(d)
    BY GuardedLike, KeepsLike
  <1>2. QED
    BY <1>1, SettlesLeave

\* An input that goes to the model.
LEMMA LoopsLeave ==
    ASSUME StrikeInv, NEW origin \in {"text", "answer", "system"}, NEW d, Keeps(Guarded(origin), d),
           NEW said \in BOOLEAN, NEW first \in BOOLEAN, Loops(d, said, first)
    PROVE  Leaves
  <1>1. Like(d)
    BY GuardedLike, KeepsLike
  <1>2. turn' \in TurnType /\ turn'.added = 0 /\ turn'.at = "ask"
    <2>1. Idle \in TurnType /\ Idle.added = 0
      BY IdleTyped
    <2> HIDE DEF Idle
    <2>2. QED
      BY <2>1 DEF Loops, TurnType
  <1>3. QED
    BY <1>1, <1>2, GoesOn DEF Loops

\* The pending question of a guarded session has its result, with its form closed first.
LEMMA GuardedResolves ==
    ASSUME StrikeInv, NEW origin \in {"text", "answer", "system"}, chat.now.pending # None
    PROVE  /\ Keeps(Guarded(origin), Resolved(Closed(Guarded(origin))))
           /\ Keeps(Guarded(origin), Resolved(Guarded(origin)))
  <1> DEFINE g == Guarded(origin)
  <1>1. g \in ChatType /\ g.now.pending # None
    BY GuardedLike DEF Like
  <1>2. Keeps(g, Closed(g)) /\ Closed(g) \in ChatType /\ Closed(g).now.pending # None
    <2>1. Keeps(g, Closed(g))
      BY <1>1, ClosedKeeps
    <2>2. Closed(g).now.pending = g.now.pending
      BY <1>1 DEF Closed, ChatType, SessionType
    <2>3. QED
      BY <1>1, <2>1, <2>2 DEF Keeps
  <1> HIDE DEF g
  <1>3. QED
    BY <1>1, <1>2, ResolvedKeeps, KeepsOn DEF g

LEMMA TextsLeave ==
    ASSUME StrikeInv,
           \/ SmallTalk \/ TextToRules \/ TextRevises \/ TextAnswers \/ TextToModel
           \/ AnswerStale \/ AnswerChanges \/ AnswerToRules \/ AnswerInWords
    PROVE  Leaves
  <1> DEFINE g(origin) == Guarded(origin)
  <1>1. \A origin \in {"text", "answer", "system"} : g(origin) \in ChatType
    BY GuardedLike DEF Like
  <1> HIDE DEF g
  <1>2. CASE SmallTalk \/ AnswerStale
    BY <1>1, <1>2, KeepsIt, RulesLeave DEF SmallTalk, AnswerStale, g
  <1>3. CASE TextToRules
    BY <1>1, <1>3, GuidedKeep, RulesLeave DEF TextToRules, g
  <1>4. CASE TextRevises
    BY <1>1, <1>4, RevisedKeep, RulesLeave DEF TextRevises, g
  <1>5. CASE TextAnswers \/ AnswerInWords
    <2>1. chat.now.pending # None
      BY <1>5 DEF TextAnswers, AnswerInWords, Asked, Current
    <2>2. Keeps(Guarded("text"), Resolved(Closed(Guarded("text"))))
      BY <2>1, GuardedResolves
    <2>3. Loops(Resolved(Closed(Guarded("text"))), TRUE, FALSE)
      BY <1>5 DEF TextAnswers, AnswerInWords
    <2>4. QED
      BY <2>2, <2>3, LoopsLeave
  <1>6. CASE TextToModel
    <2>1. Keeps(Guarded("text"), Forgotten(Guarded("text")))
      BY <1>1, ForgottenKeeps DEF g
    <2>2. QED
      BY <1>6, <2>1, LoopsLeave DEF TextToModel
  <1>7. CASE AnswerChanges
    BY <1>1, <1>7, ChangedKeep, RulesLeave DEF AnswerChanges, g
  <1>8. CASE AnswerToRules
    BY <1>1, <1>8, GuidedKeep, RulesLeave DEF AnswerToRules, g
  <1>9. QED
    BY <1>2, <1>3, <1>4, <1>5, <1>6, <1>7, <1>8

LEMMA ChoiceLeaves ==
    ASSUME StrikeInv, AnswerChooses
    PROVE  Leaves
  <1> DEFINE g == Guarded("answer")
  <1>1. g \in ChatType /\ g.now.pending = chat.now.pending /\ g.now.form = chat.now.form
    BY GuardedLike DEF Like
  <1>2. chat.now.pending # None
    BY DEF AnswerChooses, Current
  <1>3. Keeps(g, g) /\ Keeps(g, Resolved(g))
    BY <1>1, <1>2, KeepsIt, GuardedResolves
  <1>4. \A k \in FormKinds : Form(k, 0) \in FormType
    BY FormsTyped
  <1>5. Keeps(g, Started(g)) /\ Keeps(g, SomeStarted(g)) /\ Keeps(g, Closed(g))
        /\ Keeps(g, Opened(g, Form("host", 0))) /\ Keeps(g, Opened(g, Form("retry", 0)))
    BY <1>1, <1>4, StartedKeeps, ClosedKeeps, OpenedKeeps DEF FormKinds
  <1>6. g.now.form \in FormType
    BY <1>1 DEF ChatType, SessionType
  <1>7. /\ Started(g).now.pending = g.now.pending /\ Closed(g).now.pending = g.now.pending
        /\ Opened(g, Form("host", 0)).now.pending = g.now.pending
    <2>1. g.now \in SessionType
      BY <1>1 DEF ChatType
    <2> HIDE DEF g
    <2>2. QED
      BY <1>1, <2>1 DEF Started, SomeStarted, Closed, Opened, ChatType, SessionType
  <1>8. /\ Keeps(g, Resolved(Started(g))) /\ Keeps(g, Resolved(Closed(g)))
        /\ Keeps(g, Resolved(Opened(g, Form("host", 0))))
    <2>1. \A d \in {Started(g), Closed(g), Opened(g, Form("host", 0))} :
             Keeps(g, d) /\ d \in ChatType /\ d.now.pending # None
      BY <1>1, <1>2, <1>5, <1>7 DEF Keeps
    <2>2. \A d \in {Started(g), Closed(g), Opened(g, Form("host", 0))} : Keeps(g, Resolved(d))
      BY <2>1, ResolvedKeeps, KeepsOn
    <2>3. QED
      BY <2>2
  <1>9. Keeps(g, Opened(g, g.now.form)) /\ Keeps(g, Opened(SomeStarted(g), g.now.form))
    BY <1>1, <1>5, <1>6, OpenedKeeps, KeepsOn DEF Keeps
  <1>10. \A d : Keeps(g, d) /\ Settles(d, TRUE) => Leaves
    BY RulesLeave
  <1>11. Loops(Resolved(g), TRUE, FALSE) => Leaves
    BY <1>3, LoopsLeave
  <1> HIDE DEF g
  <1>12. QED
    BY <1>3, <1>5, <1>8, <1>9, <1>10, <1>11 DEF AnswerChooses, g

LEMMA FlaggedLeaves ==
    ASSUME StrikeInv, Flagged
    PROVE  Leaves
  <1> DEFINE n == [chat.now EXCEPT !.origin = "text"]
             c == [chat EXCEPT !.now.origin = "text"]
  <1>1. chat \in ChatType /\ Sound(chat) /\ chat.now \in SessionType /\ turn.added = 0
    BY DEF StrikeInv, TypeOK, ChatType, Flagged, Input
  <1>2. Like(c)
    <2>1. n \in SessionType /\ Core(n) = Core(chat.now) /\ n.struck = chat.now.struck /\ n.mode = chat.now.mode
      BY <1>1 DEF SessionType, Core
    <2>2. c = [chat EXCEPT !.now = n]
      BY <1>1 DEF ChatType
    <2> HIDE DEF n, c
    <2>3. Keeps(chat, c)
      BY <1>1, <2>1, <2>2, NowKeeps
    <2>4. QED
      BY <2>3, LikeIt, KeepsLike
  <1> HIDE DEF c
  <1>3. PICK r \in Struck(c) :
           /\ chat' = IF r.raised THEN chat ELSE [r.chat EXCEPT !.now = r.chat.stored]
           /\ turn' = Idle
    BY DEF Flagged, c
  <1>4. Strikes(c, r)
    BY <1>2, StruckStrikes DEF Like, StrikeInv
  <1>5. CASE r.raised
    <2>1. Like(chat')
      BY <1>3, <1>5, LikeIt
    <2>2. QED
      BY <1>3, <2>1, IdleTyped, GoesOn
  <1>6. CASE ~r.raised
    <2>1. /\ r.chat \in ChatType /\ Sound(r.chat) /\ r.chat.stored \in SessionType
          /\ r.chat.now \in SessionType
      BY <1>4, <1>6 DEF Strikes, ChatType
    <2>2. chat' \in ChatType /\ chat'.now = r.chat.stored /\ chat'.stored = r.chat.stored
      BY <1>3, <1>6, <2>1 DEF ChatType
    <2>3. /\ r.chat.stored.strikes = r.chat.now.strikes /\ r.chat.stored.ended = r.chat.now.ended
          /\ r.chat.stored.down = r.chat.now.down
      BY <2>1, CoreParts DEF Sound
    <2>4. Sound(chat')
      BY <2>1, <2>2, <2>3 DEF Sound, Full
    <2>5. c.now.strikes = chat.now.strikes /\ c.now.ended = chat.now.ended /\ c.now.down = chat.now.down
          /\ chat.now.strikes \in Nat
      BY <1>1, <1>2, CoreParts DEF Like, SessionType
    <2>6. Stick
      BY <1>1, <1>4, <2>2, <2>3, <2>4, <2>5 DEF Stick, Strikes, Sound, Full
    <2>7. QED
      BY <1>3, <2>2, <2>4, <2>6, IdleTyped DEF Leaves
  <1>7. QED
    BY <1>5, <1>6

LEMMA UncheckedLeaves ==
    ASSUME StrikeInv, Unchecked
    PROVE  Leaves
  <1> DEFINE n == [chat.now EXCEPT !.origin = "text"]
             c == [chat EXCEPT !.now.origin = "text"]
  <1>1. chat \in ChatType /\ chat.now \in SessionType /\ Like(chat)
    BY LikeIt DEF Like, ChatType
  <1>2. c = [chat EXCEPT !.now = n] /\ n \in SessionType /\ Core(n) = Core(chat.now)
        /\ n.struck = chat.now.struck /\ n.mode = chat.now.mode
    BY <1>1 DEF SessionType, ChatType, Core
  <1> HIDE DEF n, c
  <1>3. Keeps(chat, c) /\ c \in ChatType
    BY <1>1, <1>2, NowKeeps DEF Keeps
  <1>4. Like(c) /\ Like(Saved(c))
    <2>1. Like(c)
      BY <1>1, <1>3, KeepsLike
    <2>2. QED
      BY <1>3, <2>1, SavedKeeps, KeepsLike
  <1>5. chat' \in {chat, Saved(c)} /\ turn' = Idle
    BY DEF Unchecked, c
  <1>6. QED
    BY <1>1, <1>4, <1>5, IdleTyped, GoesOn

LEMMA UploadLeaves ==
    ASSUME StrikeInv, Upload
    PROVE  Leaves
  <1> DEFINE g == Guarded("system")
             q == [g EXCEPT !.now.pending = None]
  <1>1. g \in ChatType /\ Like(g) /\ turn.added = 0
    BY GuardedLike DEF Like, Upload, Input, StrikeInv
  <1>2. Keeps(g, g) /\ Form("host", 0) \in FormType
    BY <1>1, KeepsIt, FormsTyped DEF FormKinds
  <1>3. Keeps(g, q)
    BY <1>1, AnsweredKeeps
  <1> HIDE DEF q
  <1>4. Keeps(g, Opened(q, Form("host", 0)))
    BY <1>2, <1>3, OpenedKeeps, KeepsOn DEF Keeps
  <1>5. CASE Settles(g, FALSE) \/ Settles(Opened(q, Form("host", 0)), FALSE)
    BY <1>2, <1>4, <1>5, RulesLeave
  <1>6. CASE \E r \in Struck(g) : Settles(r.chat, FALSE)
    BY <1>1, <1>6, StrikeLeaves
  <1>7. CASE Asked /\ Loops(Resolved(g), FALSE, FALSE)
    <2>1. Keeps(g, Resolved(g))
      BY <1>7, GuardedResolves DEF Asked
    <2>2. QED
      BY <1>7, <2>1, LoopsLeave
  <1>8. QED
    BY <1>5, <1>6, <1>7 DEF Upload, q

LEMMA ModeLeaves ==
    ASSUME StrikeInv, SetMode
    PROVE  Leaves
  <1> DEFINE g == Guarded("system")
             t == ToGuided(g)
             f == Forgotten(g)
             a == [f EXCEPT !.now.mode = "agent"]
             n == [f.now EXCEPT !.mode = "agent"]
  <1>1. g \in ChatType /\ Like(g) /\ g.now.mode = chat.now.mode
    BY GuardedLike DEF Like
  <1> HIDE DEF g
  <1>2. CASE Agent
    <2>1. Keeps(g, t) /\ t \in ChatType
      BY <1>1, ToGuidedKeeps DEF Keeps
    <2>2. \A d \in Advances(Closed(t)) : Keeps(g, d)
      BY <1>1, <2>1, ClosedKeeps, KeepsOn, AdvancesKeepOn
    <2>3. \E d : Keeps(g, d) /\ Settles(d, FALSE)
      BY <1>2, <2>1, <2>2 DEF SetMode, Switched, g
    <2>4. QED
      BY <2>3, RulesLeave DEF g
  <1>3. CASE ~Agent
    <2>1. Keeps(g, f) /\ f \in ChatType /\ f.now \in SessionType
      BY <1>1, ForgottenKeeps DEF Keeps, ChatType
    <2> HIDE DEF f
    <2>2. ~chat.now.down /\ ~g.now.down /\ ~f.now.down
      BY <1>1, <1>3, <2>1, CoreParts DEF SetMode, Like, Keeps
    <2>3. n \in SessionType /\ Core(n) = Core(f.now) /\ n.struck = f.now.struck /\ n.down = f.now.down
      BY <2>1 DEF SessionType, Core
    <2>4. a = [f EXCEPT !.now = n]
      BY <2>1 DEF ChatType
    <2> HIDE DEF n, a
    <2>5. a \in ChatType /\ a.now = n /\ a.stored = f.stored
      BY <2>1, <2>3, <2>4 DEF ChatType
    <2>6. Like(f)
      BY <1>1, <2>1, KeepsLike
    <2>7. Like(a)
      <3>1. n.strikes = f.now.strikes /\ n.ended = f.now.ended
        BY <2>3, CoreParts
      <3>2. QED
        BY <2>2, <2>3, <2>5, <2>6, <3>1 DEF Like, Sound, Full
    <2>8. Like(Closed(a))
      BY <2>7, ClosedKeeps, KeepsLike DEF Like
    <2>9. Settles(a, FALSE) \/ Settles(Closed(a), FALSE)
      BY <1>3 DEF SetMode, Switched, a, f, g
    <2>10. QED
      BY <2>7, <2>8, <2>9, SettlesLeave
  <1>4. QED
    BY <1>2, <1>3

LEMMA RequestsLeave ==
    ASSUME StrikeInv, ShowRequest \/ NewRequest
    PROVE  Leaves
  <1> DEFINE g == Guarded("system")
             r == Closed(Forgotten(Renewed(g)))
  <1>1. g \in ChatType
    BY GuardedLike DEF Like
  <1>2. Keeps(g, Summary(g))
    BY <1>1, SummaryKeeps
  <1>3. Keeps(g, r)
    BY <1>1, RenewedKeeps, ForgottenKeeps, ClosedKeeps, KeepsOn DEF Keeps
  <1>4. \A d \in {r} \cup Advances(r) : Keeps(g, d)
    BY <1>1, <1>3, AdvancesKeepOn
  <1>5. CASE ShowRequest
    BY <1>2, <1>5, RulesLeave DEF ShowRequest
  <1>6. CASE NewRequest
    <2>1. \E d \in {r} \cup Advances(r) : Settles(d, FALSE)
      BY <1>6 DEF NewRequest
    <2> HIDE DEF r, g
    <2>2. QED
      BY <1>4, <2>1, RulesLeave DEF g
  <1>7. QED
    BY <1>5, <1>6

LEMMA BackLeaves ==
    ASSUME StrikeInv, Back
    PROVE  Leaves
  <1> DEFINE n == Len(chat.snaps)
             o == chat.snaps[n - 1]
             mode == IF chat.now.down THEN "guided" ELSE o.mode
  <1>1. /\ chat \in ChatType /\ Sound(chat) /\ chat.now \in SessionType /\ chat.snaps \in Seq(SessionType)
        /\ n \in Nat /\ n > 1
    BY DEF StrikeInv, TypeOK, ChatType, Back
  <1>2. o \in SessionType
    <2>1. n - 1 \in 1 .. n
      BY <1>1
    <2>2. QED
      BY <1>1, <2>1, ElementOfSeq
  <1>3. Restored = [o EXCEPT !.strikes = chat.now.strikes, !.ended = chat.now.ended, !.down = chat.now.down,
                             !.jobs = chat.now.jobs, !.mode = mode]
    BY <1>2 DEF Restored, SessionType
  <1>4. mode \in {"agent", "guided"} /\ (chat.now.down => mode = "guided")
    BY <1>2 DEF SessionType
  <1>5. SubSeq(chat.snaps, 1, n - 1) \in Seq(SessionType)
    BY <1>1
  <1> HIDE DEF o, mode
  <1>6. Restored \in SessionType
    BY <1>1, <1>2, <1>3, <1>4 DEF SessionType
  <1>7. /\ Restored.strikes = chat.now.strikes /\ Restored.ended = chat.now.ended
        /\ Restored.down = chat.now.down /\ Restored.mode = mode
    BY <1>1, <1>2, <1>3, <1>4 DEF SessionType
  <1>8. chat' = [now |-> Restored, stored |-> Restored, snaps |-> SubSeq(chat.snaps, 1, n - 1)] /\ turn' = Idle
    BY DEF Back
  <1> HIDE DEF n
  <1>9. chat' \in ChatType /\ chat'.now = Restored /\ chat'.stored = Restored
    BY <1>5, <1>6, <1>8 DEF ChatType
  <1> HIDE DEF Restored
  <1>10. Like(chat')
    BY <1>1, <1>4, <1>7, <1>9 DEF Like, Sound, Full, Core
  <1>11. QED
    BY <1>8, <1>10, IdleTyped, GoesOn

LEMMA ReopenLeaves ==
    ASSUME StrikeInv, Reopen
    PROVE  Leaves
  <1> DEFINE m == [chat.now EXCEPT !.ended = FALSE, !.strikes = 0]
             e == [chat EXCEPT !.now = m]
  <1>1. chat \in ChatType /\ Sound(chat) /\ chat.now \in SessionType /\ Limit \in Nat \ {0}
        /\ profile.reopen /\ chat.now.ended /\ chat.now.strikes \in Nat
    BY TurnAssumption DEF StrikeInv, TypeOK, ChatType, SessionType, Reopen, TurnAssumption
  <1>2. m \in SessionType /\ m.strikes = 0 /\ m.down = chat.now.down /\ m.mode = chat.now.mode
    BY <1>1 DEF SessionType
  <1>3. chat' = Saved(e) /\ turn' = Idle
    BY <1>1 DEF Reopen, ChatType
  <1> HIDE DEF m
  <1>4. e \in ChatType /\ e.now = m
    BY <1>1, <1>2 DEF ChatType
  <1> HIDE DEF e
  <1>5. chat' \in ChatType /\ chat'.now = m /\ chat'.stored = m
    BY <1>3, <1>4, SavedKeeps DEF Keeps
  <1>6. Sound(chat')
    BY <1>1, <1>2, <1>5 DEF Sound, Full
  <1>7. Stick
    BY <1>1, <1>2, <1>5 DEF Stick, Sound
  <1>8. QED
    BY <1>3, <1>5, <1>6, <1>7, IdleTyped DEF Leaves

LEMMA JobsDoneLeaves ==
    ASSUME StrikeInv, JobsDone
    PROVE  Leaves
  <1> DEFINE h == Guarded("system")
             n == [h.now EXCEPT !.jobs = FALSE]
             g == [h EXCEPT !.now.jobs = FALSE]
             q == [Closed(g) EXCEPT !.now.pending = None]
  <1>1. h \in ChatType /\ h.now \in SessionType
    BY GuardedLike DEF Like, ChatType
  <1>2. Keeps(h, g) /\ g \in ChatType
    <2>1. n \in SessionType /\ Core(n) = Core(h.now) /\ n.struck = h.now.struck /\ n.mode = h.now.mode
      BY <1>1 DEF SessionType, Core
    <2>2. g = [h EXCEPT !.now = n]
      BY <1>1 DEF ChatType
    <2> HIDE DEF n, g, h
    <2>3. Keeps(h, g)
      BY <1>1, <2>1, <2>2, NowKeeps
    <2>4. QED
      BY <2>3 DEF Keeps
  <1>3. g = [Guarded("system") EXCEPT !.now.jobs = FALSE]
    OBVIOUS
  <1> HIDE DEF g
  <1>4. Form("host", 0) \in FormType
    BY FormsTyped DEF FormKinds
  <1>5. Keeps(h, Closed(g)) /\ Closed(g) \in ChatType
    BY <1>2, ClosedKeeps, KeepsOn DEF Keeps
  <1>6. Keeps(h, Opened(g, Form("host", 0))) /\ Keeps(h, q)
    BY <1>2, <1>4, <1>5, OpenedKeeps, AnsweredKeeps, KeepsOn
  <1>7. \A d \in Advances(Closed(g)) : Keeps(h, d)
    BY <1>1, <1>5, AdvancesKeepOn
  <1> HIDE DEF q, h
  <1>8. CASE \E d : Keeps(h, d) /\ Settles(d, FALSE)
    BY <1>8, RulesLeave DEF h
  <1>9. CASE chat' = q /\ turn' = [Idle EXCEPT !.at = "sum"]
    <2>1. Like(q)
      BY <1>6, GuardedLike, KeepsLike DEF h
    <2>2. turn' \in TurnType /\ turn'.added = 0 /\ turn'.at = "sum"
      <3>1. Idle \in TurnType /\ Idle.added = 0
        BY IdleTyped
      <3> HIDE DEF Idle
      <3>2. QED
        BY <1>9, <3>1 DEF TurnType
    <2>3. QED
      BY <1>9, <2>1, <2>2, GoesOn
  <1>10. \/ \E d : Keeps(h, d) /\ Settles(d, FALSE)
         \/ chat' = q /\ turn' = [Idle EXCEPT !.at = "sum"]
    BY <1>2, <1>3, <1>6, <1>7 DEF JobsDone, Continues, q
  <1>11. QED
    BY <1>8, <1>9, <1>10
\* The call being handled, and the rest of the turn.
LEMMA CallTyped ==
    ASSUME StrikeInv, Here
    PROVE  /\ Call \in Ids /\ Tail(turn.todo) \in Seq(Ids) /\ turn \in TurnType /\ turn.at = "calls"
           /\ Step \in TurnType /\ Step.added = turn.added /\ Step.at = "calls"
           /\ [turn EXCEPT !.todo = Tail(@)] \in TurnType
           /\ [turn EXCEPT !.todo = Tail(@)].added = turn.added
           /\ [turn EXCEPT !.todo = Tail(@)].at = "calls"
  <1> DEFINE rest == Tail(turn.todo)
  <1>1. turn \in TurnType /\ turn.todo \in Seq(Ids) /\ turn.todo # <<>> /\ turn.at = "calls" /\ turn.steps \in Nat
    BY DEF StrikeInv, TypeOK, TurnType, Here
  <1>2. Call \in Ids /\ rest \in Seq(Ids)
    BY <1>1 DEF Call
  <1>3. Step = [turn EXCEPT !.todo = rest, !.steps = turn.steps + 1]
        /\ [turn EXCEPT !.todo = Tail(@)] = [turn EXCEPT !.todo = rest]
    BY <1>1 DEF Step, TurnType
  <1> HIDE DEF rest
  <1>4. [turn EXCEPT !.todo = rest, !.steps = turn.steps + 1] \in TurnType
    <2>1. turn.steps + 1 \in Nat
      BY <1>1
    <2>2. \A k \in Nat : [turn EXCEPT !.todo = rest, !.steps = k] \in TurnType
      BY <1>1, <1>2 DEF TurnType
    <2>3. QED
      BY <2>1, <2>2
  <1>5. [turn EXCEPT !.todo = rest] \in TurnType
    BY <1>1, <1>2 DEF TurnType
  <1>6. /\ [turn EXCEPT !.todo = rest, !.steps = turn.steps + 1].added = turn.added
        /\ [turn EXCEPT !.todo = rest, !.steps = turn.steps + 1].at = turn.at
        /\ [turn EXCEPT !.todo = rest].added = turn.added
        /\ [turn EXCEPT !.todo = rest].at = turn.at
    BY <1>1 DEF TurnType
  <1>7. QED
    BY <1>1, <1>2, <1>3, <1>4, <1>5, <1>6 DEF rest

\* The turn goes on with what the call left.
LEMMA CallLeaves ==
    ASSUME StrikeInv, Keeps(chat, chat'), turn' \in TurnType, turn'.added = turn.added, turn'.at # "idle"
    PROVE  Leaves
  <1>1. Like(chat') /\ chat'.now.struck = chat.now.struck
    BY LikeIt, KeepsLike
  <1>2. QED
    BY <1>1, GoesOn

\* The turn ends with what the call, or the reply, left.
LEMMA TurnEnds ==
    ASSUME StrikeInv, NEW d, Keeps(chat, d), NEW said, Settles(d, said)
    PROVE  Leaves
  <1>1. Like(d)
    BY LikeIt, KeepsLike
  <1>2. QED
    BY <1>1, SettlesLeave

LEMMA ModelLeaves ==
    ASSUME StrikeInv, Timeout \/ Raises \/ Unavailable \/ ReplyWords \/ Summed
    PROVE  Leaves
  <1> DEFINE q == Paired(chat)
             g == ToGuided(q)
             d == IF OfModel(g) THEN Closed(g) ELSE g
  <1>1. chat \in ChatType /\ Keeps(chat, chat) /\ Keeps(chat, q) /\ q \in ChatType
    BY KeepsIt, PairedKeeps DEF StrikeInv, TypeOK, Keeps
  <1> HIDE DEF q
  <1>2. Keeps(chat, g) /\ g \in ChatType
    BY <1>1, ToGuidedKeeps, KeepsOn DEF Keeps
  <1> HIDE DEF g
  <1>3. Keeps(chat, d) /\ d \in ChatType
    BY <1>2, ClosedKeeps, KeepsOn DEF Keeps
  <1> HIDE DEF d
  <1>4. /\ \A e \in Advances(q) : Keeps(chat, e)
        /\ \A e \in Advances(g) : Keeps(chat, e)
        /\ \A e \in Advances(d) : Keeps(chat, e)
    BY <1>1, <1>2, <1>3, AdvancesKeepOn
  <1>5. \A e \in GuidedText(d) : Keeps(chat, e)
    BY <1>3, GuidedKeep, KeepsOn
  <1>6. Keeps(chat, Opened(q, Form("host", 0)))
    BY <1>1, FormsTyped, OpenedKeeps, KeepsOn DEF FormKinds
  <1>7. CASE Timeout \/ Raises
    BY <1>1, <1>7, TurnEnds DEF Timeout, Raises
  <1>8. CASE Unavailable
    <2>1. \E e : Keeps(chat, e) /\ Settles(e, turn.said)
      BY <1>3, <1>4, <1>5, <1>8 DEF Unavailable, q, g, d
    <2>2. QED
      BY <2>1, TurnEnds
  <1>9. CASE ReplyWords
    <2>1. \E e : Keeps(chat, e) /\ Settles(e, turn.said)
      BY <1>1, <1>4, <1>9 DEF ReplyWords, NoDeadEnd, q
    <2>2. QED
      BY <2>1, TurnEnds
  <1>10. CASE Summed
    <2>1. \E e : Keeps(chat, e) /\ Settles(e, FALSE)
      BY <1>4, <1>6, <1>10 DEF Summed, q, g
    <2>2. QED
      BY <2>1, TurnEnds
  <1>11. QED
    BY <1>7, <1>8, <1>9, <1>10

\* What a refusal without a strike leaves.
LEMMA QuietlyKeeps ==
    ASSUME NEW c \in ChatType, NEW r \in Quietly({c})
    PROVE  r.chat = Saved(c) /\ ~r.raised /\ Keeps(c, r.chat)
  <1>1. r = [chat |-> Saved(c), raised |-> FALSE]
    BY DEF Quietly
  <1>2. r.chat = Saved(c) /\ r.raised = FALSE
    BY <1>1
  <1>3. QED
    BY <1>2, SavedKeeps

LEMMA ClampedLeaves ==
    ASSUME StrikeInv, ReplyClamped
    PROVE  Leaves
  <1> DEFINE q == Paired(chat)
  <1>1. chat \in ChatType /\ Keeps(chat, q) /\ q \in ChatType
    BY PairedKeeps DEF StrikeInv, TypeOK, Keeps
  <1>2. Like(q) /\ q.now.struck = chat.now.struck
    BY <1>1, LikeIt, KeepsLike
  <1>3. ~q.now.struck => turn.added = 0
    BY <1>2 DEF StrikeInv, TypeOK, TurnType
  <1>4. PICK r \in Struck(q) \cup Quietly({q}) : Settles(r.chat, turn.said)
    BY DEF ReplyClamped, DeclinesUnrelated
  <1> HIDE DEF q
  <1>5. CASE r \in Struck(q)
    BY <1>2, <1>3, <1>4, <1>5, StrikeLeaves
  <1>6. CASE r \in Quietly({q})
    BY <1>1, <1>4, <1>6, QuietlyKeeps, KeepsOn, TurnEnds
  <1>7. QED
    BY <1>4, <1>5, <1>6

LEMMA CallsLeave ==
    ASSUME StrikeInv, ReplyCalls
    PROVE  Leaves /\ spent' \in [calls : Nat, inputs : Nat, crashes : Nat]
  <1> DEFINE q == Paired(chat)
  <1>1. chat \in ChatType /\ Keeps(chat, q) /\ q \in ChatType /\ q.now \in SessionType
    BY PairedKeeps DEF StrikeInv, TypeOK, Keeps, ChatType
  <1>2. PICK n \in 1 .. 2 :
           LET ids == [k \in 1 .. n |-> spent.calls + k] IN
           /\ spent.calls + n <= profile.calls
           /\ spent' = [spent EXCEPT !.calls = @ + n]
           /\ chat' = [q EXCEPT !.now.asked = @ \cup {ids[k] : k \in 1 .. n}]
           /\ turn' = [turn EXCEPT !.at = "calls", !.todo = ids, !.asks = @ + 1, !.first = FALSE]
    BY DEF ReplyCalls
  <1> DEFINE ids == [k \in 1 .. n |-> spent.calls + k]
             asked == q.now.asked \cup {ids[k] : k \in 1 .. n}
             m == [q.now EXCEPT !.asked = asked]
  <1>3. spent \in [calls : Nat, inputs : Nat, crashes : Nat] /\ turn \in TurnType
        /\ profile.calls \in Nat /\ 1 .. profile.calls \subseteq Ids
    BY TurnAssumption DEF StrikeInv, TypeOK, TurnAssumption
  <1>4. \A k \in 1 .. n : spent.calls + k \in Ids
    <2>1. \A k \in 1 .. n : spent.calls + k \in 1 .. profile.calls
      BY <1>2, <1>3
    <2>2. QED
      BY <1>3, <2>1
  <1>5. ids \in Seq(Ids)
    BY <1>4
  <1>6. chat' = [q EXCEPT !.now = m]
    BY <1>1, <1>2 DEF ChatType, SessionType
  <1>7. asked \subseteq Ids
    BY <1>1, <1>4 DEF SessionType
  <1>8. turn' = [turn EXCEPT !.at = "calls", !.todo = ids, !.asks = turn.asks + 1, !.first = FALSE]
    BY <1>2, <1>3 DEF TurnType
  <1>9. spent' \in [calls : Nat, inputs : Nat, crashes : Nat]
    BY <1>2, <1>3
  <1> HIDE DEF q, ids, asked
  <1>10. m \in SessionType /\ Core(m) = Core(q.now) /\ m.struck = q.now.struck /\ m.mode = q.now.mode
    BY <1>1, <1>7 DEF SessionType, Core
  <1> HIDE DEF m
  <1>11. Keeps(chat, chat')
    BY <1>1, <1>6, <1>10, NowKeeps, KeepsOn
  <1>12. turn' \in TurnType /\ turn'.added = turn.added /\ turn'.at = "calls"
    <2>1. turn.asks + 1 \in Nat
      BY <1>3 DEF TurnType
    <2>2. \A k \in Nat :
             [turn EXCEPT !.at = "calls", !.todo = ids, !.asks = k, !.first = FALSE] \in TurnType
      BY <1>3, <1>5 DEF TurnType
    <2>3. turn'.added = turn.added /\ turn'.at = "calls"
      BY <1>3, <1>8 DEF TurnType
    <2>4. QED
      BY <1>8, <2>1, <2>2, <2>3
  <1>13. QED
    BY <1>9, <1>11, <1>12, CallLeaves
LEMMA SkipsLeave ==
    ASSUME StrikeInv, Skip \/ StepLimit \/ Answered \/ FailsOften
    PROVE  Leaves
  <1>1. Here /\ chat' = Told(chat, Call)
    BY DEF Skip, StepLimit, Answered, FailsOften, Runnable
  <1>2. Call \in Ids
    BY <1>1, CallTyped
  <1>3. Keeps(chat, chat')
    BY <1>1, <1>2, ToldKeeps DEF StrikeInv, TypeOK
  <1> DEFINE t == [turn EXCEPT !.todo = Tail(@)]
             u == Step
  <1>4. t \in TurnType /\ t.added = turn.added /\ t.at = "calls"
    BY <1>1, CallTyped
  <1>5. u \in TurnType /\ u.added = turn.added /\ u.at = "calls"
    BY <1>1, CallTyped
  <1>6. turn' \in TurnType /\ turn'.added = turn.added /\ turn'.at = "calls"
    <2>1. CASE Skip
      BY <1>4, <2>1 DEF Skip
    <2>2. CASE StepLimit
      <3>1. turn' = [t EXCEPT !.stop = TRUE]
        <4>1. turn' = [turn EXCEPT !.todo = Tail(@), !.stop = TRUE]
          BY <2>2 DEF StepLimit
        <4>2. turn \in TurnType
          BY <1>1, CallTyped
        <4>3. QED
          BY <4>1, <4>2 DEF TurnType
      <3> HIDE DEF t
      <3>2. QED
        BY <1>4, <3>1 DEF TurnType
    <2>3. CASE Answered
      BY <1>5, <2>3 DEF Answered
    <2>4. CASE FailsOften
      <3> DEFINE stop == turn.failures + 1 > MaxRetries
      <3>1. turn' = [u EXCEPT !.failures = u.failures + 1, !.stop = stop]
        <4>1. turn' = [u EXCEPT !.failures = @ + 1, !.stop = stop]
          BY <2>4 DEF FailsOften
        <4> HIDE DEF u, stop
        <4>2. QED
          BY <1>5, <4>1 DEF TurnType
      <3>2. stop \in BOOLEAN
        OBVIOUS
      <3>3. u.failures + 1 \in Nat
        BY <1>5 DEF TurnType
      <3> HIDE DEF u, stop
      <3>4. \A k \in Nat : [u EXCEPT !.failures = k, !.stop = stop] \in TurnType
        BY <1>5, <3>2 DEF TurnType
      <3>5. turn'.added = u.added /\ turn'.at = u.at
        BY <1>5, <3>1 DEF TurnType
      <3>6. QED
        BY <1>5, <3>1, <3>3, <3>4, <3>5
    <2>5. QED
      BY <2>1, <2>2, <2>3, <2>4
  <1>7. QED
    BY <1>3, <1>6, CallLeaves

LEMMA SuspendLeaves ==
    ASSUME StrikeInv, Suspend
    PROVE  Leaves
  <1>1. Here /\ turn' = Step /\ chat \in ChatType
    BY DEF Suspend, Runnable, StrikeInv, TypeOK
  <1>2. Call \in Ids /\ turn' \in TurnType /\ turn'.added = turn.added /\ turn'.at = "calls"
    BY <1>1, CallTyped
  <1>3. PICK k \in {"ask", "upload", "run", "retry", "summary"}, c \in {chat, Renewed(chat)} :
           chat' = Opened([c EXCEPT !.now.pending = [id |-> Call, name |-> k]], Form(k, Call))
    BY DEF Suspend
  <1> DEFINE p == [id |-> Call, name |-> k]
             n == [c.now EXCEPT !.pending = p]
             q == [c EXCEPT !.now.pending = p]
  <1>4. Keeps(chat, c) /\ c \in ChatType /\ c.now \in SessionType
    BY <1>1, KeepsIt, RenewedKeeps DEF Keeps, ChatType
  <1>5. p \in PendingType /\ Form(k, Call) \in FormType
    BY <1>2, FormsTyped DEF PendingType, FormKinds
  <1> HIDE DEF p
  <1>6. n \in SessionType /\ Core(n) = Core(c.now) /\ n.struck = c.now.struck /\ n.mode = c.now.mode
    BY <1>4, <1>5 DEF SessionType, Core
  <1>7. q = [c EXCEPT !.now = n]
    BY <1>4 DEF ChatType
  <1>8. chat' = Opened(q, Form(k, Call))
    BY <1>3 DEF p
  <1> HIDE DEF n, q
  <1>9. Keeps(chat, q) /\ q \in ChatType
    <2>1. Keeps(c, q)
      BY <1>4, <1>6, <1>7, NowKeeps
    <2>2. Keeps(chat, q)
      BY <1>4, <2>1, KeepsOn
    <2>3. QED
      BY <2>2 DEF Keeps
  <1>10. Keeps(chat, chat')
    BY <1>5, <1>8, <1>9, OpenedKeeps, KeepsOn
  <1>11. QED
    BY <1>2, <1>10, CallLeaves

\* A refused call, with or without a strike: the turn ends, or goes on with the call told.
LEMMA RefusedLeaves ==
    ASSUME StrikeInv, Here,
           NEW r \in Struck(chat) \cup {[chat |-> chat, raised |-> FALSE]} \cup Quietly({chat}),
           NEW done \in BOOLEAN,
           IF r.raised THEN Settles(r.chat, turn.said)
           ELSE /\ chat' = Told(r.chat, Call)
                /\ turn' = [Step EXCEPT !.done = done, !.added = Added(r.chat)]
    PROVE  Leaves
  <1> DEFINE u == Step
             added == Added(r.chat)
  <1>1. chat \in ChatType /\ Keeps(chat, chat) /\ Call \in Ids
        /\ turn \in TurnType /\ turn.added \in Nat
        /\ u \in TurnType /\ u.at = "calls" /\ u.added = turn.added
    BY CallTyped, KeepsIt DEF StrikeInv, TypeOK, TurnType
  <1>2. added \in Nat
    BY <1>1 DEF Added
  <1>3. ASSUME ~r.raised
        PROVE  chat' = Told(r.chat, Call) /\ turn' = [u EXCEPT !.done = done, !.added = added]
    BY <1>3
  <1>4. ASSUME ~r.raised PROVE turn' \in TurnType /\ turn'.at = "calls" /\ turn'.added = added
    <2> HIDE DEF u, added
    <2>1. turn' \in TurnType
      BY <1>1, <1>2, <1>3, <1>4 DEF TurnType
    <2>2. turn'.at = "calls" /\ turn'.added = added
      BY <1>1, <1>3, <1>4 DEF TurnType
    <2>3. QED
      BY <2>1, <2>2
  <1> HIDE DEF u
  <1>5. CASE r \in Struck(chat)
    <2>1. Like(chat) /\ (~chat.now.struck => turn.added = 0)
      BY <1>1, LikeIt DEF StrikeInv
    <2>2. r.chat \in ChatType /\ r.raised \in BOOLEAN
      BY <1>1, <1>5, StruckStrikes DEF Strikes, StrikeInv
    <2>3. CASE r.raised
      BY <1>5, <2>1, <2>3, StrikeLeaves
    <2>4. CASE ~r.raised
      <3>1. Keeps(r.chat, chat') /\ chat' \in ChatType
        BY <1>1, <1>3, <2>2, <2>4, ToldKeeps DEF Keeps
      <3>2. turn' \in TurnType /\ turn'.at # "idle"
        BY <1>4, <2>4
      <3>3. QED
        BY <1>5, <2>1, <2>4, <3>1, <3>2, StrikeLeaves
    <2>5. QED
      BY <2>3, <2>4
  <1>6. CASE r \in {[chat |-> chat, raised |-> FALSE]} \cup Quietly({chat})
    <2>1. Keeps(chat, r.chat) /\ r.chat.now = chat.now /\ ~r.raised /\ r.chat \in ChatType
      <3>1. CASE r = [chat |-> chat, raised |-> FALSE]
        <4>1. r.chat = chat /\ r.raised = FALSE
          BY <3>1
        <4>2. QED
          BY <1>1, <4>1
      <3>2. CASE r \in Quietly({chat})
        BY <1>1, <3>2, QuietlyKeeps, SavedKeeps DEF Keeps
      <3>3. QED
        BY <1>6, <3>1, <3>2
    <2>2. added = turn.added
      <3>1. chat.now.strikes \in Nat
        BY <1>1 DEF ChatType, SessionType
      <3>2. QED
        BY <2>1, <3>1 DEF Added
    <2>3. Keeps(chat, chat')
      BY <1>1, <1>3, <2>1, ToldKeeps, KeepsOn
    <2>4. QED
      BY <1>4, <2>1, <2>2, <2>3, CallLeaves
  <1>7. QED
    BY <1>5, <1>6

LEMMA RefusalsLeave ==
    ASSUME StrikeInv, Declined \/ HostTool
    PROVE  Leaves
  <1>1. CASE Declined
    <2>1. Here
      BY <1>1 DEF Declined, Runnable
    <2>2. PICK r \in Struck(chat) \cup Quietly({chat}) :
             IF r.raised THEN Settles(r.chat, turn.said)
             ELSE /\ chat' = Told(r.chat, Call)
                  /\ turn' = [Step EXCEPT !.done = TRUE, !.added = Added(r.chat)]
      BY <1>1 DEF Declined, OutOfScope, KnowledgeAnswer, DeclinesUnrelated
    <2>3. QED
      BY <2>1, <2>2, RefusedLeaves
  <1>2. CASE HostTool
    <2>1. Here
      BY <1>2 DEF HostTool, Runnable
    <2>2. PICK r \in Struck(chat) \cup {[chat |-> chat, raised |-> FALSE]} :
             IF r.raised THEN Settles(r.chat, turn.said)
             ELSE /\ chat' = Told(r.chat, Call)
                  /\ turn' = [Step EXCEPT !.done = r.chat.now.ended \/ r.chat.now.mode # "agent",
                                          !.added = Added(r.chat)]
      BY <1>2 DEF HostTool
    <2> DEFINE done == r.chat.now.ended \/ r.chat.now.mode # "agent"
    <2>3. done \in BOOLEAN
      OBVIOUS
    <2>4. IF r.raised THEN Settles(r.chat, turn.said)
          ELSE /\ chat' = Told(r.chat, Call)
               /\ turn' = [Step EXCEPT !.done = done, !.added = Added(r.chat)]
      BY <2>2
    <2> HIDE DEF done
    <2>5. QED
      BY <2>1, <2>2, <2>3, <2>4, RefusedLeaves
  <1>3. QED
    BY <1>1, <1>2

LEMMA InvalidLeaves ==
    ASSUME StrikeInv, Invalid
    PROVE  Leaves
  <1> DEFINE u == Step
             f == Forgotten(chat)
  <1>1. Here /\ chat \in ChatType
    BY DEF Invalid, Runnable, StrikeInv, TypeOK
  <1>2. u \in TurnType /\ u.added = turn.added /\ u.at = "calls" /\ Call \in Ids
    BY <1>1, CallTyped
  <1>3. CASE turn.repairs = 0
    <2>1. chat' = Told(chat, Call) /\ turn' = [u EXCEPT !.repairs = 1]
      BY <1>3 DEF Invalid
    <2> HIDE DEF u
    <2>2. turn' \in TurnType
      BY <1>2, <2>1 DEF TurnType
    <2>3. turn'.added = turn.added /\ turn'.at = "calls"
      BY <1>2, <2>1 DEF TurnType
    <2>4. Keeps(chat, chat')
      BY <1>1, <1>2, <2>1, ToldKeeps
    <2>5. QED
      BY <2>2, <2>3, <2>4, CallLeaves
  <1>4. CASE turn.repairs # 0
    <2>1. Keeps(chat, f) /\ Keeps(chat, Closed(f)) /\ Closed(f) \in ChatType
      BY <1>1, ForgottenKeeps, ClosedKeeps, KeepsOn DEF Keeps
    <2>2. \A c \in Advances(Closed(f)) : Keeps(chat, c)
      BY <1>1, <2>1, AdvancesKeepOn
    <2>3. \E c : Keeps(chat, c) /\ Settles(c, turn.said)
      BY <1>4, <2>1, <2>2 DEF Invalid, InvalidTwice
    <2>4. QED
      BY <2>3, TurnEnds
  <1>5. QED
    BY <1>3, <1>4

LEMMA EndLeaves ==
    ASSUME StrikeInv, EndReply \/ Crash
    PROVE  Leaves
  <1>1. chat \in ChatType /\ Sound(chat) /\ Keeps(chat, chat) /\ turn \in TurnType
    BY KeepsIt DEF StrikeInv, TypeOK
  <1>2. CASE EndReply
    <2>1. CASE Waits
      BY <1>1, <1>2, <2>1, TurnEnds DEF EndReply
    <2>2. CASE ~Waits
      <3>1. chat' = chat /\ turn' = [turn EXCEPT !.at = "ask"]
        BY <1>2, <2>2 DEF EndReply
      <3>2. turn' \in TurnType /\ turn'.added = turn.added /\ turn'.at = "ask"
        BY <1>1, <3>1 DEF TurnType
      <3>3. QED
        BY <1>1, <3>1, <3>2, CallLeaves
    <2>3. QED
      BY <2>1, <2>2
  <1>3. CASE Crash
    <2>1. chat' = [chat EXCEPT !.now = chat.stored] /\ turn' = Idle /\ chat.stored \in SessionType
      BY <1>1, <1>3 DEF Crash, ChatType
    <2>2. chat' \in ChatType /\ chat'.now = chat.stored /\ chat'.stored = chat.stored
      BY <1>1, <2>1 DEF ChatType
    <2>3. Core(chat.stored) = Core(chat.now)
      BY <1>1 DEF Sound
    <2>4. Like(chat')
      BY <1>1, <2>2, <2>3, CoreParts DEF Like, Sound, Full
    <2>5. QED
      BY <2>1, <2>4, IdleTyped, GoesOn
  <1>4. QED
    BY <1>2, <1>3
-----------------------------------------------------------------------------
(* Every step.                                                             *)

LEMMA InitStrikes == Init => StrikeInv
  <1> SUFFICES ASSUME Init PROVE StrikeInv
    OBVIOUS
  <1>1. /\ profile \in Profiles /\ turn = Idle
        /\ chat = [now |-> Fresh, stored |-> Fresh, snaps |-> <<>>]
        /\ spent = [calls |-> 0, inputs |-> 0, crashes |-> 0]
    BY DEF Init
  <1>2. Fresh \in SessionType
    <2>1. NoneTold \in [Ids -> 0 .. 2] /\ {} \subseteq Ids
      BY DEF NoneTold
    <2>2. None \in FormType /\ None \in PendingType
      BY DEF FormType, PendingType
    <2> HIDE DEF NoneTold
    <2>3. QED
      BY <2>1, <2>2 DEF SessionType, Fresh
  <1>3. Fresh.strikes = 0 /\ Fresh.down = FALSE
    BY DEF Fresh
  <1>4. <<>> \in Seq(SessionType)
    OBVIOUS
  <1>5. chat \in ChatType /\ chat.now = Fresh /\ chat.stored = Fresh
    BY <1>1, <1>2, <1>4 DEF ChatType
  <1>6. turn \in TurnType /\ turn.added = 0
    BY <1>1, IdleTyped
  <1>7. TypeOK
    BY <1>1, <1>5, <1>6 DEF TypeOK
  <1>8. Limit \in Nat \ {0}
    BY TurnAssumption DEF TurnAssumption
  <1>9. Sound(chat)
    BY <1>3, <1>5, <1>8 DEF Sound, Full
  <1>10. QED
    BY <1>6, <1>7, <1>9 DEF StrikeInv

\* The profile is chosen once; the bounds only count.
LEMMA Spends ==
    ASSUME StrikeInv, Next
    PROVE  profile' = profile /\ spent' \in [calls : Nat, inputs : Nat, crashes : Nat]
  <1>1. spent \in [calls : Nat, inputs : Nat, crashes : Nat]
    BY DEF StrikeInv, TypeOK
  <1>2. CASE \/ SmallTalk \/ Flagged \/ Unchecked \/ TextToRules \/ TextRevises \/ TextAnswers \/ TextToModel
             \/ AnswerStale \/ AnswerChanges \/ AnswerToRules \/ AnswerInWords \/ AnswerChooses
             \/ Upload \/ SetMode \/ ShowRequest \/ NewRequest \/ Back
    <2>1. profile' = profile /\ spent' = [spent EXCEPT !.inputs = @ + 1]
      BY <1>2 DEF SmallTalk, Flagged, Unchecked, TextToRules, TextRevises, TextAnswers, TextToModel, AnswerStale,
                  AnswerChanges, AnswerToRules, AnswerInWords, AnswerChooses, Upload, SetMode,
                  ShowRequest, NewRequest, Back, Input, Answer
    <2>2. QED
      BY <1>1, <2>1
  <1>3. CASE \/ Reopen \/ JobsDone \/ Timeout \/ Unavailable \/ ReplyClamped \/ ReplyWords
             \/ Skip \/ StepLimit \/ Suspend \/ Answered \/ FailsOften \/ Declined \/ HostTool \/ Invalid
             \/ Raises \/ EndReply \/ Summed
    <2>1. profile' = profile /\ spent' = spent
      BY <1>3 DEF Reopen, JobsDone, Timeout, Unavailable, ReplyClamped, ReplyWords, Skip, StepLimit,
                  Suspend, Answered, FailsOften, Declined, HostTool, Invalid, Raises, EndReply, Summed,
                  AtModel, Runnable, Here
    <2>2. QED
      BY <1>1, <2>1
  <1>4. CASE ReplyCalls
    <2>1. profile' = profile
      BY <1>4 DEF ReplyCalls
    <2>2. QED
      BY <1>4, <2>1, CallsLeave
  <1>5. CASE Crash
    <2>1. profile' = profile /\ spent' = [spent EXCEPT !.crashes = @ + 1]
      BY <1>5 DEF Crash
    <2>2. QED
      BY <1>1, <2>1
  <1>6. QED
    BY <1>2, <1>3, <1>4, <1>5 DEF Next

LEMMA NextLeaves ==
    ASSUME StrikeInv, Next
    PROVE  Leaves
  <1>1. CASE \/ SmallTalk \/ TextToRules \/ TextRevises \/ TextAnswers \/ TextToModel
             \/ AnswerStale \/ AnswerChanges \/ AnswerToRules \/ AnswerInWords
    BY <1>1, TextsLeave
  <1>2. CASE AnswerChooses \/ Flagged \/ Unchecked \/ Upload \/ SetMode \/ ShowRequest \/ NewRequest
    BY <1>2, ChoiceLeaves, FlaggedLeaves, UncheckedLeaves, UploadLeaves, ModeLeaves, RequestsLeave
  <1>3. CASE Back \/ Reopen \/ JobsDone
    BY <1>3, BackLeaves, ReopenLeaves, JobsDoneLeaves
  <1>4. CASE Timeout \/ Raises \/ Unavailable \/ ReplyWords \/ Summed \/ ReplyClamped \/ ReplyCalls
    BY <1>4, ModelLeaves, ClampedLeaves, CallsLeave
  <1>5. CASE Skip \/ StepLimit \/ Answered \/ FailsOften \/ Suspend
    BY <1>5, SkipsLeave, SuspendLeaves
  <1>6. CASE Declined \/ HostTool \/ Invalid \/ EndReply \/ Crash
    BY <1>6, RefusalsLeave, InvalidLeaves, EndLeaves
  <1>7. QED
    BY <1>1, <1>2, <1>3, <1>4, <1>5, <1>6 DEF Next

LEMMA NextStrikes == StrikeInv /\ [Next]_vars => StrikeInv'
  <1> SUFFICES ASSUME StrikeInv, [Next]_vars
               PROVE  StrikeInv'
    OBVIOUS
  <1>1. CASE UNCHANGED vars
    BY <1>1 DEF vars, StrikeInv, TypeOK, Sound, Full
  <1>2. CASE Next
    <2>1. Leaves /\ profile' = profile /\ spent' \in [calls : Nat, inputs : Nat, crashes : Nat]
      BY <1>2, NextLeaves, Spends
    <2>2. profile' \in Profiles
      BY <2>1 DEF StrikeInv, TypeOK
    <2>3. Sound(chat)'
      BY <2>1 DEF Leaves, Sound, Full
    <2>4. TypeOK'
      BY <2>1, <2>2 DEF Leaves, TypeOK
    <2>5. QED
      BY <2>1, <2>3, <2>4 DEF Leaves, StrikeInv
  <1>3. QED
    BY <1>1, <1>2

\* Every session keeps its types: the form that is open is one of the seven kinds or a summary
\* over one of them, the answered calls are calls of the conversation, and what is stored (the
\* state Back and a restart go to) says the same of strikes as what is in memory.
THEOREM SessionsAreTyped == Spec => [](TypeOK /\ Sound(chat))
  <1>1. Init => StrikeInv
    BY InitStrikes
  <1>2. StrikeInv /\ [Next]_vars => StrikeInv'
    BY NextStrikes
  <1>3. StrikeInv => TypeOK /\ Sound(chat)
    BY DEF StrikeInv
  <1>4. QED
    BY <1>1, <1>2, <1>3, PTL DEF Spec

\* For every profile, limit, number of inputs and crashes: at most one strike for an input, never
\* taken back but where the profile says so, and what the limit brings stays (StrikesStick).
THEOREM StrikesAlwaysStick == Spec => StrikesStick
  <1>1. Init => StrikeInv
    BY InitStrikes
  <1>2. StrikeInv /\ [Next]_vars => StrikeInv'
    BY NextStrikes
  <1>3. StrikeInv /\ [Next]_vars
        => [LET s == chat'.now IN
            /\ s.strikes > chat.now.strikes => s.strikes = chat.now.strikes + 1 /\ turn.added = 0
            /\ s.strikes < chat.now.strikes =>
                  s.strikes = 0 /\ (profile.counting = "consecutive" \/ chat.now.ended)
            /\ chat.now.down => s.down /\ s.mode = "guided"
            /\ chat.now.ended /\ ~s.ended => profile.reopen
            /\ turn'.at = "idle" /\ s.strikes >= Limit /\ profile.action = "end_session" => s.ended]_vars
    <2>1. StrikeInv /\ Next => Stick
      BY NextLeaves DEF Leaves
    <2>2. QED
      BY <2>1 DEF Stick
  <1>4. QED
    BY <1>1, <1>2, <1>3, PTL DEF Spec, StrikesStick
-----------------------------------------------------------------------------
(***************************************************************************)
(* Calls and their results.  n is the number of calls the model made.      *)
(***************************************************************************)

\* The results of the turn are of calls of the turn, each has at most one, and the question that
\* is open is one of these calls and has none.
Clean(s, n) ==
    /\ s.asked \subseteq 1 .. n
    /\ \A i \in Ids : s.told[i] \in {0, 1} /\ (s.told[i] = 1 => i \in s.asked)
    /\ s.pending # None => s.pending.id \in s.asked /\ s.told[s.pending.id] = 0

\* Guided sessions never send their turn to the model, torn ones are not covered.
Orderly(s, n) == s.torn \/ s.mode = "guided" \/ Clean(s, n)

\* A form that asks for the answer of a call asks for the pending one.
Faithful(s) ==
    s.form # None /\ s.form.call # 0 =>
        s.form.again \/ (s.pending # None /\ s.form.call = s.pending.id)
Proper(s, n) == Orderly(s, n) /\ Faithful(s)

\* What Back and a restart go to is proper too; while the rules work, the form may be behind.
Nearly(c, n) ==
    /\ c \in ChatType /\ Orderly(c.now, n) /\ Proper(c.stored, n)
    /\ \A k \in DOMAIN c.snaps : Proper(c.snaps[k], n)
Fine(c, n) == Nearly(c, n) /\ Faithful(c.now)

\* The calls still to be handled are calls of the turn without a result, each once.
ToDo(todo, s) ==
    /\ \A i \in DOMAIN todo : /\ todo[i] \in s.asked /\ s.told[todo[i]] = 0
                              /\ s.pending # None => s.pending.id # todo[i]
    /\ \A i, j \in DOMAIN todo : todo[i] = todo[j] => i = j
Turned(t, s) ==
    /\ t.at \in {"ask", "sum"} => s.pending = None /\ s.mode = "agent"
    /\ t.at = "calls" => /\ s.mode # "agent" => t.done
                         /\ s.mode = "agent" /\ ~s.torn => ToDo(t.todo, s)

PairInv == StrikeInv /\ Fine(chat, spent.calls) /\ Turned(turn, chat.now)

-----------------------------------------------------------------------------
(* What the operators on a chat do to it.                                  *)

Books(s) == <<s.mode, s.form, s.pending, s.asked, s.told, s.torn>>

LEMMA SameBooks ==
    ASSUME NEW s, NEW t, Books(s) = Books(t), NEW n
    PROVE  (Orderly(s, n) => Orderly(t, n)) /\ (Faithful(s) => Faithful(t))
  BY DEF Books, Orderly, Faithful, Clean

LEMMA NowNearly ==
    ASSUME NEW n, NEW c, Nearly(c, n), NEW s \in SessionType, Orderly(s, n)
    PROVE  /\ Nearly([c EXCEPT !.now = s], n)
           /\ Faithful(s) => Fine([c EXCEPT !.now = s], n)
  BY DEF Nearly, Fine, ChatType

LEMMA NowFine ==
    ASSUME NEW n, NEW c, Fine(c, n), NEW s \in SessionType, Books(s) = Books(c.now)
    PROVE  Fine([c EXCEPT !.now = s], n)
  BY NowNearly, SameBooks DEF Fine, Nearly

LEMMA OpenedFine ==
    ASSUME NEW n, NEW c, Nearly(c, n), NEW form \in FormType,
           form # None /\ form.call # 0 =>
               form.again \/ (c.now.pending # None /\ form.call = c.now.pending.id)
    PROVE  Fine(Opened(c, form), n) /\ Opened(c, form).now.pending = c.now.pending
           /\ Opened(c, form).now.mode = c.now.mode /\ Opened(c, form).now.torn = c.now.torn
           /\ Opened(c, form).now.asked = c.now.asked /\ Opened(c, form).now.told = c.now.told
  <1> DEFINE s == [c.now EXCEPT !.form = form]
             all == Append(c.snaps, s)
             snaps == IF Len(all) > MaxSnaps THEN Tail(all) ELSE all
  <1>1. c \in ChatType /\ c.now \in SessionType /\ c.snaps \in Seq(SessionType)
    BY DEF Nearly, ChatType
  <1>2. s \in SessionType /\ s.mode = c.now.mode /\ s.pending = c.now.pending /\ s.torn = c.now.torn
        /\ s.asked = c.now.asked /\ s.told = c.now.told /\ s.form = form
    BY <1>1 DEF SessionType
  <1> HIDE DEF s
  <1>3. Proper(s, n)
    BY <1>2 DEF Nearly, Proper, Orderly, Clean, Faithful
  <1>4. \A k \in DOMAIN snaps : Proper(snaps[k], n)
    <2>1. \A k \in DOMAIN all : Proper(all[k], n)
      BY <1>1, <1>2, <1>3 DEF Nearly
    <2>2. all \in Seq(SessionType) /\ all # <<>>
      BY <1>1, <1>2
    <2> HIDE DEF all
    <2>3. \A k \in DOMAIN Tail(all) : Tail(all)[k] = all[k + 1] /\ k + 1 \in DOMAIN all
      BY <2>2
    <2>4. QED
      BY <2>1, <2>3
  <1>5. Opened(c, form) = [now |-> s, stored |-> s, snaps |-> snaps]
    BY DEF Opened, s
  <1>6. Opened(c, form) \in ChatType
    BY <1>1, OpenedKeeps DEF Keeps
  <1> HIDE DEF snaps
  <1>7. QED
    BY <1>2, <1>3, <1>4, <1>5, <1>6 DEF Fine, Nearly, Proper

LEMMA ClosedFine ==
    ASSUME NEW n, NEW c, Nearly(c, n)
    PROVE  Fine(Closed(c), n) /\ Closed(c).now.form = None
           /\ Closed(c).now.pending = c.now.pending /\ Closed(c).now.mode = c.now.mode
  <1> DEFINE s == [c.now EXCEPT !.form = None]
  <1>1. c \in ChatType /\ c.now \in SessionType
    BY DEF Nearly, ChatType
  <1>2. s \in SessionType /\ s.mode = c.now.mode /\ s.pending = c.now.pending /\ s.torn = c.now.torn
        /\ s.asked = c.now.asked /\ s.told = c.now.told /\ s.form = None
    BY <1>1 DEF SessionType, FormType
  <1>3. Closed(c) = [c EXCEPT !.now = s] /\ Closed(c).now = s
    BY <1>1 DEF Closed, ChatType
  <1> HIDE DEF s
  <1>4. Orderly(s, n) /\ Faithful(s)
    BY <1>2 DEF Nearly, Orderly, Clean, Faithful
  <1>5. QED
    BY <1>2, <1>3, <1>4, NowNearly

LEMMA SavedFine ==
    ASSUME NEW n, NEW c, Fine(c, n)
    PROVE  Fine(Saved(c), n) /\ Saved(c).now = c.now
  <1>1. c \in ChatType
    BY DEF Fine, Nearly
  <1>2. Saved(c) \in ChatType /\ Saved(c).now = c.now /\ Saved(c).stored = c.now /\ Saved(c).snaps = c.snaps
    BY <1>1 DEF Saved, ChatType
  <1>3. QED
    BY <1>2 DEF Fine, Nearly, Proper

\* What t keeps of c when the call id was told its result.
Tells(c, t, id, n) ==
    /\ t \in ChatType /\ Proper(t.stored, n) /\ (\A k \in DOMAIN t.snaps : Proper(t.snaps[k], n))
    /\ t.now.mode = c.now.mode /\ t.now.form = c.now.form /\ t.now.pending = c.now.pending
    /\ t.now.asked = c.now.asked /\ t.now.torn = c.now.torn
    /\ \A i \in Ids : i # id => t.now.told[i] = c.now.told[i]
    /\ Orderly([t.now EXCEPT !.pending = None], n)
    /\ (c.now.mode = "agent" /\ ~c.now.torn /\ c.now.pending # None => c.now.pending.id # id)
       => Orderly(t.now, n)

\* A call of the turn without a result gets its result, in a turn that is sent to the model.
LEMMA ToldNearly ==
    ASSUME NEW n, NEW c, Nearly(c, n), NEW id \in Ids,
           c.now.mode = "agent" /\ ~c.now.torn => id \in c.now.asked /\ c.now.told[id] = 0
    PROVE  Tells(c, Told(c, id), id, n)
  <1> DEFINE told == [c.now.told EXCEPT ![id] = IF c.now.told[id] < 2 THEN c.now.told[id] + 1 ELSE 2]
             s == [c.now EXCEPT !.told = told]
             t == Told(c, id)
             u == [s EXCEPT !.pending = None]
  <1>1. c \in ChatType /\ c.now \in SessionType /\ c.now.told \in [Ids -> 0 .. 2]
    BY DEF Nearly, ChatType, SessionType
  <1>2. told \in [Ids -> 0 .. 2] /\ \A i \in Ids : i # id => told[i] = c.now.told[i]
    BY <1>1
  <1>3. c.now.told[id] = 0 => told[id] = 1
    BY <1>1
  <1>4. t = [c EXCEPT !.now = s]
    BY <1>1 DEF Told, ChatType
  <1> HIDE DEF told
  <1>5. s \in SessionType /\ s.mode = c.now.mode /\ s.form = c.now.form /\ s.pending = c.now.pending
        /\ s.asked = c.now.asked /\ s.torn = c.now.torn /\ s.told = told
    BY <1>1, <1>2 DEF SessionType
  <1> HIDE DEF s
  <1>6. t \in ChatType /\ t.now = s /\ t.stored = c.stored /\ t.snaps = c.snaps
    BY <1>1, <1>4, <1>5 DEF ChatType
  <1> HIDE DEF t
  <1>7. u.mode = c.now.mode /\ u.asked = c.now.asked /\ u.torn = c.now.torn /\ u.told = told /\ u.pending = None
    BY <1>5 DEF SessionType
  <1> HIDE DEF u
  <1>8. Orderly(u, n)
    BY <1>1, <1>2, <1>3, <1>7 DEF Orderly, Clean, Nearly, SessionType
  <1>9. (c.now.mode = "agent" /\ ~c.now.torn /\ c.now.pending # None => c.now.pending.id # id)
        => Orderly(s, n)
    <2> SUFFICES ASSUME c.now.mode = "agent" /\ ~c.now.torn /\ c.now.pending # None => c.now.pending.id # id
                 PROVE  Orderly(s, n)
      OBVIOUS
    <2>1. CASE c.now.torn \/ c.now.mode = "guided"
      BY <1>5, <2>1 DEF Orderly
    <2>2. CASE ~(c.now.torn \/ c.now.mode = "guided")
      <3>1. Clean(c.now, n) /\ c.now.mode = "agent"
        BY <1>1, <2>2 DEF Nearly, Orderly, SessionType
      <3>2. c.now.pending # None => c.now.pending.id \in Ids
        BY <1>1 DEF SessionType, PendingType
      <3>3. Clean(s, n)
        BY <1>2, <1>3, <1>5, <2>2, <3>1, <3>2 DEF Clean
      <3>4. QED
        BY <3>3 DEF Orderly
    <2>3. QED
      BY <2>1, <2>2
  <1>10. QED
    BY <1>2, <1>5, <1>6, <1>8, <1>9 DEF Nearly, Tells, t, u

\* The pending question has its result.
LEMMA PendingTold ==
    ASSUME NEW n, NEW c, Nearly(c, n), c.now.pending # None
    PROVE  LET r == [Told(c, c.now.pending.id) EXCEPT !.now.pending = None] IN
           /\ Nearly(r, n) /\ r.now.form = c.now.form /\ r.now.pending = None
           /\ r.now.mode = c.now.mode
  <1> DEFINE id == c.now.pending.id
             t == Told(c, id)
             u == [t.now EXCEPT !.pending = None]
             r == [t EXCEPT !.now.pending = None]
  <1>1. c.now \in SessionType /\ c.now.mode \in {"agent", "guided"} /\ id \in Ids
    BY DEF Nearly, ChatType, SessionType, PendingType
  <1>2. c.now.mode = "agent" /\ ~c.now.torn => id \in c.now.asked /\ c.now.told[id] = 0
    BY DEF Nearly, Orderly, Clean
  <1>3. /\ t \in ChatType /\ Proper(t.stored, n) /\ \A k \in DOMAIN t.snaps : Proper(t.snaps[k], n)
        /\ t.now.mode = c.now.mode /\ t.now.form = c.now.form /\ Orderly(u, n)
    BY <1>1, <1>2, ToldNearly DEF Tells
  <1> HIDE DEF t
  <1>4. t.now \in SessionType
    BY <1>3 DEF ChatType
  <1>5. u \in SessionType /\ u.mode = t.now.mode /\ u.form = t.now.form /\ u.pending = None
    BY <1>4 DEF SessionType, PendingType
  <1>6. r = [t EXCEPT !.now = u]
    BY <1>3 DEF ChatType
  <1> HIDE DEF u
  <1>7. r \in ChatType /\ r.now = u /\ r.stored = t.stored /\ r.snaps = t.snaps
    BY <1>3, <1>5, <1>6 DEF ChatType
  <1>8. QED
    BY <1>3, <1>5, <1>7 DEF Nearly, t

LEMMA ResolvedFine ==
    ASSUME NEW n, NEW c, Fine(c, n), c.now.pending # None
    PROVE  Fine(Resolved(c), n) /\ Resolved(c).now.pending = None /\ Resolved(c).now.mode = c.now.mode
  <1> DEFINE id == c.now.pending.id
             r == [Told(c, id) EXCEPT !.now.pending = None]
  <1>1. Nearly(r, n) /\ r.now.form = c.now.form /\ r.now.pending = None /\ r.now.mode = c.now.mode
    BY PendingTold DEF Fine
  <1>2. Resolved(c) = IF OfModel(r) /\ r.now.form.call = id THEN Closed(r) ELSE r
    BY DEF Resolved
  <1> HIDE DEF r
  <1>3. ~(OfModel(r) /\ r.now.form.call = id) => Faithful(r.now)
    BY <1>1 DEF Fine, Faithful, OfModel
  <1>4. QED
    BY <1>1, <1>2, <1>3, ClosedFine DEF Fine

\* Without a pending question nobody waits for a result.
LEMMA UnaskedNearly ==
    ASSUME NEW n, NEW c, Nearly(c, n)
    PROVE  LET q == [c EXCEPT !.now.pending = None] IN
           Nearly(q, n) /\ q.now.form = c.now.form /\ q.now.pending = None /\ q.now.mode = c.now.mode
  <1> DEFINE s == [c.now EXCEPT !.pending = None]
             q == [c EXCEPT !.now.pending = None]
  <1>1. c \in ChatType /\ c.now \in SessionType
    BY DEF Nearly, ChatType
  <1>2. s \in SessionType /\ s.mode = c.now.mode /\ s.pending = None /\ s.torn = c.now.torn
        /\ s.asked = c.now.asked /\ s.told = c.now.told /\ s.form = c.now.form
    BY <1>1 DEF SessionType, PendingType
  <1>3. q = [c EXCEPT !.now = s] /\ q.now = s
    BY <1>1 DEF ChatType
  <1> HIDE DEF s, q
  <1>4. Orderly(s, n)
    BY <1>2 DEF Nearly, Orderly, Clean
  <1>5. QED
    BY <1>2, <1>3, <1>4, NowNearly DEF q

\* A forgotten turn has no calls and no results, whatever mode it goes on in.
LEMMA ForgottenNearly ==
    ASSUME NEW n, NEW c, Nearly(c, n)
    PROVE  /\ Nearly(Forgotten(c), n) /\ Clean(Forgotten(c).now, n)
           /\ Forgotten(c).now.form = c.now.form /\ Forgotten(c).now.pending = None
           /\ Forgotten(c).now.mode = c.now.mode
  <1> DEFINE s == [c.now EXCEPT !.pending = None, !.asked = {}, !.told = NoneTold, !.torn = FALSE]
  <1>1. c \in ChatType /\ c.now \in SessionType
    BY DEF Nearly, ChatType
  <1>2. NoneTold \in [Ids -> 0 .. 2] /\ \A i \in Ids : NoneTold[i] = 0
    BY DEF NoneTold
  <1> HIDE DEF NoneTold
  <1>3. s \in SessionType /\ s.mode = c.now.mode /\ s.pending = None /\ s.torn = FALSE
        /\ s.asked = {} /\ s.told = NoneTold /\ s.form = c.now.form
    BY <1>1, <1>2 DEF SessionType, PendingType
  <1>4. Forgotten(c) = [c EXCEPT !.now = s] /\ Forgotten(c).now = s
    BY <1>1 DEF Forgotten, ChatType
  <1> HIDE DEF s
  <1>5. Clean(s, n)
    BY <1>2, <1>3 DEF Clean
  <1>6. Orderly(s, n)
    BY <1>5 DEF Orderly
  <1>7. QED
    BY <1>3, <1>4, <1>5, <1>6, NowNearly

\* The mode a forgotten turn goes on in.
LEMMA ModeFine ==
    ASSUME NEW n, NEW c, Nearly(c, n), NEW mode \in {"agent", "guided"}
    PROVE  LET m == [Forgotten(c) EXCEPT !.now.mode = mode] IN
           /\ Nearly(m, n) /\ m.now.form = c.now.form /\ m.now.mode = mode /\ m.now.pending = None
           /\ NeedsForm(m) => Fine(Closed(m), n)
           /\ ~OfModel(m) \/ (c.now.pending = None /\ Faithful(c.now)) => Fine(m, n)
  <1> DEFINE f == Forgotten(c)
             s == [f.now EXCEPT !.mode = mode]
             m == [f EXCEPT !.now.mode = mode]
  <1>1. Nearly(f, n) /\ Clean(f.now, n) /\ f.now.form = c.now.form /\ f.now.pending = None
    BY ForgottenNearly
  <1> HIDE DEF f
  <1>2. f \in ChatType /\ f.now \in SessionType
    BY <1>1 DEF Nearly, ChatType
  <1>3. s \in SessionType /\ s.mode = mode /\ s.pending = f.now.pending /\ s.asked = f.now.asked
        /\ s.told = f.now.told /\ s.form = f.now.form
    BY <1>2 DEF SessionType
  <1>4. m = [f EXCEPT !.now = s] /\ m.now = s
    BY <1>2 DEF ChatType
  <1> HIDE DEF s, m
  <1>5. Orderly(s, n)
    BY <1>1, <1>3 DEF Orderly, Clean
  <1>6. Nearly(m, n)
    BY <1>1, <1>3, <1>4, <1>5, NowNearly
  <1>7. ~OfModel(m) \/ (c.now.pending = None /\ Faithful(c.now)) => Faithful(s)
    BY <1>1, <1>3, <1>4 DEF Faithful, OfModel
  <1>8. QED
    BY <1>1, <1>3, <1>4, <1>6, <1>7, ClosedFine DEF Fine, f, m

LEMMA ToGuidedFine ==
    ASSUME NEW n, NEW c, Nearly(c, n)
    PROVE  /\ Nearly(ToGuided(c), n) /\ ToGuided(c).now.mode = "guided"
           /\ Fine(Closed(ToGuided(c)), n)
           /\ ~OfModel(ToGuided(c)) \/ (c.now.pending = None /\ Faithful(c.now)) => Fine(ToGuided(c), n)
  BY ModeFine, ClosedFine DEF ToGuided

LEMMA AdvancesFine ==
    ASSUME NEW n, NEW c, Fine(c, n)
    PROVE  /\ \A d \in AdvancesTo(c) : Fine(d, n)
           /\ \A d \in Advances(c) : Fine(d, n)
  <1>1. \A k \in FormKinds : Form(k, 0) \in FormType /\ Form(k, 0).call = 0
    BY FormsTyped DEF Form
  <1>2. \A k \in {"host", "run", "summary"} : Fine(Opened(c, Form(k, 0)), n)
    BY <1>1, OpenedFine DEF Fine, FormKinds
  <1>3. Fine(Closed(c), n)
    BY ClosedFine DEF Fine
  <1>4. QED
    BY <1>2, <1>3 DEF AdvancesTo, Advances

LEMMA RenewedFine ==
    ASSUME NEW n, NEW c, Fine(c, n)
    PROVE  /\ Fine(Renewed(c), n) /\ Books(Renewed(c).now) = Books(c.now)
  <1> DEFINE s == [c.now EXCEPT !.jobs = FALSE, !.ran = FALSE]
             snaps == IF c.now.ran THEN <<>> ELSE c.snaps
  <1>1. c \in ChatType /\ c.now \in SessionType /\ Renewed(c) \in ChatType
    BY RenewedKeeps DEF Fine, Nearly, ChatType, Keeps
  <1>2. Books(s) = Books(c.now)
    BY <1>1 DEF SessionType, Books
  <1>3. Renewed(c) = [c EXCEPT !.now = s, !.snaps = snaps]
    BY <1>1 DEF Renewed, ChatType
  <1> HIDE DEF s
  <1>4. Renewed(c).now = s /\ Renewed(c).stored = c.stored /\ Renewed(c).snaps = snaps
    BY <1>1, <1>3 DEF ChatType
  <1>5. Orderly(s, n) /\ Faithful(s)
    BY <1>2, SameBooks DEF Fine, Nearly
  <1>6. QED
    BY <1>1, <1>2, <1>4, <1>5 DEF Fine, Nearly

LEMMA StartedFine ==
    ASSUME NEW n, NEW c, Fine(c, n)
    PROVE  /\ Fine(SomeStarted(c), n) /\ Books(SomeStarted(c).now) = Books(c.now)
           /\ Fine(Started(c), n) /\ Started(c).now.pending = c.now.pending
           /\ \A d \in Runs(c) : Fine(d, n)
  <1> DEFINE s == [c.now EXCEPT !.jobs = TRUE, !.ran = TRUE]
  <1>1. c \in ChatType /\ c.now \in SessionType /\ SomeStarted(c) \in ChatType
    BY StartedKeeps DEF Fine, Nearly, ChatType, Keeps
  <1>2. Books(s) = Books(c.now)
    BY <1>1 DEF SessionType, Books
  <1>3. SomeStarted(c) = [c EXCEPT !.now = s, !.snaps = <<>>]
    BY <1>1 DEF SomeStarted, ChatType
  <1> HIDE DEF s
  <1>4. SomeStarted(c).now = s /\ SomeStarted(c).stored = c.stored /\ SomeStarted(c).snaps = <<>>
    BY <1>1, <1>3 DEF ChatType
  <1>5. Orderly(s, n) /\ Faithful(s)
    BY <1>2, SameBooks DEF Fine, Nearly
  <1>6. Fine(SomeStarted(c), n) /\ Books(SomeStarted(c).now) = Books(c.now)
    BY <1>1, <1>2, <1>4, <1>5 DEF Fine, Nearly
  <1>7. Fine(Started(c), n) /\ Started(c).now.pending = c.now.pending
    BY <1>6, ClosedFine DEF Started, Fine, Books
  <1>8. \A d \in Runs(c) : Fine(d, n)
    BY <1>6, <1>7, AdvancesFine DEF Runs
  <1>9. QED
    BY <1>6, <1>7, <1>8

LEMMA SummaryFine ==
    ASSUME NEW n, NEW c, Nearly(c, n)
    PROVE  Fine(Summary(c), n)
  <1>1. PICK form \in FormType : form.call = 0 /\ Summary(c) = Opened(c, form)
    BY SummaryOver DEF Nearly
  <1>2. QED
    BY <1>1, OpenedFine

LEMMA SummaryAnsweredFine ==
    ASSUME NEW n, NEW c, Fine(c, n), Shows(c, {"summary"})
    PROVE  \A d \in SummaryAnswered(c) : Fine(d, n)
  <1> DEFINE f == c.now.form
             under == f.back[1]
             again == [under EXCEPT !.again = TRUE]
  <1>1. f \in FormType /\ f # None
    BY DEF Fine, Nearly, ChatType, SessionType, Shows
  <1>2. CASE f.back = <<>> \/ c.now.mode = "guided"
    BY <1>2, AdvancesFine DEF SummaryAnswered
  <1>3. CASE ~(f.back = <<>> \/ c.now.mode = "guided")
    <2>1. under \in PlainForms \cup {None}
      BY <1>1, <1>3, FormUnder
    <2>2. under # None => again \in FormType /\ again.again
      <3>1. under # None => under \in FormType /\ under \in PlainForms
        BY <2>1 DEF FormType
      <3> HIDE DEF under
      <3>2. under # None => again \in FormType
        BY <3>1, FormUnder
      <3>3. under # None => again.again = TRUE
        BY <3>1 DEF PlainForms
      <3>4. QED
        BY <3>2, <3>3
    <2>3. \A d \in SummaryAnswered(c) : d = Closed(c) \/ (under # None /\ d = Opened(c, again))
      BY <1>3 DEF SummaryAnswered
    <2> HIDE DEF under, again
    <2>4. QED
      BY <2>2, <2>3, ClosedFine, OpenedFine DEF Fine
  <1>4. QED
    BY <1>2, <1>3

\* A change closes the question that was open, and its form is the question's no longer.
LEMMA ReleasedFine ==
    ASSUME NEW n, NEW c, Fine(c, n), NEW close \in BOOLEAN
    PROVE  Fine(Released(c, close), n)
  <1> DEFINE r == IF c.now.pending = None THEN c
                  ELSE [Told(c, c.now.pending.id) EXCEPT !.now.pending = None]
             form == [r.now.form EXCEPT !.call = 0]
  <1>1. Nearly(r, n)
    BY PendingTold DEF Fine
  <1>2. Released(c, close) = IF close THEN Closed(r) ELSE IF OfModel(r) THEN Opened(r, form) ELSE r
    BY DEF Released
  <1> HIDE DEF r
  <1>3. OfModel(r) => form \in FormType
    BY <1>1, FormUnder DEF OfModel, Nearly, ChatType, SessionType
  <1>4. OfModel(r) => form.call = 0
    <2> SUFFICES ASSUME OfModel(r) PROVE form.call = 0
      OBVIOUS
    <2>1. r.now.form \in PlainForms \cup OverForms
      BY <1>1 DEF OfModel, Nearly, ChatType, SessionType, FormType
    <2>2. QED
      BY <2>1 DEF PlainForms, OverForms
  <1>5. ~OfModel(r) => Fine(r, n)
    BY <1>1 DEF Fine, Faithful, OfModel
  <1> HIDE DEF form
  <1>6. QED
    BY <1>1, <1>2, <1>3, <1>4, <1>5, ClosedFine, OpenedFine

LEMMA ChangedFine ==
    ASSUME NEW n, NEW c, Fine(c, n)
    PROVE  \A d \in Changed(c) : Fine(d, n)
  <1> DEFINE r == Released(c, TRUE)
  <1>1. Fine(r, n)
    BY ReleasedFine
  <1>2. Form("change", 0) \in FormType /\ Form("change", 0).call = 0
    BY FormsTyped DEF FormKinds, Form
  <1>3. Fine(Opened(r, Form("change", 0)), n)
    BY <1>1, <1>2, OpenedFine DEF Fine
  <1>4. QED
    BY <1>1, <1>3, AdvancesFine DEF Changed

LEMMA RevisedFine ==
    ASSUME NEW n, NEW c, Fine(c, n)
    PROVE  \A d \in Revised(c) : Fine(d, n)
  BY ReleasedFine, ChangedFine, AdvancesFine DEF Revised

LEMMA GuidedFine ==
    ASSUME NEW n, NEW c, Fine(c, n)
    PROVE  /\ \A d \in GuidedText(c) : Fine(d, n)
           /\ \A d \in GuidedAnswer(c) : Fine(d, n)
  <1>1. Form("retry", 0) \in FormType /\ Form("retry", 0).call = 0
    BY FormsTyped DEF FormKinds, Form
  <1>2. Nearly(c, n)
    BY DEF Fine
  <1>3. Fine(Summary(c), n) /\ Fine(Opened(c, Form("retry", 0)), n) /\ Fine(Closed(c), n)
    BY <1>1, <1>2, SummaryFine, OpenedFine, ClosedFine
  <1>4. /\ \A d \in Advances(c) : Fine(d, n)
        /\ \A d \in Advances(Renewed(c)) : Fine(d, n)
        /\ \A d \in Advances(Closed(c)) : Fine(d, n)
        /\ \A d \in Revised(c) : Fine(d, n)
        /\ \A d \in Runs(c) : Fine(d, n)
        /\ Fine(Started(c), n) /\ Fine(SomeStarted(c), n)
        /\ Shows(c, {"summary"}) => \A d \in SummaryAnswered(c) : Fine(d, n)
    BY <1>3, AdvancesFine, RenewedFine, RevisedFine, StartedFine, SummaryAnsweredFine
  <1>5. \A d \in GuidedText(c) : Fine(d, n)
    BY <1>3, <1>4 DEF GuidedText
  <1>6. QED
    BY <1>4, <1>5 DEF GuidedAnswer

\* Before the model is asked, each call of a turn that was left without a result gets one.
LEMMA PairedFine ==
    ASSUME NEW n, NEW c, Fine(c, n)
    PROVE  /\ Fine(Paired(c), n)
           /\ Paired(c).now.form = c.now.form /\ Paired(c).now.pending = c.now.pending
           /\ Paired(c).now.mode = c.now.mode /\ Paired(c).now.torn = c.now.torn
           /\ Paired(c).now.asked = c.now.asked
           /\ c.now.mode = "agent" /\ ~c.now.torn /\ c.now.pending = None
              => \A i \in Ids : Paired(c).now.told[i] = IF i \in c.now.asked THEN 1 ELSE 0
  <1> DEFINE t == [i \in Ids |-> IF i \in Unanswered(c.now) THEN 1 ELSE c.now.told[i]]
             s == [c.now EXCEPT !.told = t]
  <1>1. c \in ChatType /\ c.now \in SessionType
    BY DEF Fine, Nearly, ChatType
  <1>2. t \in [Ids -> 0 .. 2]
    BY <1>1 DEF SessionType
  <1>3. Paired(c) = [c EXCEPT !.now = s] /\ Paired(c).now = s
    BY <1>1 DEF Paired, ChatType, SessionType
  <1>4. \A i \in Ids : t[i] = IF i \in Unanswered(c.now) THEN 1 ELSE c.now.told[i]
    OBVIOUS
  <1> HIDE DEF t
  <1>5. s \in SessionType /\ s.mode = c.now.mode /\ s.pending = c.now.pending /\ s.torn = c.now.torn
        /\ s.asked = c.now.asked /\ s.told = t /\ s.form = c.now.form
    BY <1>1, <1>2 DEF SessionType
  <1> HIDE DEF s
  <1>6. Clean(c.now, n) => Clean(s, n)
    <2>1. c.now.pending # None => c.now.pending.id \in Ids
      BY <1>1 DEF SessionType, PendingType
    <2>2. QED
      BY <1>4, <1>5, <2>1 DEF Clean, Unanswered
  <1>7. Orderly(s, n) /\ Faithful(s)
    BY <1>5, <1>6 DEF Fine, Nearly, Orderly, Faithful
  <1>8. c.now.mode = "agent" /\ ~c.now.torn /\ c.now.pending = None
        => \A i \in Ids : t[i] = IF i \in c.now.asked THEN 1 ELSE 0
    BY <1>4 DEF Fine, Nearly, Orderly, Clean, Unanswered
  <1>9. QED
    BY <1>3, <1>5, <1>7, <1>8, NowNearly DEF Fine

LEMMA QuietlyFine ==
    ASSUME NEW n, NEW c, Fine(c, n), NEW r \in Quietly({c})
    PROVE  Fine(r.chat, n) /\ r.chat.now = c.now /\ ~r.raised
  <1>1. r = [chat |-> Saved(c), raised |-> FALSE]
    BY DEF Quietly
  <1>2. r.chat = Saved(c) /\ r.raised = FALSE
    BY <1>1
  <1>3. QED
    BY <1>2, SavedFine

\* A strike leaves the calls of the turn as they are, unless it ends the session in the middle of
\* a reply (torn) or brings the guided mode.
Spared(c, r, n) ==
    /\ Fine(r.chat, n)
    /\ turn.at = "calls" =>
          r.chat.now.torn \/ r.chat.now.mode = "guided" \/ Books(r.chat.now) = Books(c.now)

LEMMA StruckFine ==
    ASSUME TypeOK, NEW n, NEW c, Fine(c, n)
    PROVE  \A r \in Struck(c) : Spared(c, r, n)
  <1> DEFINE s == [c.now EXCEPT !.strikes = c.now.strikes + 1, !.struck = TRUE]
             k == Counted(c)
  <1>1. c \in ChatType /\ c.now \in SessionType /\ c.now.strikes + 1 \in Nat
    BY DEF Fine, Nearly, ChatType, SessionType
  <1>2. CASE c.now.struck
    <2>1. \A r \in Struck(c) : r = [chat |-> c, raised |-> FALSE]
      BY <1>2 DEF Struck
    <2>2. [chat |-> c, raised |-> FALSE].chat = c
      OBVIOUS
    <2>3. QED
      BY <2>1, <2>2 DEF Spared
  <1>3. CASE ~c.now.struck
    <2>1. Fine(k, n) /\ Books(k.now) = Books(c.now)
      <3>1. s \in SessionType /\ Books(s) = Books(c.now)
        <4>1. s \in SessionType
          BY <1>1 DEF SessionType
        <4>2. Books(s) = Books(c.now)
          BY <1>1 DEF SessionType, Books
        <4>3. QED
          BY <4>1, <4>2
      <3>2. k = [c EXCEPT !.now = s] /\ k.now = s
        BY <1>1 DEF Counted, ChatType
      <3> HIDE DEF s, k
      <3>3. QED
        BY <3>1, <3>2, NowFine
    <2>2. k \in ChatType /\ k.now \in SessionType /\ k.now.strikes \in Nat
      BY <2>1 DEF Fine, Nearly, ChatType, SessionType
    <2>3. \A r \in Struck(c) : r \in Limited(k)
      BY <1>3 DEF Struck
    <2> HIDE DEF k
    <2>4. profile.action \in {"warn", "end_session", "guided"} /\ Limit \in Nat /\ k.now.strikes \in Nat
      BY <2>2, TurnAssumption DEF TypeOK, TurnAssumption
    <2>5. \A r \in Quietly({k}) : Spared(c, r, n)
      BY <2>1, QuietlyFine DEF Spared
    <2>6. CASE profile.action = "warn" \/ k.now.strikes < Limit
      <3>1. Limited(k) = Quietly({k})
        BY <2>4, <2>6 DEF Limited
      <3>2. QED
        BY <2>3, <2>5, <3>1
    <2>7. CASE profile.action = "end_session" /\ ~(k.now.strikes < Limit)
      <3> DEFINE f == Closed(Forgotten(k))
                 m == [f.now EXCEPT !.ended = TRUE, !.torn = (turn.at = "calls")]
                 e == [f EXCEPT !.now.ended = TRUE, !.now.torn = (turn.at = "calls")]
      <3>1. Nearly(Forgotten(k), n) /\ Clean(Forgotten(k).now, n)
        BY <2>1, ForgottenNearly DEF Fine
      <3>2. Fine(f, n) /\ Clean(f.now, n) /\ f.now.form = None
        <4>1. Fine(f, n) /\ f.now.form = None
          BY <3>1, ClosedFine
        <4>2. /\ f.now.asked = Forgotten(k).now.asked /\ f.now.told = Forgotten(k).now.told
              /\ f.now.pending = Forgotten(k).now.pending
          <5>1. Forgotten(k) \in ChatType /\ Forgotten(k).now \in SessionType
            BY <3>1 DEF Nearly, ChatType
          <5>2. QED
            BY <5>1 DEF Closed, ChatType, SessionType
        <4>3. QED
          BY <3>1, <4>1, <4>2 DEF Clean
      <3> HIDE DEF f
      <3>3. f \in ChatType /\ f.now \in SessionType
        BY <3>2 DEF Fine, Nearly, ChatType
      <3>4. m \in SessionType /\ m.torn = (turn.at = "calls") /\ m.form = None
            /\ m.asked = f.now.asked /\ m.told = f.now.told /\ m.pending = f.now.pending
        <4>1. m \in SessionType
          BY <3>3 DEF SessionType
        <4>2. QED
          BY <3>2, <3>3, <4>1 DEF SessionType
      <3>5. e = [f EXCEPT !.now = m] /\ e.now = m
        BY <3>3 DEF ChatType, SessionType
      <3> HIDE DEF m
      <3>6. Orderly(m, n) /\ Faithful(m)
        BY <3>2, <3>4 DEF Orderly, Clean, Faithful
      <3>7. Limited(k) = Quietly({e})
        BY <2>4, <2>7 DEF Limited, f
      <3> HIDE DEF e
      <3>8. Fine(e, n)
        BY <3>2, <3>4, <3>5, <3>6, NowNearly DEF Fine
      <3>9. \A r \in Limited(k) : Spared(c, r, n)
        <4>1. turn.at = "calls" => m.torn
          BY <3>4
        <4>2. \A r \in Quietly({e}) : Fine(r.chat, n) /\ r.chat.now = m
          BY <3>5, <3>8, QuietlyFine
        <4>3. QED
          BY <3>7, <4>1, <4>2 DEF Spared
      <3>10. QED
        BY <2>3, <3>9
    <2>8. CASE profile.action = "guided" /\ ~(k.now.strikes < Limit)
      <3>1. CASE k.now.down
        <4>1. Limited(k) = Quietly({k})
          BY <2>4, <2>8, <3>1 DEF Limited
        <4>2. QED
          BY <2>3, <2>5, <4>1
      <3>2. CASE ~k.now.down
        <4> DEFINE g == IF k.now.mode = "guided" THEN k ELSE ToGuided(k)
                   shown == IF k.now.mode = "agent" /\ NeedsForm(g) THEN AdvancesTo(Closed(g)) ELSE {g}
        <4>1. Nearly(g, n) /\ g.now.mode = "guided" /\ (k.now.mode = "guided" => g = k)
          BY <2>1, ToGuidedFine DEF Fine
        <4>2. Limited(k) = Quietly({[d EXCEPT !.now.down = TRUE] : d \in shown})
                           \cup (IF shown = {g} THEN {} ELSE {[chat |-> Closed(g), raised |-> TRUE]})
          BY <2>4, <2>8, <3>2 DEF Limited
        <4>3. k.now.mode \in {"agent", "guided"}
          BY <2>2 DEF SessionType
        <4> HIDE DEF g
        <4>4. Fine(Closed(g), n) /\ Closed(g).now.mode = "guided" /\ Closed(g) \in ChatType
          BY <4>1, ClosedFine DEF Fine, Nearly
        <4>5. \A d \in shown : Fine(d, n) /\ d.now.mode = "guided"
          <5>1. ASSUME k.now.mode = "agent" /\ NeedsForm(g), NEW d \in AdvancesTo(Closed(g))
                PROVE  Fine(d, n) /\ d.now.mode = "guided"
            BY <4>4, <5>1, AdvancesFine, AdvancesKeep DEF Keeps
          <5>2. ~(k.now.mode = "agent" /\ NeedsForm(g)) => Fine(g, n)
            <6>1. k.now.mode = "guided" => Fine(g, n)
              BY <2>1, <4>1
            <6>2. ~NeedsForm(g) => Fine(g, n)
              BY <4>1 DEF NeedsForm, Fine, Faithful, OfModel
            <6>3. QED
              BY <4>3, <6>1, <6>2
          <5>3. QED
            BY <4>1, <5>1, <5>2
        <4> HIDE DEF shown
        <4>6. ASSUME NEW d \in shown
              PROVE  Spared(c, [chat |-> Saved([d EXCEPT !.now.down = TRUE]), raised |-> FALSE], n)
          <5> DEFINE m == [d.now EXCEPT !.down = TRUE]
                     e == [d EXCEPT !.now.down = TRUE]
          <5>1. Fine(d, n) /\ d.now.mode = "guided" /\ d \in ChatType /\ d.now \in SessionType
            BY <4>5 DEF Fine, Nearly, ChatType
          <5>2. m \in SessionType /\ Books(m) = Books(d.now) /\ m.mode = d.now.mode
            <6>1. m \in SessionType
              BY <5>1 DEF SessionType
            <6>2. QED
              BY <5>1, <6>1 DEF SessionType, Books
          <5>3. e = [d EXCEPT !.now = m] /\ e.now = m
            BY <5>1 DEF ChatType
          <5> HIDE DEF m, e
          <5>4. Fine(e, n) /\ e.now.mode = "guided"
            BY <5>1, <5>2, <5>3, NowFine
          <5>5. Fine(Saved(e), n) /\ Saved(e).now = e.now
            BY <5>4, SavedFine
          <5>6. QED
            BY <5>4, <5>5 DEF Spared, e
        <4>7. Spared(c, [chat |-> Closed(g), raised |-> TRUE], n)
          BY <4>4 DEF Spared
        <4>8. \A r \in Limited(k) : Spared(c, r, n)
          BY <4>2, <4>6, <4>7 DEF Quietly
        <4>9. QED
          BY <2>3, <4>8
      <3>3. QED
        BY <3>1, <3>2
    <2>9. QED
      BY <2>4, <2>6, <2>7, <2>8
  <1>4. QED
    BY <1>2, <1>3
-----------------------------------------------------------------------------
(* One step.                                                               *)

\* What a step that asks the model for no more calls must leave.
Pairs == Fine(chat', spent.calls) /\ Turned(turn', chat'.now)

LEMMA SettlesPairs ==
    ASSUME NEW d, Fine(d, spent.calls), NEW said, Settles(d, said)
    PROVE  Pairs
  <1> DEFINE s == [d.now EXCEPT !.strikes = 0]
             e == [d EXCEPT !.now.strikes = 0]
  <1>1. d \in ChatType /\ d.now \in SessionType
    BY DEF Fine, Nearly, ChatType
  <1>2. Fine(e, spent.calls)
    <2>1. s \in SessionType /\ Books(s) = Books(d.now)
      <3>1. s \in SessionType
        BY <1>1 DEF SessionType
      <3>2. QED
        BY <1>1, <3>1 DEF SessionType, Books
    <2>2. e = [d EXCEPT !.now = s]
      BY <1>1 DEF ChatType
    <2> HIDE DEF s, e
    <2>3. QED
      BY <2>1, <2>2, NowFine
  <1>3. Fine(chat', spent.calls)
    BY <1>2, SavedFine DEF Settles
  <1>4. turn'.at = "idle"
    BY IdleTyped DEF Settles
  <1>5. QED
    BY <1>3, <1>4 DEF Pairs, Turned

LEMMA LoopsPair ==
    ASSUME NEW d, Fine(d, spent.calls), d.now.pending = None, d.now.mode = "agent",
           NEW said \in BOOLEAN, NEW first \in BOOLEAN, Loops(d, said, first)
    PROVE  Pairs
  <1>1. Idle \in TurnType
    BY IdleTyped
  <1> HIDE DEF Idle
  <1>2. turn'.at = "ask"
    BY <1>1 DEF Loops, TurnType
  <1>3. QED
    BY <1>2 DEF Pairs, Turned, Loops

LEMMA GuardedFine ==
    ASSUME PairInv, NEW origin \in {"text", "answer", "system"}
    PROVE  Fine(Guarded(origin), spent.calls) /\ Books(Guarded(origin).now) = Books(chat.now)
  <1> DEFINE s == [chat.now EXCEPT !.struck = FALSE, !.origin = origin]
  <1>1. chat \in ChatType /\ chat.now \in SessionType
    BY DEF PairInv, Fine, Nearly, ChatType
  <1>2. s \in SessionType
    BY <1>1 DEF SessionType
  <1>3. Books(s) = Books(chat.now)
    BY <1>1 DEF SessionType, Books
  <1>4. Guarded(origin) = [chat EXCEPT !.now = s] /\ Guarded(origin).now = s
    BY <1>1 DEF Guarded, ChatType
  <1> HIDE DEF s
  <1>5. QED
    BY <1>2, <1>3, <1>4, NowFine DEF PairInv

LEMMA RulesPair ==
    ASSUME PairInv,
           \/ SmallTalk \/ TextToRules \/ TextRevises
           \/ AnswerStale \/ AnswerChanges \/ AnswerToRules
    PROVE  Pairs
  <1>1. Fine(Guarded("text"), spent.calls) /\ Fine(Guarded("answer"), spent.calls)
    BY GuardedFine
  <1>2. /\ \A d \in GuidedText(Guarded("text")) : Fine(d, spent.calls)
        /\ \A d \in Revised(Guarded("text")) : Fine(d, spent.calls)
        /\ \A d \in Changed(Guarded("answer")) : Fine(d, spent.calls)
        /\ \A d \in GuidedAnswer(Guarded("answer")) : Fine(d, spent.calls)
    BY <1>1, GuidedFine, RevisedFine, ChangedFine
  <1>3. \E d : Fine(d, spent.calls) /\ Settles(d, TRUE)
    BY <1>1, <1>2 DEF SmallTalk, TextToRules, TextRevises, AnswerStale, AnswerChanges, AnswerToRules
  <1>4. QED
    BY <1>3, SettlesPairs

\* A text or an answer the model waits for, and a text it does not.
LEMMA TextsPair ==
    ASSUME PairInv, TextAnswers \/ AnswerInWords \/ TextToModel
    PROVE  Pairs
  <1> DEFINE g == Guarded("text")
  <1>1. Fine(g, spent.calls) /\ g.now.pending = chat.now.pending /\ g.now.mode = chat.now.mode
    BY GuardedFine DEF Books
  <1> HIDE DEF g
  <1>2. CASE TextAnswers \/ AnswerInWords
    <2>1. g.now.pending # None /\ g.now.mode = "agent"
      BY <1>1, <1>2 DEF TextAnswers, AnswerInWords, Asked, Current, Agent
    <2>2. Fine(Closed(g), spent.calls) /\ Closed(g).now.pending # None /\ Closed(g).now.mode = "agent"
      BY <1>1, <2>1, ClosedFine DEF Fine
    <2>3. /\ Fine(Resolved(Closed(g)), spent.calls) /\ Resolved(Closed(g)).now.pending = None
          /\ Resolved(Closed(g)).now.mode = "agent"
      BY <2>2, ResolvedFine
    <2>4. Loops(Resolved(Closed(g)), TRUE, FALSE)
      BY <1>2 DEF TextAnswers, AnswerInWords, g
    <2>5. QED
      BY <2>3, <2>4, LoopsPair
  <1>3. CASE TextToModel
    <2>1. g.now.pending = None /\ g.now.mode = "agent"
      BY <1>1, <1>3 DEF TextToModel, Asked, Agent
    <2>2. /\ Nearly(Forgotten(g), spent.calls) /\ Forgotten(g).now.pending = None
          /\ Forgotten(g).now.form = g.now.form /\ Forgotten(g).now.mode = "agent"
      BY <1>1, <2>1, ForgottenNearly DEF Fine
    <2>3. Fine(Forgotten(g), spent.calls)
      BY <1>1, <2>1, <2>2 DEF Fine, Faithful
    <2>4. Loops(Forgotten(g), TRUE, TRUE)
      BY <1>3 DEF TextToModel, g
    <2>5. QED
      BY <2>2, <2>3, <2>4, LoopsPair
  <1>4. QED
    BY <1>2, <1>3

LEMMA ChoicePairs ==
    ASSUME PairInv, AnswerChooses
    PROVE  Pairs
  <1> DEFINE g == Guarded("answer")
  <1>1. Fine(g, spent.calls) /\ g.now.pending = chat.now.pending /\ g.now.form = chat.now.form
        /\ g.now.mode = chat.now.mode
    BY GuardedFine DEF Books
  <1>2. g.now.pending # None /\ g.now.mode = "agent"
        /\ g.now.form # None /\ g.now.form.call = g.now.pending.id
    BY <1>1 DEF AnswerChooses, Current, Agent, OfModel
  <1>3. /\ \/ Settles(g, TRUE)
           \/ Loops(Resolved(g), TRUE, FALSE)
           \/ Settles(Resolved(Started(g)), TRUE)
           \/ \E c \in {g, SomeStarted(g)} : Settles(Opened(c, g.now.form), TRUE)
           \/ \E c \in {Resolved(Opened(g, Form("host", 0))), Resolved(Closed(g)),
                        Opened(g, Form("retry", 0)), SomeStarted(g)} : Settles(c, TRUE)
    BY DEF AnswerChooses
  <1> HIDE DEF g
  <1>4. \A k \in {"host", "retry"} : Form(k, 0) \in FormType /\ Form(k, 0).call = 0
    BY FormsTyped DEF FormKinds, Form
  <1>5. /\ Fine(Closed(g), spent.calls) /\ Closed(g).now.pending # None
        /\ Fine(Opened(g, Form("host", 0)), spent.calls) /\ Opened(g, Form("host", 0)).now.pending # None
        /\ Fine(Opened(g, Form("retry", 0)), spent.calls)
    <2>1. Nearly(g, spent.calls)
      BY <1>1 DEF Fine
    <2>2. Fine(Closed(g), spent.calls) /\ Closed(g).now.pending # None
      BY <1>2, <2>1, ClosedFine
    <2>3. \A k \in {"host", "retry"} : /\ Fine(Opened(g, Form(k, 0)), spent.calls)
                                        /\ Opened(g, Form(k, 0)).now.pending = g.now.pending
      BY <1>4, <2>1, OpenedFine
    <2>4. QED
      BY <1>2, <2>2, <2>3
  <1>6. /\ Fine(SomeStarted(g), spent.calls) /\ SomeStarted(g).now.pending = g.now.pending
        /\ Fine(Started(g), spent.calls) /\ Started(g).now.pending # None
    BY <1>1, <1>2, StartedFine DEF Books
  <1>7. /\ Fine(Resolved(g), spent.calls) /\ Resolved(g).now.pending = None
        /\ Resolved(g).now.mode = "agent"
        /\ Fine(Resolved(Started(g)), spent.calls)
        /\ Fine(Resolved(Closed(g)), spent.calls)
        /\ Fine(Resolved(Opened(g, Form("host", 0))), spent.calls)
    BY <1>1, <1>2, <1>5, <1>6, ResolvedFine
  <1>8. g.now.form \in FormType
    BY <1>1 DEF Fine, Nearly, ChatType, SessionType
  <1>9. \A c \in {g, SomeStarted(g)} : Fine(Opened(c, g.now.form), spent.calls)
    BY <1>1, <1>2, <1>6, <1>8, OpenedFine DEF Fine
  <1>10. Loops(Resolved(g), TRUE, FALSE) \/ \E d : Fine(d, spent.calls) /\ Settles(d, TRUE)
    BY <1>1, <1>3, <1>5, <1>6, <1>7, <1>9
  <1>11. QED
    BY <1>7, <1>10, LoopsPair, SettlesPairs

\* Texts that are flagged, or that could not be checked, are not sent to the model.
LEMMA NoticesPair ==
    ASSUME PairInv, Flagged \/ Unchecked
    PROVE  Pairs
  <1> DEFINE s == [chat.now EXCEPT !.origin = "text"]
             c == [chat EXCEPT !.now.origin = "text"]
  <1>1. chat \in ChatType /\ chat.now \in SessionType /\ TypeOK /\ Fine(chat, spent.calls)
    BY DEF PairInv, StrikeInv, Fine, Nearly, ChatType
  <1>2. s \in SessionType
    BY <1>1 DEF SessionType
  <1>3. Books(s) = Books(chat.now)
    BY <1>1 DEF SessionType, Books
  <1>4. c = [chat EXCEPT !.now = s]
    BY <1>1 DEF ChatType
  <1> HIDE DEF s
  <1>5. (Flagged => \E r \in Struck(c) : chat' = IF r.raised THEN chat ELSE [r.chat EXCEPT !.now = r.chat.stored])
        /\ (Unchecked => chat' \in {chat, Saved(c)}) /\ turn' = Idle
    BY DEF Flagged, Unchecked
  <1> HIDE DEF c
  <1>6. Fine(c, spent.calls) /\ Fine(Saved(c), spent.calls)
    BY <1>1, <1>2, <1>3, <1>4, NowFine, SavedFine
  <1>7. \A r \in Struck(c) : Fine([r.chat EXCEPT !.now = r.chat.stored], spent.calls)
    <2> SUFFICES ASSUME NEW r \in Struck(c)
                 PROVE  Fine([r.chat EXCEPT !.now = r.chat.stored], spent.calls)
      OBVIOUS
    <2>1. Fine(r.chat, spent.calls)
      BY <1>1, <1>6, StruckFine DEF Spared
    <2>2. r.chat.stored \in SessionType /\ Proper(r.chat.stored, spent.calls)
      BY <2>1 DEF Fine, Nearly, ChatType
    <2>3. QED
      BY <2>1, <2>2, NowNearly DEF Fine, Proper
  <1>8. Fine(chat', spent.calls)
    BY <1>1, <1>5, <1>6, <1>7
  <1>9. QED
    BY <1>5, <1>8, IdleTyped DEF Pairs, Turned

LEMMA UploadPairs ==
    ASSUME PairInv, Upload
    PROVE  Pairs
  <1> DEFINE g == Guarded("system")
             q == [g EXCEPT !.now.pending = None]
  <1>1. Fine(g, spent.calls) /\ g.now.pending = chat.now.pending /\ g.now.mode = chat.now.mode /\ TypeOK
    BY GuardedFine DEF Books, PairInv, StrikeInv
  <1>2. Form("host", 0) \in FormType /\ Form("host", 0).call = 0
    BY FormsTyped DEF FormKinds, Form
  <1>3. \/ Settles(g, FALSE)
        \/ \E r \in Struck(g) : Settles(r.chat, FALSE)
        \/ Asked /\ Loops(Resolved(g), FALSE, FALSE)
        \/ Settles(Opened(q, Form("host", 0)), FALSE)
    BY DEF Upload
  <1>4. Nearly(q, spent.calls)
    BY <1>1, UnaskedNearly DEF Fine
  <1> HIDE DEF q, g
  <1>5. Fine(Opened(q, Form("host", 0)), spent.calls)
    BY <1>2, <1>4, OpenedFine
  <1>6. \A r \in Struck(g) : Fine(r.chat, spent.calls)
    BY <1>1, StruckFine DEF Spared
  <1>7. Asked => /\ Fine(Resolved(g), spent.calls) /\ Resolved(g).now.pending = None
                 /\ Resolved(g).now.mode = "agent"
    BY <1>1, ResolvedFine DEF Asked, Agent
  <1>8. QED
    BY <1>1, <1>3, <1>5, <1>6, <1>7, SettlesPairs, LoopsPair

LEMMA ModesPair ==
    ASSUME PairInv, SetMode
    PROVE  Pairs
  <1> DEFINE g == Guarded("system")
             a == [Forgotten(g) EXCEPT !.now.mode = "agent"]
  <1>1. Fine(g, spent.calls)
    BY GuardedFine
  <1> HIDE DEF g
  <1>2. PICK d \in Switched(g) : Settles(d, FALSE)
    BY DEF SetMode, g
  <1>3. CASE Agent
    <2>1. /\ Nearly(ToGuided(g), spent.calls) /\ Fine(Closed(ToGuided(g)), spent.calls)
          /\ ToGuided(g).now.form = g.now.form
          /\ ~OfModel(ToGuided(g)) => Fine(ToGuided(g), spent.calls)
      BY <1>1, ToGuidedFine, ModeFine DEF Fine, ToGuided
    <2>2. \A e \in Advances(Closed(ToGuided(g))) : Fine(e, spent.calls)
      BY <2>1, AdvancesFine
    <2>3. ~NeedsForm(g) => Fine(ToGuided(g), spent.calls)
      BY <2>1 DEF NeedsForm, OfModel
    <2>4. Fine(d, spent.calls)
      BY <1>2, <1>3, <2>2, <2>3 DEF Switched
    <2>5. QED
      BY <1>2, <2>4, SettlesPairs
  <1>4. CASE ~Agent
    <2>1. Nearly(a, spent.calls) /\ (~OfModel(a) => Fine(a, spent.calls))
      BY <1>1, ModeFine DEF Fine
    <2>2. d = IF OfModel(a) THEN Closed(a) ELSE a
      BY <1>2, <1>4 DEF Switched
    <2>3. Fine(d, spent.calls)
      BY <2>1, <2>2, ClosedFine
    <2>4. QED
      BY <1>2, <2>3, SettlesPairs
  <1>5. QED
    BY <1>3, <1>4

LEMMA RequestsPair ==
    ASSUME PairInv, ShowRequest \/ NewRequest
    PROVE  Pairs
  <1> DEFINE g == Guarded("system")
             r == Closed(Forgotten(Renewed(g)))
  <1>1. Fine(g, spent.calls) /\ Nearly(g, spent.calls)
    BY GuardedFine DEF Fine
  <1>2. Fine(Summary(g), spent.calls)
    BY <1>1, SummaryFine
  <1>3. Fine(r, spent.calls)
    BY <1>1, RenewedFine, ForgottenNearly, ClosedFine DEF Fine
  <1>4. \A d \in {r} \cup Advances(r) : Fine(d, spent.calls)
    BY <1>3, AdvancesFine
  <1>5. (ShowRequest => Settles(Summary(g), FALSE))
        /\ (NewRequest => \E d \in {r} \cup Advances(r) : Settles(d, FALSE))
    BY DEF ShowRequest, NewRequest
  <1> HIDE DEF g, r
  <1>6. QED
    BY <1>2, <1>4, <1>5, SettlesPairs

LEMMA BackPairs ==
    ASSUME PairInv, Back
    PROVE  Pairs
  <1> DEFINE n == Len(chat.snaps)
             o == chat.snaps[n - 1]
             mode == IF chat.now.down THEN "guided" ELSE o.mode
             rest == SubSeq(chat.snaps, 1, n - 1)
  <1>1. /\ Fine(chat, spent.calls) /\ chat.now \in SessionType /\ chat.snaps \in Seq(SessionType)
        /\ n \in Nat /\ n > 1
    BY DEF PairInv, Fine, Nearly, ChatType, Back
  <1>2. n - 1 \in DOMAIN chat.snaps
    BY <1>1
  <1>3. o \in SessionType /\ Proper(o, spent.calls)
    BY <1>1, <1>2, ElementOfSeq DEF Fine, Nearly
  <1>4. Restored = [o EXCEPT !.strikes = chat.now.strikes, !.ended = chat.now.ended, !.down = chat.now.down,
                             !.jobs = chat.now.jobs, !.mode = mode]
    BY <1>3 DEF Restored, SessionType
  <1>5. mode \in {o.mode, "guided"}
    OBVIOUS
  <1>6. rest \in Seq(SessionType) /\ \A k \in DOMAIN rest : rest[k] = chat.snaps[k] /\ k \in DOMAIN chat.snaps
    BY <1>1
  <1>7. chat' = [now |-> Restored, stored |-> Restored, snaps |-> rest] /\ turn' = Idle
    BY DEF Back
  <1>8. chat' \in ChatType
    BY BackLeaves DEF PairInv, Leaves
  <1> HIDE DEF o, mode
  <1>9. Restored.mode = mode /\ Restored.form = o.form /\ Restored.pending = o.pending
        /\ Restored.asked = o.asked /\ Restored.told = o.told /\ Restored.torn = o.torn
    BY <1>3, <1>4 DEF SessionType
  <1> HIDE DEF n, rest, Restored
  <1>10. Proper(Restored, spent.calls)
    BY <1>3, <1>5, <1>9 DEF Proper, Orderly, Clean, Faithful
  <1>11. Fine(chat', spent.calls)
    BY <1>1, <1>6, <1>7, <1>8, <1>10 DEF Fine, Nearly, Proper
  <1>12. QED
    BY <1>7, <1>11, IdleTyped DEF Pairs, Turned

LEMMA ReopenPairs ==
    ASSUME PairInv, Reopen
    PROVE  Pairs
  <1> DEFINE s == [chat.now EXCEPT !.ended = FALSE, !.strikes = 0]
             e == [chat EXCEPT !.now.ended = FALSE, !.now.strikes = 0]
  <1>1. Fine(chat, spent.calls) /\ chat \in ChatType /\ chat.now \in SessionType
    BY DEF PairInv, Fine, Nearly, ChatType
  <1>2. s \in SessionType
    BY <1>1 DEF SessionType
  <1>3. Books(s) = Books(chat.now)
    BY <1>1 DEF SessionType, Books
  <1>4. e = [chat EXCEPT !.now = s]
    BY <1>1 DEF ChatType
  <1>5. chat' = Saved(e) /\ turn' = Idle
    BY DEF Reopen
  <1> HIDE DEF s, e
  <1>6. Fine(chat', spent.calls)
    BY <1>1, <1>2, <1>3, <1>4, <1>5, NowFine, SavedFine
  <1>7. QED
    BY <1>5, <1>6, IdleTyped DEF Pairs, Turned

LEMMA JobsDonePairs ==
    ASSUME PairInv, JobsDone
    PROVE  Pairs
  <1> DEFINE h == Guarded("system")
             s == [h.now EXCEPT !.jobs = FALSE]
             g == [h EXCEPT !.now.jobs = FALSE]
             q == [Closed(g) EXCEPT !.now.pending = None]
  <1>1. Fine(h, spent.calls) /\ h.now.mode = chat.now.mode /\ h \in ChatType /\ h.now \in SessionType
    BY GuardedFine DEF Books, Fine, Nearly, ChatType
  <1>2. s \in SessionType
    BY <1>1 DEF SessionType
  <1>3. Books(s) = Books(h.now)
    BY <1>1 DEF SessionType, Books
  <1>4. g = [h EXCEPT !.now = s] /\ g.now = s
    BY <1>1 DEF ChatType
  <1>5. IF chat.now.ended THEN Settles(g, FALSE) ELSE Continues(g)
    BY DEF JobsDone
  <1> HIDE DEF h, s, g
  <1>6. Fine(g, spent.calls) /\ g.now.mode = chat.now.mode
    BY <1>1, <1>2, <1>3, <1>4, NowFine DEF Books
  <1>7. Fine(Closed(g), spent.calls) /\ Closed(g).now.form = None /\ Closed(g).now.mode = g.now.mode
    BY <1>6, ClosedFine DEF Fine
  <1>8. \A d \in Advances(Closed(g)) : Fine(d, spent.calls)
    BY <1>7, AdvancesFine
  <1>9. Fine(Opened(g, Form("host", 0)), spent.calls)
    <2>1. Form("host", 0) \in FormType /\ Form("host", 0).call = 0
      BY FormsTyped DEF FormKinds, Form
    <2>2. QED
      BY <1>6, <2>1, OpenedFine DEF Fine
  <1>10. /\ Nearly(q, spent.calls) /\ q.now.form = None /\ q.now.pending = None
         /\ q.now.mode = chat.now.mode
    BY <1>6, <1>7, UnaskedNearly DEF Fine
  <1>11. \/ \E d : Fine(d, spent.calls) /\ Settles(d, FALSE)
         \/ Agent /\ chat' = q /\ turn' = [Idle EXCEPT !.at = "sum"]
    BY <1>5, <1>6, <1>8, <1>9 DEF Continues
  <1> HIDE DEF q
  <1>12. CASE Agent /\ chat' = q /\ turn' = [Idle EXCEPT !.at = "sum"]
    <2>1. turn'.at = "sum"
      <3>1. Idle \in TurnType
        BY IdleTyped
      <3> HIDE DEF Idle
      <3>2. QED
        BY <1>12, <3>1 DEF TurnType
    <2>2. QED
      BY <1>10, <1>12, <2>1 DEF Pairs, Turned, Fine, Faithful, Agent
  <1>13. QED
    BY <1>11, <1>12, SettlesPairs

\* The model's turn is over: it timed out, was unavailable, answered in words or summed up.
LEMMA ModelPairs ==
    ASSUME PairInv, Timeout \/ Raises \/ Unavailable \/ ReplyWords \/ ReplyClamped \/ Summed
    PROVE  Pairs
  <1> DEFINE q == Paired(chat)
             g == ToGuided(q)
             d == IF OfModel(g) THEN Closed(g) ELSE g
  <1>1. TypeOK /\ Fine(chat, spent.calls) /\ Fine(q, spent.calls) /\ Nearly(q, spent.calls)
        /\ q.now.pending = chat.now.pending
    BY PairedFine DEF PairInv, StrikeInv, Fine
  <1>2. /\ Timeout \/ Raises => \E e : Fine(e, spent.calls) /\ Settles(e, turn.said)
        /\ Unavailable => \E e \in GuidedText(d) \cup Advances(d) \cup {d} : Settles(e, turn.said)
        /\ ReplyWords => \E e \in Advances(q) \cup {q} : Settles(e, turn.said)
        /\ ReplyClamped => \E r \in Struck(q) \cup Quietly({q}) : Settles(r.chat, turn.said)
        /\ Summed => turn.at = "sum" /\ (Settles(Opened(q, Form("host", 0)), FALSE)
                                         \/ \E e \in Advances(g) : Settles(e, FALSE))
    <2>1. Timeout \/ Raises => \E e : Fine(e, spent.calls) /\ Settles(e, turn.said)
      BY <1>1 DEF Timeout, Raises
    <2>2. Unavailable => \E e \in GuidedText(d) \cup Advances(d) \cup {d} : Settles(e, turn.said)
      BY DEF Unavailable
    <2>3. ReplyWords => \E e \in Advances(q) \cup {q} : Settles(e, turn.said)
      BY DEF ReplyWords, NoDeadEnd
    <2>4. ReplyClamped => \E r \in Struck(q) \cup Quietly({q}) : Settles(r.chat, turn.said)
      BY DEF ReplyClamped, DeclinesUnrelated
    <2>5. Summed => turn.at = "sum" /\ (Settles(Opened(q, Form("host", 0)), FALSE)
                                        \/ \E e \in Advances(g) : Settles(e, FALSE))
      BY DEF Summed
    <2>6. QED
      BY <2>1, <2>2, <2>3, <2>4, <2>5
  <1> HIDE DEF q
  <1>3. /\ Nearly(g, spent.calls) /\ Fine(Closed(g), spent.calls)
        /\ ~OfModel(g) => Fine(g, spent.calls)
        /\ turn.at = "sum" => Fine(g, spent.calls)
    <2>1. turn.at = "sum" => q.now.pending = None
      BY <1>1 DEF PairInv, Turned
    <2>2. QED
      BY <1>1, <2>1, ToGuidedFine DEF Fine
  <1> HIDE DEF g
  <1>4. Fine(d, spent.calls)
    BY <1>3
  <1> HIDE DEF d
  <1>5. \A e \in GuidedText(d) \cup Advances(d) \cup {d} \cup Advances(q) \cup {q} : Fine(e, spent.calls)
    BY <1>1, <1>4, GuidedFine, AdvancesFine
  <1>6. turn.at = "sum" => \A e \in Advances(g) : Fine(e, spent.calls)
    BY <1>3, AdvancesFine
  <1>7. Fine(Opened(q, Form("host", 0)), spent.calls)
    <2>1. Form("host", 0) \in FormType /\ Form("host", 0).call = 0
      BY FormsTyped DEF FormKinds, Form
    <2>2. QED
      BY <1>1, <2>1, OpenedFine
  <1>8. \A r \in Struck(q) \cup Quietly({q}) : Fine(r.chat, spent.calls)
    BY <1>1, StruckFine, QuietlyFine DEF Spared
  <1>9. \E e, said : Fine(e, spent.calls) /\ Settles(e, said)
    BY <1>2, <1>5, <1>6, <1>7, <1>8
  <1>10. QED
    BY <1>9, SettlesPairs

LEMMA MoreCalls ==
    ASSUME NEW n \in Nat, NEW m \in Nat, n <= m, NEW c, Fine(c, n)
    PROVE  Fine(c, m)
  <1>1. 1 .. n \subseteq 1 .. m
    OBVIOUS
  <1>2. \A s : Orderly(s, n) => Orderly(s, m)
    BY <1>1 DEF Orderly, Clean
  <1>3. QED
    BY <1>2 DEF Fine, Nearly, Proper

\* The model asks for calls that nobody asked for before: none has a result yet.
LEMMA AskedPairs ==
    ASSUME PairInv, ReplyCalls
    PROVE  Fine(chat', spent'.calls) /\ Turned(turn', chat'.now)
  <1> DEFINE q == Paired(chat)
  <1>1. PICK n \in 1 .. 2 :
           LET ids == [k \in 1 .. n |-> spent.calls + k] IN
           /\ spent.calls + n <= profile.calls
           /\ spent' = [spent EXCEPT !.calls = @ + n]
           /\ chat' = [q EXCEPT !.now.asked = @ \cup {ids[k] : k \in 1 .. n}]
           /\ turn' = [turn EXCEPT !.at = "calls", !.todo = ids, !.asks = @ + 1, !.first = FALSE]
    BY DEF ReplyCalls
  <1> DEFINE ids == [k \in 1 .. n |-> spent.calls + k]
             asked == q.now.asked \cup {ids[k] : k \in 1 .. n}
             s == [q.now EXCEPT !.asked = asked]
             made == spent.calls
             more == spent.calls + n
  <1>2. /\ spent \in [calls : Nat, inputs : Nat, crashes : Nat] /\ turn \in TurnType
        /\ profile.calls \in Nat /\ 1 .. profile.calls \subseteq Ids
    BY TurnAssumption DEF PairInv, StrikeInv, TypeOK, TurnAssumption
  <1>3. made \in Nat /\ more \in Nat /\ made <= more /\ spent'.calls = more
    BY <1>1, <1>2
  <1>4. Fine(q, made) /\ Fine(q, more) /\ q.now.mode = "agent" /\ q.now.pending = None
        /\ q \in ChatType /\ q.now \in SessionType
    <2>1. Fine(q, made) /\ q.now.mode = chat.now.mode /\ q.now.pending = chat.now.pending
      BY PairedFine DEF PairInv
    <2>2. chat.now.mode = "agent" /\ chat.now.pending = None
      BY DEF PairInv, Turned, ReplyCalls
    <2>3. QED
      BY <1>3, <2>1, <2>2, MoreCalls DEF Fine, Nearly, ChatType
  <1> HIDE DEF q
  <1>5. \A k \in 1 .. n : ids[k] \in made + 1 .. more /\ ids[k] \in Ids
    <2>1. \A k \in 1 .. n : ids[k] \in made + 1 .. more /\ ids[k] \in 1 .. profile.calls
      BY <1>1, <1>2
    <2>2. QED
      BY <1>2, <2>1
  <1>6. \A i, j \in DOMAIN ids : ids[i] = ids[j] => i = j
    BY <1>2
  <1>7. DOMAIN ids = 1 .. n
    OBVIOUS
  <1>8. chat' = [q EXCEPT !.now = s] /\ turn'.at = "calls" /\ turn'.todo = ids
    <2>1. chat' = [q EXCEPT !.now = s]
      BY <1>1, <1>4 DEF ChatType, SessionType
    <2>2. turn'.at = "calls" /\ turn'.todo = ids
      BY <1>1, <1>2 DEF TurnType
    <2>3. QED
      BY <2>1, <2>2
  <1> HIDE DEF ids
  <1>9. asked \subseteq Ids /\ \A k \in 1 .. n : ids[k] \in asked
    BY <1>4, <1>5 DEF SessionType
  <1>10. made + 1 .. more \subseteq 1 .. more /\ \A i \in made + 1 .. more : i \notin 1 .. made
    BY <1>3
  <1>11. q.now.asked \subseteq 1 .. more => asked \subseteq 1 .. more
    BY <1>5, <1>10
  <1> HIDE DEF made, more
  <1>12. q.now.asked \subseteq asked
    OBVIOUS
  <1> HIDE DEF asked
  <1>13. s \in SessionType /\ s.mode = "agent" /\ s.pending = None /\ s.torn = q.now.torn
         /\ s.asked = asked /\ s.told = q.now.told /\ s.form = q.now.form
    BY <1>4, <1>9 DEF SessionType
  <1> HIDE DEF s
  <1>14. Orderly(s, more) /\ Faithful(s)
    <2>1. Clean(q.now, more) => Clean(s, more)
      BY <1>4, <1>11, <1>12, <1>13 DEF Clean
    <2>2. Orderly(s, more)
      BY <1>4, <1>13, <2>1 DEF Orderly, Fine, Nearly
    <2>3. Faithful(s)
      BY <1>4, <1>13 DEF Faithful, Fine
    <2>4. QED
      BY <2>2, <2>3
  <1>15. Fine(chat', more) /\ chat'.now = s
    BY <1>4, <1>8, <1>13, <1>14, NowNearly DEF Fine, ChatType
  <1>16. ~s.torn => ToDo(ids, s)
    <2> SUFFICES ASSUME ~s.torn PROVE ToDo(ids, s)
      OBVIOUS
    <2>1. Clean(q.now, made)
      BY <1>4, <1>13 DEF Fine, Nearly, Orderly
    <2>2. \A k \in 1 .. n : q.now.told[ids[k]] = 0
      BY <1>5, <1>10, <2>1 DEF Clean
    <2>3. QED
      BY <1>6, <1>7, <1>9, <1>13, <2>2 DEF ToDo
  <1>17. QED
    BY <1>3, <1>8, <1>13, <1>15, <1>16 DEF Turned, more

\* The next call gets its result; the others are still without.
LEMMA CallTold ==
    ASSUME PairInv, Here, NEW c, Fine(c, spent.calls),
           c.now.torn \/ c.now.mode = "guided" \/ Books(c.now) = Books(chat.now)
    PROVE  LET t == Told(c, Call) IN
           /\ Fine(t, spent.calls) /\ t.now.mode = c.now.mode /\ t.now.torn = c.now.torn
           /\ t.now.mode = "agent" /\ ~t.now.torn => ToDo(Tail(turn.todo), t.now)
  <1> DEFINE t == Told(c, Call)
             todo == turn.todo
  <1>1. todo \in Seq(Ids) /\ todo # <<>> /\ Call \in Ids /\ Call = todo[1]
    BY DEF PairInv, StrikeInv, TypeOK, TurnType, Here, Call
  <1>2. c.now.mode = "agent" /\ ~c.now.torn => ToDo(todo, c.now)
    <2> SUFFICES ASSUME c.now.mode = "agent", ~c.now.torn PROVE ToDo(todo, c.now)
      OBVIOUS
    <2>1. Books(c.now) = Books(chat.now)
      OBVIOUS
    <2>2. ToDo(todo, chat.now)
      BY <2>1 DEF PairInv, Turned, Here, Books
    <2>3. QED
      BY <2>1, <2>2 DEF ToDo, Books
  <1>3. 1 \in DOMAIN todo
    BY <1>1
  <1>4. c.now.mode = "agent" /\ ~c.now.torn =>
           /\ Call \in c.now.asked /\ c.now.told[Call] = 0
           /\ c.now.pending # None => c.now.pending.id # Call
    BY <1>1, <1>2, <1>3 DEF ToDo
  <1>5. /\ t \in ChatType /\ Proper(t.stored, spent.calls)
        /\ \A k \in DOMAIN t.snaps : Proper(t.snaps[k], spent.calls)
        /\ t.now.mode = c.now.mode /\ t.now.form = c.now.form /\ t.now.pending = c.now.pending
        /\ t.now.asked = c.now.asked /\ t.now.torn = c.now.torn
        /\ \A i \in Ids : i # Call => t.now.told[i] = c.now.told[i]
        /\ Orderly(t.now, spent.calls)
    <2>1. Nearly(c, spent.calls) /\ Call \in Ids
      BY <1>1 DEF Fine
    <2>2. c.now.mode = "agent" /\ ~c.now.torn => Call \in c.now.asked /\ c.now.told[Call] = 0
      BY <1>4
    <2>3. c.now.mode = "agent" /\ ~c.now.torn /\ c.now.pending # None => c.now.pending.id # Call
      BY <1>4
    <2>4. Tells(c, t, Call, spent.calls)
      BY <2>1, <2>2, ToldNearly
    <2>5. QED
      BY <2>3, <2>4 DEF Tells
  <1> HIDE DEF t
  <1>6. Fine(t, spent.calls)
    BY <1>5 DEF Fine, Nearly, Faithful
  <1>7. ASSUME ToDo(todo, c.now) PROVE ToDo(Tail(todo), t.now)
    <2>1. \A k \in DOMAIN Tail(todo) : Tail(todo)[k] = todo[k + 1] /\ k + 1 \in DOMAIN todo /\ k + 1 # 1
                                       /\ k \in Nat /\ todo[k + 1] \in Ids
      BY <1>1
    <2>2. \A k \in DOMAIN Tail(todo) : Tail(todo)[k] # Call
      BY <1>1, <1>3, <1>7, <2>1 DEF ToDo
    <2>3. \A i, j \in DOMAIN Tail(todo) : Tail(todo)[i] = Tail(todo)[j] => i = j
      <3> SUFFICES ASSUME NEW i \in DOMAIN Tail(todo), NEW j \in DOMAIN Tail(todo), todo[i + 1] = todo[j + 1]
                   PROVE  i = j
        BY <2>1
      <3>1. i + 1 = j + 1
        BY <1>7, <2>1 DEF ToDo
      <3>2. QED
        BY <2>1, <3>1
    <2>4. QED
      BY <1>5, <1>7, <2>1, <2>2, <2>3 DEF ToDo
  <1>8. QED
    BY <1>2, <1>5, <1>6, <1>7 DEF t

LEMMA CallPairs ==
    ASSUME PairInv, Here, NEW c, Fine(c, spent.calls),
           c.now.torn \/ c.now.mode = "guided" \/ Books(c.now) = Books(chat.now),
           chat' = Told(c, Call), turn'.at = "calls", turn'.todo = Tail(turn.todo),
           c.now.mode # "agent" => turn'.done
    PROVE  Pairs
  BY CallTold DEF Pairs, Turned

\* A call that is answered, or skipped because the turn is over or waits for the person.
LEMMA AnswersPair ==
    ASSUME PairInv, Skip \/ StepLimit \/ Answered \/ FailsOften
    PROVE  Pairs
  <1>1. Here /\ chat' = Told(chat, Call)
    BY DEF Skip, StepLimit, Answered, FailsOften, Runnable
  <1>2. turn \in TurnType /\ turn.todo \in Seq(Ids) /\ Tail(turn.todo) = Tail(turn.todo)
    BY DEF PairInv, StrikeInv, TypeOK, TurnType
  <1>3. turn'.at = "calls" /\ turn'.todo = Tail(turn.todo) /\ turn'.done = turn.done
    <2>1. turn.at = "calls"
      BY <1>1 DEF Here
    <2>2. QED
      BY <1>2, <2>1 DEF Skip, StepLimit, Answered, FailsOften, Step, TurnType
  <1>4. chat.now.mode # "agent" => turn.done
    BY <1>1 DEF PairInv, Turned, Here
  <1>5. QED
    BY <1>1, <1>3, <1>4, CallPairs DEF PairInv

LEMMA RefusalsPair ==
    ASSUME PairInv, Declined \/ HostTool
    PROVE  Pairs
  <1>1. Here /\ turn.at = "calls" /\ TypeOK /\ Fine(chat, spent.calls) /\ turn \in TurnType
    BY DEF Declined, HostTool, Runnable, Here, PairInv, StrikeInv, TypeOK
  <1>2. PICK r \in Struck(chat) \cup {[chat |-> chat, raised |-> FALSE]} \cup Quietly({chat}), done \in BOOLEAN :
           /\ r.chat.now.mode # "agent" => done
           /\ IF r.raised THEN Settles(r.chat, turn.said)
              ELSE /\ chat' = Told(r.chat, Call)
                   /\ turn' = [Step EXCEPT !.done = done, !.added = Added(r.chat)]
    <2>1. CASE Declined
      <3>1. PICK r \in Struck(chat) \cup Quietly({chat}) :
               IF r.raised THEN Settles(r.chat, turn.said)
               ELSE /\ chat' = Told(r.chat, Call)
                    /\ turn' = [Step EXCEPT !.done = TRUE, !.added = Added(r.chat)]
        BY <2>1 DEF Declined, OutOfScope, KnowledgeAnswer, DeclinesUnrelated
      <3>2. QED
        BY <3>1
    <2>2. CASE HostTool
      <3>1. PICK r \in Struck(chat) \cup {[chat |-> chat, raised |-> FALSE]} :
               IF r.raised THEN Settles(r.chat, turn.said)
               ELSE /\ chat' = Told(r.chat, Call)
                    /\ turn' = [Step EXCEPT !.done = r.chat.now.ended \/ r.chat.now.mode # "agent",
                                            !.added = Added(r.chat)]
        BY <2>2 DEF HostTool
      <3>2. QED
        BY <3>1
    <2>3. QED
      BY <2>1, <2>2
  <1>3. Spared(chat, r, spent.calls)
    <2>1. [chat |-> chat, raised |-> FALSE].chat = chat
      OBVIOUS
    <2>2. r \in Struck(chat) => Spared(chat, r, spent.calls)
      BY <1>1, StruckFine
    <2>3. r \in Quietly({chat}) => Spared(chat, r, spent.calls)
      BY <1>1, QuietlyFine DEF Spared
    <2>4. r = [chat |-> chat, raised |-> FALSE] => Spared(chat, r, spent.calls)
      BY <1>1, <2>1 DEF Spared
    <2>5. QED
      BY <2>2, <2>3, <2>4
  <1>4. CASE r.raised
    BY <1>2, <1>3, <1>4, SettlesPairs DEF Spared
  <1>5. CASE ~r.raised
    <2> DEFINE added == Added(r.chat)
    <2>1. chat' = Told(r.chat, Call) /\ turn' = [Step EXCEPT !.done = done, !.added = added]
      BY <1>2, <1>5
    <2> HIDE DEF added
    <2>2. turn'.at = "calls" /\ turn'.todo = Tail(turn.todo) /\ turn'.done = done
      BY <1>1, <2>1 DEF Step, TurnType
    <2>3. QED
      BY <1>1, <1>2, <1>3, <2>1, <2>2, CallPairs DEF Spared
  <1>6. QED
    BY <1>4, <1>5

\* A call opens a form and waits: from now on it is the pending question.
LEMMA SuspendPairs ==
    ASSUME PairInv, Suspend
    PROVE  Pairs
  <1>1. /\ Here /\ turn' = Step /\ Fine(chat, spent.calls) /\ turn \in TurnType /\ turn.at = "calls"
        /\ chat.now.pending = None /\ ~turn.done
    BY DEF Suspend, Runnable, Waits, Here, PairInv, StrikeInv, TypeOK
  <1>2. /\ turn.todo \in Seq(Ids) /\ turn.todo # <<>> /\ Call \in Ids /\ Call = turn.todo[1]
        /\ 1 \in DOMAIN turn.todo
    BY <1>1 DEF TurnType, Here, Call
  <1>3. PICK k \in {"ask", "upload", "run", "retry", "summary"}, c \in {chat, Renewed(chat)} :
           chat' = Opened([c EXCEPT !.now.pending = [id |-> Call, name |-> k]], Form(k, Call))
    BY DEF Suspend
  <1> DEFINE p == [id |-> Call, name |-> k]
             s == [c.now EXCEPT !.pending = p]
             q == [c EXCEPT !.now.pending = p]
  <1>4. Fine(c, spent.calls) /\ Books(c.now) = Books(chat.now) /\ c \in ChatType /\ c.now \in SessionType
    <2>1. Fine(c, spent.calls) /\ Books(c.now) = Books(chat.now)
      BY <1>1, RenewedFine
    <2>2. QED
      BY <2>1 DEF Fine, Nearly, ChatType
  <1>5. chat.now.mode = "agent"
    BY <1>1 DEF PairInv, Turned
  <1>6. ~c.now.torn => ToDo(turn.todo, c.now)
    <2> SUFFICES ASSUME ~c.now.torn PROVE ToDo(turn.todo, c.now)
      OBVIOUS
    <2>1. ToDo(turn.todo, chat.now)
      BY <1>1, <1>4, <1>5 DEF PairInv, Turned, Books
    <2>2. QED
      BY <1>4, <2>1 DEF ToDo, Books
  <1>7. p \in PendingType /\ p.id = Call /\ p # None => s \in SessionType
    BY <1>4 DEF SessionType
  <1>8. p \in PendingType /\ p.id = Call /\ p # None /\ Form(k, Call) \in FormType /\ Form(k, Call).call = Call
    <2>1. p \in [id : Ids, name : FormKinds] /\ p.id = Call /\ p # None
      BY <1>2, TurnAssumption DEF FormKinds, TurnAssumption
    <2>2. Form(k, Call) \in FormType /\ Form(k, Call).call = Call
      BY <1>2, FormsTyped DEF FormKinds, Form
    <2>3. QED
      BY <2>1, <2>2 DEF PendingType
  <1>9. chat' = Opened(q, Form(k, Call))
    BY <1>3
  <1>10. q = [c EXCEPT !.now = s] /\ q.now = s
    BY <1>4 DEF ChatType
  <1> HIDE DEF q
  <1>11. s.mode = c.now.mode /\ s.torn = c.now.torn /\ s.asked = c.now.asked /\ s.told = c.now.told
         /\ s.pending = p
    BY <1>4 DEF SessionType
  <1> HIDE DEF s, p
  <1>12. Orderly(s, spent.calls)
    <2>1. ~c.now.torn => Call \in c.now.asked /\ c.now.told[Call] = 0
      BY <1>2, <1>6 DEF ToDo
    <2>2. QED
      BY <1>4, <1>8, <1>11, <2>1 DEF Fine, Nearly, Orderly, Clean
  <1>13. Nearly(q, spent.calls)
    BY <1>4, <1>7, <1>8, <1>10, <1>12, NowNearly DEF Fine
  <1>14. /\ Fine(chat', spent.calls) /\ chat'.now.pending = p /\ chat'.now.mode = c.now.mode
         /\ chat'.now.torn = c.now.torn /\ chat'.now.asked = c.now.asked /\ chat'.now.told = c.now.told
    <2> DEFINE form == Form(k, Call)
    <2>1. form \in FormType /\ q.now.pending # None /\ form.call = q.now.pending.id
      BY <1>8, <1>10, <1>11
    <2> HIDE DEF form
    <2>2. /\ Fine(Opened(q, form), spent.calls) /\ Opened(q, form).now.pending = q.now.pending
          /\ Opened(q, form).now.mode = q.now.mode /\ Opened(q, form).now.torn = q.now.torn
          /\ Opened(q, form).now.asked = q.now.asked /\ Opened(q, form).now.told = q.now.told
      BY <1>13, <2>1, OpenedFine
    <2>3. QED
      BY <1>9, <1>10, <1>11, <2>2 DEF form
  <1>15. turn'.at = "calls" /\ turn'.todo = Tail(turn.todo)
    BY <1>1 DEF Step, TurnType
  <1>16. ~c.now.torn => ToDo(Tail(turn.todo), chat'.now)
    <2> SUFFICES ASSUME ToDo(turn.todo, c.now) PROVE ToDo(Tail(turn.todo), chat'.now)
      BY <1>6
    <2>1. \A i \in DOMAIN Tail(turn.todo) :
             /\ Tail(turn.todo)[i] = turn.todo[i + 1] /\ i + 1 \in DOMAIN turn.todo /\ i + 1 # 1 /\ i \in Nat
      BY <1>2
    <2>2. \A i \in DOMAIN Tail(turn.todo) : Tail(turn.todo)[i] # Call
      BY <1>2, <2>1 DEF ToDo
    <2>3. \A i, j \in DOMAIN Tail(turn.todo) : Tail(turn.todo)[i] = Tail(turn.todo)[j] => i = j
      <3> SUFFICES ASSUME NEW i \in DOMAIN Tail(turn.todo), NEW j \in DOMAIN Tail(turn.todo),
                          turn.todo[i + 1] = turn.todo[j + 1]
                   PROVE  i = j
        BY <2>1
      <3>1. i + 1 = j + 1
        BY <2>1 DEF ToDo
      <3>2. QED
        BY <2>1, <3>1
    <2>4. QED
      BY <1>8, <1>14, <2>1, <2>2, <2>3 DEF ToDo
  <1>17. QED
    BY <1>4, <1>5, <1>14, <1>15, <1>16 DEF Pairs, Turned, Books

LEMMA InvalidPairs ==
    ASSUME PairInv, Invalid
    PROVE  Pairs
  <1> DEFINE f == Forgotten(chat)
  <1>1. Here /\ ~turn.done /\ turn \in TurnType /\ turn.at = "calls" /\ Fine(chat, spent.calls)
    BY DEF Invalid, Runnable, Waits, Here, PairInv, StrikeInv, TypeOK
  <1>2. CASE turn.repairs = 0
    <2>1. chat' = Told(chat, Call) /\ turn' = [Step EXCEPT !.repairs = 1]
      BY <1>2 DEF Invalid
    <2>2. turn'.at = "calls" /\ turn'.todo = Tail(turn.todo) /\ turn'.done = turn.done
      BY <1>1, <2>1 DEF Step, TurnType
    <2>3. chat.now.mode # "agent" => turn.done
      BY <1>1 DEF PairInv, Turned
    <2>4. QED
      BY <1>1, <2>1, <2>2, <2>3, CallPairs
  <1>3. CASE turn.repairs # 0
    <2>1. Nearly(f, spent.calls) /\ Fine(Closed(f), spent.calls)
      BY <1>1, ForgottenNearly, ClosedFine DEF Fine
    <2>2. ~NeedsForm(f) => Fine(f, spent.calls)
      BY <2>1 DEF NeedsForm, Fine, Faithful, OfModel
    <2>3. \A c \in Advances(Closed(f)) : Fine(c, spent.calls)
      BY <2>1, AdvancesFine
    <2>4. PICK c \in InvalidTwice(chat) : Settles(c, turn.said)
      BY <1>3 DEF Invalid
    <2>5. Fine(c, spent.calls)
      BY <2>2, <2>3 DEF InvalidTwice
    <2>6. QED
      BY <2>4, <2>5, SettlesPairs
  <1>4. QED
    BY <1>2, <1>3

LEMMA EndsPair ==
    ASSUME PairInv, EndReply \/ Crash
    PROVE  Pairs
  <1>1. Fine(chat, spent.calls) /\ turn \in TurnType
    BY DEF PairInv, StrikeInv, TypeOK
  <1>2. CASE EndReply
    <2>1. CASE Waits
      BY <1>1, <1>2, <2>1, SettlesPairs DEF EndReply
    <2>2. CASE ~Waits
      <3>1. chat' = chat /\ turn' = [turn EXCEPT !.at = "ask"] /\ turn.at = "calls"
        BY <1>2, <2>2 DEF EndReply
      <3>2. turn'.at = "ask"
        BY <1>1, <3>1 DEF TurnType
      <3>3. chat.now.pending = None /\ ~turn.done
        BY <2>2 DEF Waits
      <3>4. chat.now.mode = "agent"
        BY <3>1, <3>3 DEF PairInv, Turned
      <3>5. QED
        BY <1>1, <3>1, <3>2, <3>3, <3>4 DEF Pairs, Turned
    <2>3. QED
      BY <2>1, <2>2
  <1>3. CASE Crash
    <2>1. chat' = [chat EXCEPT !.now = chat.stored] /\ turn' = Idle
      BY <1>3 DEF Crash
    <2>2. chat.stored \in SessionType /\ Proper(chat.stored, spent.calls)
      BY <1>1 DEF Fine, Nearly, ChatType
    <2>3. Fine(chat', spent.calls)
      BY <1>1, <2>1, <2>2, NowNearly DEF Fine, Proper
    <2>4. QED
      BY <2>1, <2>3, IdleTyped DEF Pairs, Turned
  <1>4. QED
    BY <1>2, <1>3
-----------------------------------------------------------------------------
(* Every step.                                                             *)

LEMMA InitPairs == Init => PairInv
  <1> SUFFICES ASSUME Init PROVE PairInv
    OBVIOUS
  <1>1. turn = Idle /\ chat = [now |-> Fresh, stored |-> Fresh, snaps |-> <<>>] /\ StrikeInv
    BY InitStrikes DEF Init
  <1>2. chat \in ChatType /\ chat.now = Fresh /\ chat.stored = Fresh /\ chat.snaps = <<>> /\ turn.at = "idle"
    BY <1>1, IdleTyped DEF StrikeInv, TypeOK
  <1>3. /\ Fresh.mode = "agent" /\ Fresh.form = None /\ Fresh.pending = None /\ Fresh.asked = {}
        /\ Fresh.told = NoneTold
    BY DEF Fresh
  <1>4. \A i \in Ids : NoneTold[i] = 0
    BY DEF NoneTold
  <1> HIDE DEF NoneTold, Fresh
  <1>5. Proper(Fresh, spent.calls)
    BY <1>3, <1>4 DEF Proper, Orderly, Clean, Faithful
  <1>6. QED
    BY <1>1, <1>2, <1>5 DEF PairInv, Fine, Nearly, Proper, Turned

\* Only a reply of the model adds to the calls.
LEMMA CallsStay ==
    ASSUME StrikeInv, Next, ~ReplyCalls
    PROVE  spent'.calls = spent.calls
  <1>1. spent \in [calls : Nat, inputs : Nat, crashes : Nat]
    BY DEF StrikeInv, TypeOK
  <1>2. CASE \/ SmallTalk \/ Flagged \/ Unchecked \/ TextToRules \/ TextRevises \/ TextAnswers \/ TextToModel
             \/ AnswerStale \/ AnswerChanges \/ AnswerToRules \/ AnswerInWords \/ AnswerChooses
             \/ Upload \/ SetMode \/ ShowRequest \/ NewRequest \/ Back
    <2>1. spent' = [spent EXCEPT !.inputs = @ + 1]
      BY <1>2 DEF SmallTalk, Flagged, Unchecked, TextToRules, TextRevises, TextAnswers, TextToModel, AnswerStale,
                  AnswerChanges, AnswerToRules, AnswerInWords, AnswerChooses, Upload, SetMode,
                  ShowRequest, NewRequest, Back, Input, Answer
    <2>2. QED
      BY <1>1, <2>1
  <1>3. CASE \/ Reopen \/ JobsDone \/ Timeout \/ Unavailable \/ ReplyClamped \/ ReplyWords
             \/ Skip \/ StepLimit \/ Suspend \/ Answered \/ FailsOften \/ Declined \/ HostTool \/ Invalid
             \/ Raises \/ EndReply \/ Summed
    BY <1>3 DEF Reopen, JobsDone, Timeout, Unavailable, ReplyClamped, ReplyWords, Skip, StepLimit,
                Suspend, Answered, FailsOften, Declined, HostTool, Invalid, Raises, EndReply, Summed,
                AtModel, Runnable, Here
  <1>4. CASE Crash
    <2>1. spent' = [spent EXCEPT !.crashes = @ + 1]
      BY <1>4 DEF Crash
    <2>2. QED
      BY <1>1, <2>1
  <1>5. QED
    BY <1>2, <1>3, <1>4 DEF Next

LEMMA NextPairs == PairInv /\ [Next]_vars => PairInv'
  <1> SUFFICES ASSUME PairInv, [Next]_vars
               PROVE  PairInv'
    OBVIOUS
  <1>1. StrikeInv'
    BY NextStrikes DEF PairInv
  <1>2. CASE UNCHANGED vars
    BY <1>1, <1>2 DEF vars, PairInv
  <1>3. CASE ReplyCalls
    BY <1>1, <1>3, AskedPairs DEF PairInv
  <1>4. CASE Next /\ ~ReplyCalls
    <2>1. Pairs
      <3>1. CASE \/ SmallTalk \/ TextToRules \/ TextRevises \/ AnswerStale \/ AnswerChanges \/ AnswerToRules
                 \/ TextAnswers \/ TextToModel \/ AnswerInWords \/ AnswerChooses
        BY <3>1, RulesPair, TextsPair, ChoicePairs
      <3>2. CASE \/ Flagged \/ Unchecked \/ Upload \/ SetMode \/ ShowRequest \/ NewRequest
                 \/ Back \/ Reopen \/ JobsDone
        BY <3>2, NoticesPair, UploadPairs, ModesPair, RequestsPair, BackPairs, ReopenPairs, JobsDonePairs
      <3>3. CASE Timeout \/ Raises \/ Unavailable \/ ReplyWords \/ Summed \/ ReplyClamped
        BY <3>3, ModelPairs
      <3>4. CASE \/ Skip \/ StepLimit \/ Answered \/ FailsOften \/ Suspend
                 \/ Declined \/ HostTool \/ Invalid \/ EndReply \/ Crash
        BY <3>4, AnswersPair, SuspendPairs, RefusalsPair, InvalidPairs, EndsPair
      <3>5. QED
        BY <1>4, <3>1, <3>2, <3>3, <3>4 DEF Next
    <2>2. spent'.calls = spent.calls
      BY <1>4, CallsStay DEF PairInv
    <2>3. QED
      BY <1>1, <2>1, <2>2 DEF Pairs, PairInv
  <1>5. QED
    BY <1>2, <1>3, <1>4

\* For every profile, number of calls, inputs and crashes: whenever the model is asked, each call
\* of the turn has exactly one result and there are no others, unless a strike tore the turn; and
\* between inputs a form of the model asks for the answer of the pending call, unless it was
\* reopened from a request summary (CallsArePaired).
THEOREM CallsAreAlwaysPaired == Spec => []CallsArePaired
  <1>1. Init => PairInv
    BY InitPairs
  <1>2. PairInv /\ [Next]_vars => PairInv'
    BY NextPairs
  <1>3. PairInv => CallsArePaired
    <2> SUFFICES ASSUME PairInv PROVE CallsArePaired
      OBVIOUS
    <2>1. Fine(chat, spent.calls)
      BY DEF PairInv
    <2>2. ASSUME turn.at \in {"ask", "sum"}, ~Paired(chat).now.torn
          PROVE  LET s == Paired(chat).now IN
                 s.pending = None /\ \A i \in Ids : s.told[i] = IF i \in s.asked THEN 1 ELSE 0
      BY <2>1, <2>2, PairedFine DEF PairInv, Turned
    <2>3. ASSUME turn.at = "idle", OfModel(chat)
          PROVE  Current \/ chat.now.form.again
      BY <2>1, <2>3 DEF Fine, Faithful, OfModel, Current
    <2>4. QED
      BY <2>2, <2>3 DEF CallsArePaired
  <1>4. QED
    BY <1>1, <1>2, <1>3, PTL DEF Spec
=============================================================================
