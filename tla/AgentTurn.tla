------------------------------ MODULE AgentTurn ------------------------------
(***************************************************************************)
(* A conversation with the agent: agent/session.py, agent/policy_model.py  *)
(* and the forms of agent/guided.py and agent/host.py.                     *)
(*                                                                         *)
(* The model answers with tool calls, each of which must get one result    *)
(* before the model is asked again; a call may instead open a form and     *)
(* wait for the person, who may answer it, write something else, change a  *)
(* part, go back, switch modes or start over.  Strikes are counted on the  *)
(* way.  What the facts of a request say is left open: where the rules     *)
(* would look at them, every form they could open is possible, and any     *)
(* tool may fail and leave the session as it was.  Inputs of a session are *)
(* handled one at a time (AgentHost); the process may die at any moment.   *)
(***************************************************************************)
EXTENDS Naturals, Sequences

CONSTANTS None,
          Profiles,     \* [action, counting, reopen] of a security profile, with the bounds
                        \* [inputs, calls, crashes] on a behaviour under it
          Limit,        \* strikes.limit
          MaxSteps, MaxRetries,
          Ids,          \* the calls of a behaviour, 1..n
          MaxSnaps

ASSUME TurnAssumption ==
    /\ Limit \in Nat \ {0} /\ MaxSteps \in Nat /\ MaxRetries \in Nat /\ MaxSnaps \in Nat
    /\ Ids \subseteq Nat \ {0}
    /\ None \notin [id : Ids, name : {"ask", "upload", "run", "retry", "summary"}]
    /\ \A p \in Profiles : /\ p.action \in {"warn", "end_session", "guided"}
                           /\ p.calls \in Nat /\ 1 .. p.calls \subseteq Ids

VARIABLES profile,
          chat,         \* the session's state in memory (now) and in the store, and its snapshots
          turn,         \* the input being handled
          spent         \* what the bounds count

vars == <<profile, chat, turn, spent>>

Form(kind, call) == [kind |-> kind, call |-> call, back |-> <<>>, again |-> FALSE]
NoneTold == [i \in Ids |-> 0]
Idle == [at |-> "idle", todo |-> <<>>, steps |-> 0, repairs |-> 0, failures |-> 0, stop |-> FALSE,
         done |-> FALSE, first |-> FALSE, said |-> FALSE, asks |-> 0, added |-> 0]

Fresh == [mode |-> "agent", form |-> None, pending |-> None, asked |-> {}, told |-> NoneTold,
          strikes |-> 0, struck |-> FALSE, origin |-> "system", ended |-> FALSE,
          down |-> FALSE, jobs |-> FALSE, ran |-> FALSE, torn |-> FALSE]

\* start: a session begins in the mode of its policy, and is stored.
Init ==
    /\ profile \in Profiles
    /\ chat = [now |-> Fresh, stored |-> Fresh, snaps |-> <<>>]
    /\ turn = Idle
    /\ spent = [calls |-> 0, inputs |-> 0, crashes |-> 0]
-----------------------------------------------------------------------------
(* The forms of a session.  Operators map a chat to the chats it may become. *)

\* open_form: the snapshot taken here is what Back returns to (the latest MaxSnaps are modelled).
Opened(c, form) ==
    LET s == [c.now EXCEPT !.form = form]
        snaps == Append(c.snaps, s)
    IN [now |-> s, stored |-> s, snaps |-> IF Len(snaps) > MaxSnaps THEN Tail(snaps) ELSE snaps]
Closed(c) == [c EXCEPT !.now.form = None]
Saved(c) == [c EXCEPT !.stored = c.now]
Shows(c, kinds) == c.now.form # None /\ c.now.form.kind \in kinds
OfModel(c) == c.now.form # None /\ c.now.form.call # 0

\* A result of a call is added to the turn; a turn is forgotten.
Told(c, id) == [c EXCEPT !.now.told[id] = IF @ < 2 THEN @ + 1 ELSE 2]
Forgotten(c) == [c EXCEPT !.now.pending = None, !.now.asked = {}, !.now.told = NoneTold, !.now.torn = FALSE]

\* _resolve without the loop: the pending call has its result and its form closes.
Resolved(c) ==
    LET id == c.now.pending.id
        r == [Told(c, id) EXCEPT !.now.pending = None]
    IN IF OfModel(r) /\ r.now.form.call = id THEN Closed(r) ELSE r

\* GuidedPolicy.advance: the form the facts call for, no other than the current plan review, or
\* none while jobs run; a tool it needs may fail.
AdvancesTo(c) ==
    {Opened(c, Form(k, 0)) : k \in {"host", "run", "summary"}}
    \cup (IF Shows(c, {"run"}) THEN {c} ELSE {}) \cup (IF c.now.jobs THEN {Closed(c)} ELSE {})
Advances(c) == {c} \cup AdvancesTo(c)

\* Facts.new_request: the jobs of the last request are followed no more.
Renewed(c) == [c EXCEPT !.now.jobs = FALSE, !.now.ran = FALSE, !.snaps = IF c.now.ran THEN <<>> ELSE @]

\* open_request_summary: over the current form, which it remembers.
Summary(c) ==
    LET back == IF ~Shows(c, {"summary"}) THEN <<c.now.form>>
                ELSE IF c.now.form.back = <<>> THEN <<None>> ELSE c.now.form.back
    IN Opened(c, [Form("summary", 0) EXCEPT !.back = back])

\* answer_summary: in agent mode a summary opened on request returns to the form it remembers.
SummaryAnswered(c) ==
    IF c.now.form.back = <<>> \/ c.now.mode = "guided" THEN Advances(c)
    ELSE LET back == c.now.form.back[1] IN
         (IF back # None THEN {Opened(c, [back EXCEPT !.again = TRUE])} ELSE {Closed(c)})
         \cup (IF back # None /\ back.kind = "run" THEN {Closed(c)} ELSE {})

\* (faulty: the review keeps the mark of the model's question)
ReleasedMarked(c, close) ==
    LET r == IF c.now.pending = None THEN c
             ELSE [Told(c, c.now.pending.id) EXCEPT !.now.pending = None]
    IN IF close THEN Closed(r) ELSE r

\* release: a change makes room; the model's open question is closed as person_changed.
Released(c, close) ==
    LET r == IF c.now.pending = None THEN c
             ELSE [Told(c, c.now.pending.id) EXCEPT !.now.pending = None]
    IN IF close THEN Closed(r)
       ELSE IF OfModel(r) THEN Opened(r, [r.now.form EXCEPT !.call = 0]) ELSE r

\* change_part: refused once a job of the plan runs, or the part's form (or the one before it).
Changed(c) ==
    LET r == Released(c, TRUE) IN {c, Opened(r, Form("change", 0))} \cup Advances(r)

\* revise: a correction typed on the plan review or the summary.
Revised(c) == Changed(c) \cup Advances(Released(c, FALSE))

\* run_plans: every plan started, or some and the rest shown again.
\* Back never crosses the start of a job, so earlier snapshots are out of use.
SomeStarted(c) == [c EXCEPT !.now.jobs = TRUE, !.now.ran = TRUE, !.snaps = <<>>]
Started(c) == Closed(SomeStarted(c))
Runs(c) == {Started(c)} \cup Advances(c) \cup Advances(SomeStarted(c))

\* GuidedPolicy.on_text and on_answer.
GuidedText(c) ==
    {c, Summary(c), Opened(c, Form("retry", 0))} \cup Advances(c)
    \cup (IF Shows(c, {"host"}) THEN Advances(Renewed(c)) ELSE {})
    \cup (IF Shows(c, {"run", "summary"}) THEN Revised(c) ELSE {})
    \cup (IF Shows(c, {"run"}) THEN Runs(c) ELSE {})
    \cup (IF Shows(c, {"summary"}) THEN SummaryAnswered(c) ELSE {})
GuidedAnswer(c) ==
    GuidedText(c) \cup (IF Shows(c, {"retry"}) THEN {Started(c), SomeStarted(c)} \cup Advances(Closed(c)) ELSE {})
-----------------------------------------------------------------------------
(* Strikes and modes. *)

\* ModelPolicy.set_mode("guided"), before its guided form.
ToGuided(c) == [Forgotten(c) EXCEPT !.now.mode = "guided"]
NeedsForm(c) == c.now.form = None \/ OfModel(c)

\* strike: counted once per input; at the limit the session ends or goes
\* on in guided mode for good.  `raised` is a tool that failed before that was recorded.
Counted(c) == [c EXCEPT !.now.strikes = @ + 1, !.now.struck = TRUE]
Quietly(S) == {[chat |-> Saved(c), raised |-> FALSE] : c \in S}
Limited(c) ==
    CASE profile.action = "warn" \/ c.now.strikes < Limit -> Quietly({c})
      [] profile.action = "end_session" /\ c.now.strikes >= Limit ->
            Quietly({[Closed(Forgotten(c)) EXCEPT !.now.ended = TRUE, !.now.torn = (turn.at = "calls")]})
      [] profile.action = "guided" /\ c.now.strikes >= Limit ->
            IF c.now.down THEN Quietly({c})
            ELSE LET g == IF c.now.mode = "guided" THEN c ELSE ToGuided(c)
                     shown == IF c.now.mode = "agent" /\ NeedsForm(g)
                              THEN AdvancesTo(Closed(g)) ELSE {g}
                 IN Quietly({[d EXCEPT !.now.down = TRUE] : d \in shown})
                    \cup (IF shown = {g} THEN {} ELSE {[chat |-> Closed(g), raised |-> TRUE]})
Struck(c) == IF c.now.struck THEN {[chat |-> c, raised |-> FALSE]} ELSE Limited(Counted(c))
-----------------------------------------------------------------------------
(* One input at a time, under _guard. *)

Guarded(origin) == [chat EXCEPT !.now.struck = FALSE, !.now.origin = origin]
Added(c) == IF c.now.strikes > chat.now.strikes THEN turn.added + 1 ELSE turn.added

\* The end of an input (the finally of _guard): a normal one resets consecutive strikes.
Settles(c, said) ==
    /\ chat' = Saved(IF profile.counting = "consecutive" /\ said /\ ~c.now.struck
                    THEN [c EXCEPT !.now.strikes = 0] ELSE c)
    /\ turn' = Idle

\* _loop begins; `first` says that the model has done nothing with the person's text yet.
Loops(c, said, first) ==
    chat' = c /\ turn' = [Idle EXCEPT !.at = "ask", !.said = said, !.first = first]

Input ==
    /\ turn.at = "idle" /\ ~chat.now.ended /\ spent.inputs < profile.inputs
    /\ spent' = [spent EXCEPT !.inputs = @ + 1] /\ UNCHANGED profile
Agent == chat.now.mode = "agent"
Asked == Agent /\ chat.now.pending # None
Current == OfModel(chat) /\ chat.now.pending # None /\ chat.now.form.call = chat.now.pending.id
Stale == OfModel(chat) /\ ~Current

\* send_text: small talk, a greeting, a future-weather request or text nobody reads.
SmallTalk == Input /\ Settles(Guarded("text"), TRUE)

\* send_text or answer: moderation flags the text; this happens before _guard, so a failed switch
\* to guided mode leaves the stored session as it was.
Flagged ==
    /\ Input
    /\ \E r \in Struck([chat EXCEPT !.now.origin = "text"]) :
          /\ chat' = IF r.raised THEN chat ELSE [r.chat EXCEPT !.now = r.chat.stored]
          /\ turn' = Idle

\* _moderation_notice: an input that could not be checked is not processed, and _guard not entered.
Unchecked == Input /\ chat' \in {chat, Saved([chat EXCEPT !.now.origin = "text"])} /\ turn' = Idle

TextToRules ==
    /\ Input /\ (~Agent \/ Shows(chat, {"change"}))
    /\ \E c \in GuidedText(Guarded("text")) : Settles(c, TRUE)
TextRevises ==
    /\ Input /\ Agent /\ Shows(chat, {"run", "summary"})
    /\ \E c \in Revised(Guarded("text")) : Settles(c, TRUE)
TextAnswers ==
    /\ Input /\ Asked /\ ~Shows(chat, {"change"})
    /\ Loops(Resolved(Closed(Guarded("text"))), TRUE, FALSE)
TextToModel ==
    /\ Input /\ Agent /\ ~Asked /\ ~Shows(chat, {"change"})
    /\ Loops(Forgotten(Guarded("text")), TRUE, TRUE)

\* answer: of the form that is open, in the revision that is shown.
Answer == Input /\ chat.now.form # None
AnswerStale == Answer /\ Stale /\ Settles(Guarded("answer"), TRUE)
AnswerChanges ==
    /\ Answer /\ ~Stale /\ Shows(chat, {"run", "summary"})
    /\ \E c \in Changed(Guarded("answer")) : Settles(c, TRUE)
AnswerToRules ==
    /\ Answer /\ ~Stale /\ ~(Agent /\ Current)
    /\ \E c \in GuidedAnswer(Guarded("answer")) : Settles(c, TRUE)
AnswerInWords ==
    /\ Answer /\ Agent /\ Current
    /\ Loops(Resolved(Closed(Guarded("text"))), TRUE, FALSE)

\* _answer_result and _resolve: a choice goes to the model; after Run or a retry the host follows
\* the jobs instead; a review that is no longer true is shown again.
AnswerChooses ==
    /\ Answer /\ Agent /\ Current
    /\ LET g == Guarded("answer") IN
       \/ Settles(g, TRUE)
       \/ Shows(chat, {"ask", "summary"}) /\ Loops(Resolved(g), TRUE, FALSE)
       \/ Shows(chat, {"run", "retry"}) /\ Settles(Resolved(Started(g)), TRUE)
       \/ Shows(chat, {"run"}) /\ \E c \in {g, SomeStarted(g)} : Settles(Opened(c, g.now.form), TRUE)
       \/ /\ Shows(chat, {"retry"})
          /\ \E c \in {Resolved(Opened(g, Form("host", 0))), Resolved(Closed(g)),
                       Opened(g, Form("retry", 0)), SomeStarted(g)} : Settles(c, TRUE)

\* upload_epw.
Upload ==
    /\ Input
    /\ LET g == Guarded("system") IN
       \/ Settles(g, FALSE)
       \/ \E r \in Struck(g) : Settles(r.chat, FALSE)
       \/ /\ Asked /\ chat.now.pending.name = "upload"
          /\ Loops(Resolved(g), FALSE, FALSE)
       \/ /\ ~(Asked /\ chat.now.pending.name = "upload") /\ ~chat.now.ran
          /\ Settles(Opened([g EXCEPT !.now.pending = None], Form("host", 0)), FALSE)

\* set_mode of the session, which refuses what the strikes forbid, and of the policy.
Switched(g) ==
    IF Agent
    THEN IF NeedsForm(g) THEN Advances(Closed(ToGuided(g))) ELSE {ToGuided(g)}
    ELSE LET a == [Forgotten(g) EXCEPT !.now.mode = "agent"] IN {IF OfModel(a) THEN Closed(a) ELSE a}
SetMode ==
    /\ Input /\ ~(chat.now.down /\ ~Agent)
    /\ \E c \in Switched(Guarded("system")) : Settles(c, FALSE)
ShowRequest == Input /\ Settles(Summary(Guarded("system")), FALSE)
NewRequest ==
    /\ Input
    /\ LET g == Closed(Forgotten(Renewed(Guarded("system")))) IN
       \E c \in (IF Agent THEN {g} ELSE Advances(g)) : Settles(c, FALSE)

\* back: the step before, unless a job started since; strikes and their consequences stay
\* (faulty: they go back too).
RestoredWhole == [chat.snaps[Len(chat.snaps) - 1] EXCEPT !.jobs = chat.now.jobs]
Restored ==
    LET s == chat.snaps[Len(chat.snaps) - 1] IN
    [s EXCEPT !.strikes = chat.now.strikes, !.ended = chat.now.ended, !.down = chat.now.down,
              !.jobs = chat.now.jobs,
              !.mode = IF chat.now.down THEN "guided" ELSE @]
Back ==
    /\ Input /\ Len(chat.snaps) > 1
    /\ chat' = [now |-> Restored, stored |-> Restored, snaps |-> SubSeq(chat.snaps, 1, Len(chat.snaps) - 1)]
    /\ turn' = Idle

\* reopen (openepw chat --reopen): where the profile allows it, strikes start again.
Reopen ==
    /\ turn.at = "idle" /\ chat.now.ended /\ profile.reopen
    /\ chat' = Saved([chat EXCEPT !.now.ended = FALSE, !.now.strikes = 0])
    /\ turn' = Idle /\ UNCHANGED <<profile, spent>>

\* ModelPolicy.advance: guided forms, the next steps, or a summary by the model where there is
\* something to say.
Continues(g) ==
    \/ ~Agent /\ \E c \in Advances(Closed(g)) : Settles(c, FALSE)
    \/ Agent /\ Settles(Opened(g, Form("host", 0)), FALSE)
    \/ /\ Agent
       /\ chat' = [Closed(g) EXCEPT !.now.pending = None]
       /\ turn' = [Idle EXCEPT !.at = "sum"]

\* _jobs_done: an ended session asks nothing.
JobsDone ==
    /\ turn.at = "idle" /\ chat.now.jobs
    /\ LET g == [Guarded("system") EXCEPT !.now.jobs = FALSE] IN
       IF chat.now.ended THEN Settles(g, FALSE) ELSE Continues(g)
    /\ UNCHANGED <<profile, spent>>
-----------------------------------------------------------------------------
(* The model's turn. *)

\* _pair_calls: every earlier call without a result gets one (faulty: none does).
Unanswered(s) == {i \in s.asked : s.told[i] = 0 /\ (s.pending = None \/ s.pending.id # i)}
Unpaired(c) == c
Paired(c) == [c EXCEPT !.now.told = [i \in Ids |-> IF i \in Unanswered(c.now) THEN 1 ELSE @[i]]]

AtModel == turn.at = "ask" /\ UNCHANGED <<profile, spent>>
Timeout == AtModel /\ Settles(chat, turn.said)

\* ModelUnavailable: _to_guided; rules read a text the model did nothing with.
Unavailable ==
    /\ AtModel
    /\ LET g == ToGuided(Paired(chat))
           d == IF OfModel(g) THEN Closed(g) ELSE g
       IN \E c \in (IF turn.first THEN GuidedText(d) ELSE IF d.now.form = None THEN Advances(d) ELSE {d}) :
             Settles(c, turn.said)

\* _decline_unrelated: with a strike, or without one for a very short message.
DeclinesUnrelated(c) == Struck(c) \cup Quietly({c})

\* A reply in words ends the turn: clamped as off topic when the model used no tool, or shown,
\* after which the host shows the plan review if nothing is open.
ReplyClamped ==
    /\ AtModel /\ \A i \in Ids : Paired(chat).now.told[i] = 0
    /\ \E r \in DeclinesUnrelated(Paired(chat)) : Settles(r.chat, turn.said)
NoDeadEnd(c) == IF c.now.form = None THEN Advances(c) ELSE {c}
ReplyWords == AtModel /\ \E c \in NoDeadEnd(Paired(chat)) : Settles(c, turn.said)

ReplyCalls ==
    /\ turn.at = "ask" /\ UNCHANGED profile
    /\ \E n \in 1..2 :
          LET ids == [k \in 1..n |-> spent.calls + k] IN
          /\ spent.calls + n <= profile.calls
          /\ spent' = [spent EXCEPT !.calls = @ + n]
          /\ chat' = [Paired(chat) EXCEPT !.now.asked = @ \cup {ids[k] : k \in 1..n}]
          /\ turn' = [turn EXCEPT !.at = "calls", !.todo = ids, !.asks = @ + 1, !.first = FALSE]

\* The calls of a reply, in order.
Waits == turn.done \/ turn.stop \/ chat.now.pending # None
Here == turn.at = "calls" /\ turn.todo # <<>> /\ UNCHANGED <<profile, spent>>
Call == Head(turn.todo)
Runnable == Here /\ ~Waits /\ turn.steps < MaxSteps
Step == [turn EXCEPT !.todo = Tail(@), !.steps = @ + 1]
Skip == Here /\ Waits /\ chat' = Told(chat, Call) /\ turn' = [turn EXCEPT !.todo = Tail(@)]
StepLimit ==
    /\ Here /\ ~Waits /\ turn.steps >= MaxSteps
    /\ chat' = Told(chat, Call) /\ turn' = [turn EXCEPT !.todo = Tail(@), !.stop = TRUE]

\* _asked: the call opens a form and waits; it gets no result yet.
Suspend ==
    /\ Runnable /\ turn' = Step
    /\ \E k \in {"ask", "upload", "run", "retry", "summary"} :
       \E c \in {chat} \cup (IF k = "ask" THEN {Renewed(chat)} ELSE {}) :
          chat' = Opened([c EXCEPT !.now.pending = [id |-> Call, name |-> k]], Form(k, Call))

\* A tool answered, a gate or a rule refused, or a tool failed that has retries left.
Answered == Runnable /\ chat' = Told(chat, Call) /\ turn' = Step
FailsOften ==
    /\ Runnable /\ chat' = Told(chat, Call)
    /\ turn' = [Step EXCEPT !.failures = @ + 1, !.stop = turn.failures + 1 > MaxRetries]

\* out_of_scope: misuse is a strike, a misunderstanding is not; a knowledge_answer may be off
\* topic.  Both end the turn.
OutOfScope(c) == Struck(c) \cup DeclinesUnrelated(c)
KnowledgeAnswer(c) == Quietly({c}) \cup DeclinesUnrelated(c)
Declined ==
    /\ Runnable
    /\ \E r \in OutOfScope(chat) \cup KnowledgeAnswer(chat) :
          IF r.raised THEN Settles(r.chat, turn.said)
          ELSE /\ chat' = Told(r.chat, Call)
               /\ turn' = [Step EXCEPT !.done = TRUE, !.added = Added(r.chat)]

\* A tool only the person may use: a strike if the person's own text started the turn.
HostTool ==
    /\ Runnable
    /\ \E r \in (IF chat.now.origin = "text" THEN Struck(chat) ELSE {[chat |-> chat, raised |-> FALSE]}) :
          IF r.raised THEN Settles(r.chat, turn.said)
          ELSE /\ chat' = Told(r.chat, Call)
               /\ turn' = [Step EXCEPT !.done = r.chat.now.ended \/ r.chat.now.mode # "agent", !.added = Added(r.chat)]

\* Invalid calls get one repair; the second brings the guided form of this step.
InvalidTwice(c) == LET f == Forgotten(c) IN IF NeedsForm(f) THEN Advances(Closed(f)) ELSE {f}
Invalid ==
    /\ Runnable
    /\ IF turn.repairs = 0
       THEN chat' = Told(chat, Call) /\ turn' = [Step EXCEPT !.repairs = 1]
       ELSE \E c \in InvalidTwice(chat) : Settles(c, turn.said)

\* Anything else goes wrong: _guard reports it and keeps what there is.
Raises == turn.at # "idle" /\ UNCHANGED <<profile, spent>> /\ Settles(chat, turn.said)

EndReply ==
    /\ turn.at = "calls" /\ turn.todo = <<>> /\ UNCHANGED <<profile, spent>>
    /\ IF Waits THEN Settles(chat, turn.said) ELSE chat' = chat /\ turn' = [turn EXCEPT !.at = "ask"]

\* _summarise: the model's words, then the next steps; or guided mode.
Summed ==
    /\ turn.at = "sum" /\ UNCHANGED <<profile, spent>>
    /\ \/ Settles(Opened(Paired(chat), Form("host", 0)), FALSE)
       \/ \E c \in Advances(ToGuided(Paired(chat))) : Settles(c, FALSE)

\* The process dies; the next input loads what was stored.
Crash ==
    /\ spent.crashes < profile.crashes /\ turn.at # "idle"
    /\ spent' = [spent EXCEPT !.crashes = @ + 1]
    /\ chat' = [chat EXCEPT !.now = chat.stored]
    /\ turn' = Idle /\ UNCHANGED profile

Next ==
    \/ SmallTalk \/ Flagged \/ Unchecked \/ TextToRules \/ TextRevises \/ TextAnswers \/ TextToModel
    \/ AnswerStale \/ AnswerChanges \/ AnswerToRules \/ AnswerInWords \/ AnswerChooses
    \/ Upload \/ SetMode \/ ShowRequest \/ NewRequest \/ Back \/ Reopen \/ JobsDone
    \/ Timeout \/ Unavailable \/ ReplyClamped \/ ReplyWords \/ ReplyCalls
    \/ Skip \/ StepLimit \/ Suspend \/ Answered \/ FailsOften \/ Declined \/ HostTool \/ Invalid
    \/ Raises \/ EndReply \/ Summed \/ Crash

Spec == Init /\ [][Next]_vars
-----------------------------------------------------------------------------
\* What the model is sent: no question is open, every call of the turn has exactly one result,
\* and every result is of a call of the turn (the provider rejects anything else).  A strike that
\* ends the session tears the turn it came from; see README.md for what follows a reopening.  So
\* that a call can get its result, an open question of the model is the one that is pending.
CallsArePaired ==
    /\ turn.at \in {"ask", "sum"} =>
          LET s == Paired(chat).now IN
          ~s.torn => s.pending = None /\ \A i \in Ids : s.told[i] = IF i \in s.asked THEN 1 ELSE 0
    /\ turn.at = "idle" /\ OfModel(chat) => Current \/ chat.now.form.again

\* Strikes: at most one for an input, never taken back but by a normal input where the profile
\* counts consecutive ones, or by reopening; what the limit brings (the end of the session,
\* guided mode for good) stays, whatever is done next.
StrikesStick ==
    [][ LET s == chat'.now IN
        /\ s.strikes > chat.now.strikes => s.strikes = chat.now.strikes + 1 /\ turn.added = 0
        /\ s.strikes < chat.now.strikes =>
              s.strikes = 0 /\ (profile.counting = "consecutive" \/ chat.now.ended)
        /\ chat.now.down => s.down /\ s.mode = "guided"
        /\ chat.now.ended /\ ~s.ended => profile.reopen
        /\ turn'.at = "idle" /\ s.strikes >= Limit /\ profile.action = "end_session" => s.ended ]_vars
=============================================================================
