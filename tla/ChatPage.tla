------------------------------ MODULE ChatPage ------------------------------
(***************************************************************************)
(* The web page of a chat and the server it talks to: App.tsx and api.ts   *)
(* of web/chat-ui, api/agent_routes.py and the turns of agent/web.py.      *)
(*                                                                         *)
(* An input is answered at once with the session as it is; what the turn   *)
(* does comes over a stream of events and states.  The answer, the stream  *)
(* and the opening of a session reach the page in any order.  A session is *)
(* the number of its saves and of its events; what they say is left out.   *)
(* A poll (no EventSource) is a stream that ends after one pass.           *)
(***************************************************************************)
EXTENDS Naturals, Sequences

CONSTANTS None,
          Sessions,       \* 1..n, in the order they are created
          Recent,         \* RECENT_EVENTS: how many events an opened session shows
          MaxWire,        \* frames on their way before the server waits
          Budgets         \* how often turns do something, the person writes or reloads, jobs are
                          \* checked and something fails: [steps, inputs, reloads, checks, faults]

VARIABLES server,         \* of each session: [made, ver, said, busy]
          page,           \* [session, events, cursor, sending, asking]
          saved,          \* the session kept in sessionStorage
          opening, call,  \* the request that opens a session, the input under way
          stream, wire,   \* the subscription and the frames on their way
          left            \* what is left of the budget

vars == <<server, page, saved, opening, call, stream, wire, left>>

\* What each of them says of sessions; a frame is an event, the state of the session or the end.
Records == [made : BOOLEAN, ver : Nat, said : Nat, busy : BOOLEAN]
Views == [id : Sessions, ver : Nat, busy : BOOLEAN]
Pages == [session : {None} \cup Views, events : Seq(Sessions \X Nat), cursor : Nat,
          sending : BOOLEAN, asking : BOOLEAN]
Openings == [kind : {"create", "get"}, id : Sessions \cup {None}, shared : BOOLEAN,
             phase : {"sent", "read", "answered"}, ver : Nat, said : Nat, busy : BOOLEAN]
Calls == [id : Sessions, kind : {"input", "upload"}, ver : Nat, busy : BOOLEAN,
          phase : {"sent", "taken", "read", "answered", "refused"}]
Streams == [id : Sessions, from : Nat, last : Nat, after : Nat, was : BOOLEAN \cup {None},
            phase : {"loop", "send", "ended"}]
Frames ==
    [kind : {"event"}, seq : Nat] \cup [kind : {"state"}, ver : Nat, busy : BOOLEAN] \cup [kind : {"end"}]

ASSUME PageAssumption ==
    /\ Recent \in Nat
    /\ None \notin Sessions
    /\ None \notin Views /\ None \notin Openings /\ None \notin Calls /\ None \notin Streams

Blank == [session |-> None, events |-> <<>>, cursor |-> 0, sending |-> FALSE, asking |-> FALSE]
Loading(kind, id, shared) ==
    [kind |-> kind, id |-> id, shared |-> shared, phase |-> "sent", ver |-> 0, said |-> 0, busy |-> FALSE]
Load(id) == IF id = None THEN Loading("create", None, TRUE) ELSE Loading("get", id, FALSE)

Init ==
    /\ server = [s \in Sessions |-> [made |-> FALSE, ver |-> 0, said |-> 0, busy |-> FALSE]]
    /\ page = Blank /\ saved = None /\ opening = Load(None) /\ call = None
    /\ stream = None /\ wire = <<>>
    /\ left \in Budgets

Fresh == {s \in Sessions : ~server[s].made}
Spend(what) == left[what] > 0 /\ left' = [left EXCEPT ![what] = @ - 1]
-----------------------------------------------------------------------------
(* The subscription follows the session the page shows. *)

\* A stream that has sent no state yet (was = None) sends one in its first pass (faulty: it starts
\* as if the page knew that the session is idle).
StreamIdle(id, from) == [id |-> id, from |-> from, last |-> 0, after |-> from, was |-> FALSE, phase |-> "loop"]
Stream(id, from) == [id |-> id, from |-> from, last |-> 0, after |-> from, was |-> None, phase |-> "loop"]

Id(p) == IF p.session = None THEN None ELSE p.session.id
Turn(p) ==
    /\ page' = p
    /\ IF Id(p) = Id(page) THEN UNCHANGED <<stream, wire>>
       ELSE /\ wire' = <<>>
            /\ stream' = IF Id(p) = None THEN None ELSE Stream(Id(p), p.cursor)

\* The browser connects again with Last-Event-ID.
Again(st) ==
    LET from == IF st.last > st.from THEN st.last ELSE st.from
    IN [Stream(st.id, st.from) EXCEPT !.last = st.last, !.after = from]
-----------------------------------------------------------------------------
(* Opening a session. *)

ServerOpens ==
    /\ opening # None /\ opening.phase = "sent"
    /\ IF opening.kind = "get"
       THEN opening' = [opening EXCEPT !.phase = "read", !.ver = server[opening.id].ver] /\ UNCHANGED server
       ELSE \E s \in Fresh :
              /\ \A t \in Fresh : s <= t
              /\ server' = [server EXCEPT ![s] = [made |-> TRUE, ver |-> 1, said |-> 0, busy |-> TRUE]]
              /\ opening' = [opening EXCEPT !.phase = "read", !.id = s, !.ver = 1]
    /\ UNCHANGED <<page, saved, call, stream, wire, left>>
\* A snapshot reads the session, then its events and whether a turn runs.
OpeningReads ==
    /\ opening # None /\ opening.phase = "read"
    /\ opening' = [opening EXCEPT !.phase = "answered", !.said = server[opening.id].said,
                                  !.busy = server[opening.id].busy]
    /\ UNCHANGED <<server, page, saved, call, stream, wire, left>>

Shown(r) == [id |-> r.id, ver |-> r.ver, busy |-> r.busy]
\* The page shows the last events of the session (faulty: it asks for every event again).
OpensFromStart(r) ==
    LET first == IF r.said > Recent THEN r.said - Recent ELSE 0
    IN [page EXCEPT !.session = Shown(r), !.cursor = 0,
                    !.events = [i \in 1..(r.said - first) |-> <<r.id, first + i>>]]
Opens(r) ==
    LET first == IF r.said > Recent THEN r.said - Recent ELSE 0
    IN [page EXCEPT !.session = Shown(r), !.cursor = r.said,
                    !.events = [i \in 1..(r.said - first) |-> <<r.id, first + i>>]]
Opened ==
    /\ opening # None /\ opening.phase = "answered"
    /\ Turn(Opens(opening)) /\ saved' = opening.id /\ opening' = None
    /\ UNCHANGED <<server, call, left>>

\* A session that cannot be read is given up for a new one; without a new one the page waits.
GivesUp(o) == IF o = None \/ o.kind = "create" THEN None ELSE Loading("create", None, FALSE)
OpeningFails ==
    /\ opening # None /\ Spend("faults") /\ Fresh # {}
    /\ opening' = GivesUp(opening) /\ saved' = IF opening.kind = "get" THEN None ELSE saved
    /\ UNCHANGED <<server, page, call, stream, wire>>
Reconnect ==
    /\ page.session = None /\ opening = None /\ Fresh # {}
    /\ opening' = Load(saved)
    /\ UNCHANGED <<server, page, saved, call, stream, wire, left>>
-----------------------------------------------------------------------------
(* Inputs. *)

Send ==
    /\ page.session # None /\ ~page.sending /\ ~page.session.busy
    /\ Spend("inputs")
    /\ \E kind \in {"input", "upload"} :
          call' = [id |-> page.session.id, kind |-> kind, phase |-> "sent", ver |-> 0, busy |-> FALSE]
    /\ \E asking \in BOOLEAN : page' = [page EXCEPT !.sending = TRUE, !.asking = asking]
    /\ UNCHANGED <<server, saved, opening, stream, wire>>
ServerTakes ==
    /\ call # None /\ call.phase = "sent"
    /\ IF server[call.id].busy THEN call' = [call EXCEPT !.phase = "refused"] /\ UNCHANGED server
       ELSE /\ call' = [call EXCEPT !.phase = "taken"]
            /\ server' = [server EXCEPT ![call.id].busy = TRUE]
    /\ UNCHANGED <<page, saved, opening, stream, wire, left>>
CallLoads ==
    /\ call # None /\ call.phase = "taken"
    /\ call' = [call EXCEPT !.phase = "read", !.ver = server[call.id].ver]
    /\ UNCHANGED <<server, page, saved, opening, stream, wire, left>>
CallReads ==
    /\ call # None /\ call.phase = "read"
    /\ call' = [call EXCEPT !.phase = "answered", !.busy = server[call.id].busy]
    /\ UNCHANGED <<server, page, saved, opening, stream, wire, left>>

\* send keeps an empty page empty, upload does not.
Responds ==
    /\ call # None /\ call.phase \in {"answered", "refused"} /\ call' = None
    /\ LET keep == call.phase = "refused" \/ (page.session = None /\ call.kind = "input")
       IN Turn([page EXCEPT !.sending = FALSE, !.asking = FALSE, !.session = IF keep THEN @ ELSE Shown(call)])
    /\ UNCHANGED <<server, saved, opening, left>>
CallFails ==
    /\ call # None /\ Spend("faults")
    /\ call' = None /\ page' = [page EXCEPT !.sending = FALSE, !.asking = FALSE]
    /\ UNCHANGED <<server, saved, opening, stream, wire>>

\* The button is disabled while something is sent; the dialog it opened before is not.
StartOver ==
    /\ ~page.sending \/ page.asking
    /\ Fresh # {}
    /\ saved' = None
    /\ opening' = IF opening # None /\ opening.shared THEN opening ELSE Load(None)
    /\ Turn([Blank EXCEPT !.sending = page.sending])
    /\ UNCHANGED <<server, call, left>>
Reload ==
    /\ Spend("reloads") /\ Fresh # {}
    /\ page' = Blank /\ stream' = None /\ wire' = <<>> /\ call' = None /\ opening' = Load(saved)
    /\ UNCHANGED <<server, saved>>
-----------------------------------------------------------------------------
(* The turns of a session, and the stream of what they do. *)

TurnSaves(s) ==
    /\ server[s].busy /\ Spend("steps")
    /\ server' = [server EXCEPT ![s].ver = @ + 1]
    /\ UNCHANGED <<page, saved, opening, call, stream, wire>>
TurnSays(s) ==
    /\ server[s].busy /\ Spend("steps")
    /\ server' = [server EXCEPT ![s].said = @ + 1]
    /\ UNCHANGED <<page, saved, opening, call, stream, wire>>
TurnEnds(s) ==
    /\ server[s].busy /\ server' = [server EXCEPT ![s].busy = FALSE]
    /\ UNCHANGED <<page, saved, opening, call, stream, wire, left>>
\* follow_once: a job finished while nobody wrote.
Checks(s) ==
    /\ server[s].made /\ ~server[s].busy /\ Spend("checks")
    /\ server' = [server EXCEPT ![s].busy = TRUE]
    /\ UNCHANGED <<page, saved, opening, call, stream, wire>>

\* One pass of _stream: events, whether a turn runs, and then the session if anything changed.
StreamReads ==
    /\ stream # None /\ stream.phase = "loop" /\ Len(wire) < MaxWire
    /\ LET s == server[stream.id]
           new == IF s.said > stream.after THEN s.said - stream.after ELSE 0
           changed == new > 0 \/ s.busy # stream.was
       IN /\ wire' = wire \o [i \in 1..new |-> [kind |-> "event", seq |-> stream.after + i]]
          /\ stream' = [stream EXCEPT !.after = @ + new, !.was = s.busy,
                                      !.phase = IF changed THEN "send" ELSE "loop"]
    /\ UNCHANGED <<server, page, saved, opening, call, left>>
StreamSends ==
    /\ stream # None /\ stream.phase = "send"
    /\ LET s == server[stream.id] IN wire' = Append(wire, [kind |-> "state", ver |-> s.ver, busy |-> s.busy])
    /\ stream' = [stream EXCEPT !.phase = "loop"]
    /\ UNCHANGED <<server, page, saved, opening, call, left>>
\* STREAM_SECONDS: the server ends a stream between two passes.
StreamEnds ==
    /\ stream # None /\ stream.phase = "loop" /\ stream.was # None
    /\ wire' = Append(wire, [kind |-> "end"]) /\ stream' = [stream EXCEPT !.phase = "ended"]
    /\ UNCHANGED <<server, page, saved, opening, call, left>>
StreamBreaks ==
    /\ stream # None /\ Spend("faults")
    /\ wire' = <<>> /\ stream' = Again(stream)
    /\ UNCHANGED <<server, page, saved, opening, call>>

Deliver ==
    /\ wire # <<>>
    /\ LET frame == Head(wire) IN
       /\ wire' = IF frame.kind = "end" THEN <<>> ELSE Tail(wire)
       /\ stream' = CASE frame.kind = "end" -> Again(stream)
                      [] frame.kind = "event" -> [stream EXCEPT !.last = frame.seq]
                      [] OTHER -> stream
       /\ page' = CASE frame.kind = "event" /\ frame.seq > page.cursor ->
                            [page EXCEPT !.cursor = frame.seq, !.events = Append(@, <<stream.id, frame.seq>>)]
                    [] frame.kind = "state" -> [page EXCEPT !.session = [id |-> stream.id, ver |-> frame.ver, busy |-> frame.busy]]
                    [] OTHER -> page
    /\ UNCHANGED <<server, saved, opening, call, left>>

\* A restart of the server ends its turns; every request and stream fails.
Restarts ==
    /\ Spend("faults") /\ Fresh # {}
    /\ server' = [s \in Sessions |-> [server[s] EXCEPT !.busy = FALSE]]
    /\ call' = None /\ page' = [page EXCEPT !.sending = FALSE, !.asking = FALSE]
    /\ opening' = GivesUp(opening) /\ saved' = IF opening # None /\ opening.kind = "get" THEN None ELSE saved
    /\ wire' = <<>> /\ stream' = IF stream = None THEN None ELSE Again(stream)

Opening == ServerOpens \/ OpeningReads \/ Opened
Calling == ServerTakes \/ CallLoads \/ CallReads \/ Responds
Streaming == StreamReads \/ StreamSends
Next ==
    \/ Opening \/ OpeningFails \/ Reconnect
    \/ Send \/ Calling \/ CallFails \/ StartOver \/ Reload
    \/ \E s \in Sessions : TurnSaves(s) \/ TurnSays(s) \/ TurnEnds(s) \/ Checks(s)
    \/ Streaming \/ StreamEnds \/ StreamBreaks \/ Deliver \/ Restarts

\* Requests are answered, turns end, frames arrive and no stream lasts for ever; the person and
\* the faults owe nothing.
Fairness ==
    /\ WF_vars(Opening) /\ WF_vars(Calling) /\ WF_vars(Streaming) /\ WF_vars(StreamEnds) /\ WF_vars(Deliver)
    /\ \A s \in Sessions : WF_vars(TurnEnds(s))
Spec == Init /\ [][Next]_vars /\ Fairness
-----------------------------------------------------------------------------
TypeOK ==
    /\ server \in [Sessions -> Records]
    /\ page \in Pages
    /\ saved \in Sessions \cup {None}
    /\ opening \in {None} \cup Openings /\ call \in {None} \cup Calls
    /\ stream \in {None} \cup Streams /\ wire \in Seq(Frames)

\* While the page shows the session it keeps, its transcript is an unbroken run of that session's
\* events up to the cursor: none lost, repeated, reordered or of another session, whatever was
\* reloaded, reconnected or answered late (App.tsx, subscribe).
TranscriptIsTrue ==
    page.session # None /\ page.session.id = saved =>
        \A i \in 1..Len(page.events) :
            page.events[i] = <<saved, page.cursor - Len(page.events) + i>>

\* Once inputs and faults stop, the page shows the session as the server has it, ready for the
\* next input; only a page without a session waits for the person to reconnect.
Settled ==
    page.session # None =>
        LET s == server[page.session.id] IN
        /\ page.session.ver = s.ver /\ ~page.session.busy /\ ~s.busy /\ ~page.sending
        /\ page.cursor >= s.said
PageSettles == <>[]Settled
=============================================================================
