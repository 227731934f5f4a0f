--------------------------- MODULE ChatPageProofs ---------------------------
(***************************************************************************)
(* Machine-checked proofs about ChatPage: what a person reads is what the  *)
(* session said, for any number of sessions, inputs, reloads and faults.   *)
(***************************************************************************)
EXTENDS ChatPage, SequenceTheorems, TLAPS

-----------------------------------------------------------------------------
(* The inductive invariant.                                                *)

Shows(s) == page.session # None /\ page.session.id = s

\* The stream is that of the session the page shows; it starts behind what the page has.
Follows ==
    /\ stream = None => page.session = None /\ wire = <<>>
    /\ stream # None =>
          page.session # None /\ stream.id = page.session.id /\ stream.from <= page.cursor /\ stream.last <= page.cursor

\* Every session somebody names was created.
Known ==
    /\ page.session # None => server[page.session.id].made
    /\ call # None => server[call.id].made
    /\ saved # None => server[saved].made
    /\ opening # None /\ opening.id # None => server[opening.id].made

\* A request that is under way is not about a session the page has come to since: an input is for
\* the session shown, or for one the page has given up; an opened session is new to the page.
OpeningApart ==
    /\ opening.shared => opening.kind = "create"
    /\ opening.kind = "get" => opening.id = saved /\ opening.id # None
    /\ opening.phase # "sent" => opening.id # None
    /\ opening.id # None => ~Shows(opening.id)
    /\ opening.kind = "create" /\ opening.phase = "sent" => opening.id = None
    /\ opening.kind = "create" /\ opening.id # None => opening.id # saved /\ (call # None => call.id # opening.id)
Apart ==
    /\ call # None => Shows(call.id) \/ call.id # saved
    /\ opening # None => OpeningApart

\* An event that the page lacks is on the wire before every later one, and before the stream ends.
On(w, q, n) == \E j \in 1 .. n : w[j].kind = "event" /\ w[j].seq = q
Complete(w, after, cursor) ==
    /\ \A i \in 1 .. Len(w) : w[i].kind = "event" => \A q \in cursor + 1 .. w[i].seq - 1 : On(w, q, i - 1)
    /\ \A q \in cursor + 1 .. after : On(w, q, Len(w))
Wired == stream # None => Complete(wire, stream.after, page.cursor)

PageInv == TypeOK /\ Follows /\ Known /\ Apart /\ Wired /\ TranscriptIsTrue
-----------------------------------------------------------------------------
(* Frames on the wire.                                                     *)

LEMMA NothingLacks ==
    ASSUME NEW after \in Nat, NEW cursor \in Nat, after <= cursor
    PROVE  Complete(<<>>, after, cursor)
  BY DEF Complete

\* Frames that are put behind others: an event comes after those that precede it.
LEMMA MoreFrames ==
    ASSUME NEW w \in Seq(Frames), NEW x \in Seq(Frames), NEW after \in Nat, NEW cursor \in Nat, NEW new \in Nat,
           Complete(w, after, cursor),
           \A i \in 1 .. Len(x) : x[i].kind = "event" => i <= new /\ x[i].seq = after + i,
           \A i \in 1 .. new : i <= Len(x) /\ x[i].kind = "event"
    PROVE  Complete(w \o x, after + new, cursor)
  <1> DEFINE y == w \o x
  <1>1. /\ Len(w) \in Nat /\ Len(x) \in Nat /\ Len(y) = Len(w) + Len(x)
        /\ \A i \in 1 .. Len(w) : y[i] = w[i]
        /\ \A i \in 1 .. Len(x) : y[Len(w) + i] = x[i]
    BY ConcatProperties, LenProperties
  <1> HIDE DEF y
  <1>2. \A q \in cursor + 1 .. after : \A n \in Nat : n >= Len(w) => On(y, q, n)
    <2> SUFFICES ASSUME NEW q \in cursor + 1 .. after, NEW n \in Nat, n >= Len(w)
                 PROVE  On(y, q, n)
      OBVIOUS
    <2>1. PICK j \in 1 .. Len(w) : w[j].kind = "event" /\ w[j].seq = q
      BY DEF Complete, On
    <2>2. j \in 1 .. n /\ y[j] = w[j]
      BY <1>1, <2>1
    <2>3. QED
      BY <2>1, <2>2 DEF On
  <1>3. \A k \in 1 .. new : y[Len(w) + k].kind = "event" /\ y[Len(w) + k].seq = after + k
    <2> SUFFICES ASSUME NEW k \in 1 .. new
                 PROVE  y[Len(w) + k].kind = "event" /\ y[Len(w) + k].seq = after + k
      OBVIOUS
    <2>1. k \in 1 .. Len(x)
      BY <1>1
    <2>2. y[Len(w) + k] = x[k] /\ x[k].kind = "event" /\ x[k].seq = after + k
      BY <1>1, <2>1
    <2>3. QED
      BY <2>2
  <1>4. ASSUME NEW q \in after + 1 .. after + new, NEW n \in Nat, n >= Len(w) + (q - after)
        PROVE  On(y, q, n)
    <2>1. q - after \in 1 .. new /\ after + (q - after) = q
      OBVIOUS
    <2>2. Len(w) + (q - after) \in 1 .. n /\ y[Len(w) + (q - after)].kind = "event"
          /\ y[Len(w) + (q - after)].seq = q
      <3>1. Len(w) + (q - after) \in 1 .. n
        BY <1>1, <1>4, <2>1
      <3>2. y[Len(w) + (q - after)].kind = "event" /\ y[Len(w) + (q - after)].seq = after + (q - after)
        BY <1>3, <2>1
      <3>3. QED
        BY <2>1, <3>1, <3>2
    <2>3. QED
      BY <2>2 DEF On
  <1>5. ASSUME NEW i \in 1 .. Len(y), y[i].kind = "event", NEW q \in cursor + 1 .. y[i].seq - 1
        PROVE  On(y, q, i - 1)
    <2>1. CASE i <= Len(w)
      <3>1. i \in 1 .. Len(w) /\ y[i] = w[i]
        BY <1>1, <2>1
      <3>2. On(w, q, i - 1)
        BY <1>5, <3>1 DEF Complete
      <3>3. PICK j \in 1 .. i - 1 : w[j].kind = "event" /\ w[j].seq = q
        BY <3>2 DEF On
      <3>4. y[j] = w[j]
        BY <1>1, <3>1, <3>3
      <3>5. QED
        BY <3>3, <3>4 DEF On
    <2>2. CASE i > Len(w)
      <3>1. PICK k \in 1 .. Len(x) : i = Len(w) + k
        <4>1. i - Len(w) \in 1 .. Len(x) /\ i = Len(w) + (i - Len(w))
          BY <1>1, <2>2
        <4>2. QED
          BY <4>1
      <3>2. x[k].kind = "event" /\ y[i].seq = after + k
        <4>1. y[i] = x[k]
          BY <1>1, <3>1
        <4>2. QED
          BY <1>5, <3>1, <4>1
      <3>3. q \in cursor + 1 .. after \/ q \in after + 1 .. after + k - 1
        BY <1>5, <3>1, <3>2
      <3>4. CASE q \in cursor + 1 .. after
        BY <1>1, <1>2, <2>2, <3>4
      <3>5. CASE q \in after + 1 .. after + k - 1
        <4>1. k <= new
          BY <3>1, <3>2
        <4>2. q \in after + 1 .. after + new /\ i - 1 \in Nat /\ i - 1 >= Len(w) + (q - after)
          BY <1>1, <3>1, <3>5, <4>1
        <4>3. QED
          BY <1>4, <4>2
      <3>6. QED
        BY <3>3, <3>4, <3>5
    <2>3. QED
      BY <1>1, <2>1, <2>2
  <1>6. ASSUME NEW q \in cursor + 1 .. after + new
        PROVE  On(y, q, Len(y))
    <2>1. CASE q <= after
      <3>1. q \in cursor + 1 .. after
        BY <2>1
      <3>2. QED
        BY <1>1, <1>2, <3>1
    <2>2. CASE q > after
      <3>1. q \in after + 1 .. after + new
        BY <2>2
      <3>2. new \in 1 .. new /\ new <= Len(x)
        BY <2>2
      <3>3. Len(y) \in Nat /\ Len(y) >= Len(w) + (q - after)
        BY <1>1, <3>1, <3>2
      <3>4. QED
        BY <1>4, <3>1, <3>3
    <2>3. QED
      BY <2>1, <2>2
  <1>7. QED
    BY <1>5, <1>6 DEF Complete, y

\* The frame of an event that comes next is of the next event, or of one the page has.
LEMMA NextEvent ==
    ASSUME NEW w \in Seq(Frames), w # <<>>, NEW after \in Nat, NEW cursor \in Nat, Complete(w, after, cursor),
           w[1].kind = "event"
    PROVE  w[1].seq \in Nat /\ w[1].seq <= cursor + 1
  <1>1. 1 \in 1 .. Len(w) /\ w[1] \in Frames
    BY EmptySeq, LenProperties, ElementOfSeq
  <1>2. w[1].seq \in Nat
    BY <1>1 DEF Frames
  <1>3. \A q \in cursor + 1 .. w[1].seq - 1 : On(w, q, 0)
    BY <1>1 DEF Complete
  <1>4. \A q : ~On(w, q, 0)
    BY DEF On
  <1>5. QED
    BY <1>2, <1>3, <1>4

\* What is left when the first frame has come.
LEMMA FewerFrames ==
    ASSUME NEW w \in Seq(Frames), w # <<>>, NEW after \in Nat, NEW cursor \in Nat, NEW later \in Nat,
           Complete(w, after, cursor), cursor <= later, w[1].kind = "event" => w[1].seq <= later
    PROVE  Complete(Tail(w), after, later)
  <1> DEFINE y == Tail(w)
  <1>1. /\ Len(w) \in Nat /\ Len(w) > 0 /\ Len(y) = Len(w) - 1
        /\ \A i \in 1 .. Len(y) : y[i] = w[i + 1]
    BY HeadTailProperties, EmptySeq, LenProperties
  <1> HIDE DEF y
  <1>2. ASSUME NEW n \in Nat, n <= Len(w), NEW q \in Nat, q > later, On(w, q, n)
        PROVE  On(y, q, n - 1)
    <2>1. PICK j \in 1 .. n : w[j].kind = "event" /\ w[j].seq = q
      BY <1>2 DEF On
    <2>2. j # 1
      BY <1>2, <2>1
    <2>3. j - 1 \in 1 .. n - 1 /\ j - 1 \in 1 .. Len(y) /\ y[j - 1] = w[j]
      BY <1>1, <1>2, <2>1, <2>2
    <2>4. QED
      BY <2>1, <2>3 DEF On
  <1>3. ASSUME NEW i \in 1 .. Len(y), y[i].kind = "event", NEW q \in later + 1 .. y[i].seq - 1
        PROVE  On(y, q, i - 1)
    <2>1. i + 1 \in 1 .. Len(w) /\ y[i] = w[i + 1] /\ i \in Nat /\ i <= Len(w)
      BY <1>1
    <2>2. q \in cursor + 1 .. w[i + 1].seq - 1
      BY <2>1
    <2>3. On(w, q, i)
      BY <1>3, <2>1, <2>2 DEF Complete
    <2>4. QED
      BY <1>2, <2>1, <2>3
  <1>4. ASSUME NEW q \in later + 1 .. after
        PROVE  On(y, q, Len(y))
    BY <1>1, <1>2 DEF Complete
  <1>5. QED
    BY <1>3, <1>4 DEF Complete, y
-----------------------------------------------------------------------------
(* The page and its stream.                                                *)

LEMMA AgainTyped ==
    ASSUME NEW st \in Streams
    PROVE  /\ Again(st) \in Streams /\ Again(st).id = st.id /\ Again(st).last = st.last
           /\ Again(st).from = st.from /\ Again(st).after \in {st.from, st.last} /\ Again(st).after \in Nat
  <1> DEFINE from == IF st.last > st.from THEN st.last ELSE st.from
  <1>1. from \in Nat /\ st.id \in Sessions /\ st.last \in Nat /\ st.from \in Nat
    BY DEF Streams
  <1> DEFINE new == Stream(st.id, st.from)
  <1>2. new \in Streams /\ new.id = st.id /\ new.from = st.from
    BY <1>1 DEF Stream, Streams
  <1>3. Again(st) = [new EXCEPT !.last = st.last, !.after = from]
    BY DEF Again
  <1> HIDE DEF new, from
  <1>4. /\ Again(st) \in Streams /\ Again(st).id = new.id /\ Again(st).from = new.from
        /\ Again(st).last = st.last /\ Again(st).after = from
    BY <1>1, <1>2, <1>3 DEF Streams
  <1>5. QED
    BY <1>1, <1>2, <1>4 DEF from

\* A page that comes to another session, or stays with what it has: the stream follows it.
LEMMA Turns ==
    ASSUME TypeOK, Follows, Wired, NEW p \in Pages, Turn(p),
           Id(p) = None \/ Id(p) # Id(page) \/ p.cursor = page.cursor
    PROVE  /\ page' = p /\ stream' \in {None} \cup Streams /\ wire' \in Seq(Frames)
           /\ Follows' /\ Wired'
  <1>1. page' = p
    BY DEF Turn
  <1>2. /\ p.session = None \/ (p.session \in Views /\ p.session.id \in Sessions)
        /\ page.session = None \/ (page.session \in Views /\ page.session.id \in Sessions)
        /\ p.cursor \in Nat
    BY DEF TypeOK, Pages, Views
  <1>3. CASE Id(p) = Id(page)
    <2>1. UNCHANGED <<stream, wire>>
      BY <1>3 DEF Turn
    <2>2. p.session = None <=> page.session = None
      BY <1>2, <1>3, PageAssumption DEF Id
    <2>3. p.session # None => p.session.id = page.session.id /\ p.cursor = page.cursor
      BY <1>2, <1>3, <2>2, PageAssumption DEF Id
    <2>4. QED
      BY <1>1, <2>1, <2>2, <2>3 DEF Follows, Wired, TypeOK
  <1>4. CASE Id(p) # Id(page)
    <2>1. wire' = <<>> /\ <<>> \in Seq(Frames)
      BY <1>4 DEF Turn
    <2>2. CASE Id(p) = None
      <3>1. p.session = None /\ stream' = None
        BY <1>2, <1>4, <2>2, PageAssumption DEF Turn, Id
      <3>2. QED
        BY <1>1, <2>1, <3>1 DEF Follows, Wired
    <2>3. CASE Id(p) # None
      <3>1. p.session # None /\ Id(p) = p.session.id /\ Id(p) \in Sessions
        BY <1>2, <2>3 DEF Id
      <3>2. stream' = [id |-> p.session.id, from |-> p.cursor, last |-> 0, after |-> p.cursor,
                       was |-> None, phase |-> "loop"]
        BY <1>4, <2>3, <3>1 DEF Turn, Stream
      <3>3. stream' \in Streams /\ stream' # None /\ stream'.after = p.cursor
        BY <1>2, <3>1, <3>2, PageAssumption DEF Streams
      <3>4. Complete(<<>>, p.cursor, p.cursor)
        BY <1>2, NothingLacks
      <3>5. Follows'
        BY <1>1, <1>2, <3>1, <3>2, <3>3 DEF Follows
      <3>6. QED
        BY <1>1, <2>1, <3>3, <3>4, <3>5 DEF Wired
    <2>4. QED
      BY <2>2, <2>3
  <1>5. QED
    BY <1>3, <1>4

\* The server creates no session twice and forgets none.
Grows ==
    /\ server' \in [Sessions -> Records]
    /\ \A s \in Sessions : server[s].made => server'[s].made

\* What the server and the requests do while the page shows what it showed.
LEMMA Quiet ==
    ASSUME PageInv, Grows, UNCHANGED <<page, saved, opening, stream, wire>>,
           call' = call \/ (call # None /\ call' \in Calls /\ call'.id = call.id)
    PROVE  PageInv'
  <1> USE DEF PageInv
  <1>1. TypeOK'
    BY DEF TypeOK, Grows
  <1>2. /\ page.session # None => page.session.id \in Sessions
        /\ call # None => call.id \in Sessions
        /\ saved # None => saved \in Sessions
        /\ opening # None => opening.id \in Sessions \cup {None}
    BY DEF TypeOK, Pages, Views, Calls, Openings
  <1>3. Known'
    BY <1>2 DEF Known, Grows
  <1>4. Apart'
    <2>1. OpeningApart => OpeningApart'
      BY DEF OpeningApart, Shows
    <2>2. QED
      BY <2>1 DEF Apart, Shows
  <1>5. Follows' /\ Wired' /\ TranscriptIsTrue'
    BY DEF Follows, Wired, TranscriptIsTrue
  <1>6. QED
    BY <1>1, <1>3, <1>4, <1>5

LEMMA Made ==
    ASSUME TypeOK, NEW s \in Sessions, NEW r \in Records, server[s].made => r.made,
           server' = [server EXCEPT ![s] = r]
    PROVE  Grows
  BY DEF TypeOK, Grows

LEMMA ServerActs ==
    ASSUME PageInv, NEW s \in Sessions, TurnSaves(s) \/ TurnSays(s) \/ TurnEnds(s) \/ Checks(s)
    PROVE  PageInv'
  <1>1. server \in [Sessions -> Records]
    BY DEF PageInv, TypeOK
  <1>2. \E r \in Records : r.made = server[s].made /\ server' = [server EXCEPT ![s] = r]
    <2>1. CASE TurnSaves(s)
      <3>1. [server[s] EXCEPT !.ver = @ + 1] \in Records /\ [server[s] EXCEPT !.ver = @ + 1].made = server[s].made
        BY <1>1 DEF Records
      <3>2. server' = [server EXCEPT ![s] = [server[s] EXCEPT !.ver = @ + 1]]
        BY <2>1 DEF TurnSaves
      <3>3. QED
        BY <3>1, <3>2
    <2>2. CASE TurnSays(s)
      <3>1. [server[s] EXCEPT !.said = @ + 1] \in Records /\ [server[s] EXCEPT !.said = @ + 1].made = server[s].made
        BY <1>1 DEF Records
      <3>2. server' = [server EXCEPT ![s] = [server[s] EXCEPT !.said = @ + 1]]
        BY <2>2 DEF TurnSays
      <3>3. QED
        BY <3>1, <3>2
    <2>3. CASE TurnEnds(s) \/ Checks(s)
      <3>1. PICK b \in BOOLEAN : server' = [server EXCEPT ![s] = [server[s] EXCEPT !.busy = b]]
        BY <2>3 DEF TurnEnds, Checks
      <3>2. [server[s] EXCEPT !.busy = b] \in Records /\ [server[s] EXCEPT !.busy = b].made = server[s].made
        BY <1>1 DEF Records
      <3>3. QED
        BY <3>1, <3>2
    <2>4. QED
      BY <2>1, <2>2, <2>3
  <1>3. Grows
    BY <1>2, Made DEF PageInv
  <1>4. UNCHANGED <<page, saved, opening, call, stream, wire>>
    BY DEF TurnSaves, TurnSays, TurnEnds, Checks
  <1>5. QED
    BY <1>3, <1>4, Quiet
-----------------------------------------------------------------------------
(* Inputs.                                                                 *)

LEMMA CallActs ==
    ASSUME PageInv, ServerTakes \/ CallLoads \/ CallReads
    PROVE  PageInv'
  <1>1. /\ server \in [Sessions -> Records] /\ call # None /\ call \in Calls /\ call.id \in Sessions
        /\ server[call.id] \in Records
    BY DEF PageInv, TypeOK, Calls, ServerTakes, CallLoads, CallReads
  <1>2. call' \in Calls /\ call'.id = call.id
    <2>1. \A ph \in {"taken", "refused"} :
             [call EXCEPT !.phase = ph] \in Calls /\ [call EXCEPT !.phase = ph].id = call.id
      BY <1>1 DEF Calls
    <2>2. CASE ServerTakes
      BY <2>1, <2>2 DEF ServerTakes
    <2>3. CASE CallLoads
      <3>1. server[call.id].ver \in Nat
        BY <1>1 DEF Records
      <3>2. QED
        BY <1>1, <2>3, <3>1 DEF CallLoads, Calls
    <2>4. CASE CallReads
      <3>1. server[call.id].busy \in BOOLEAN
        BY <1>1 DEF Records
      <3>2. QED
        BY <1>1, <2>4, <3>1 DEF CallReads, Calls
    <2>5. QED
      BY <2>2, <2>3, <2>4
  <1>3. Grows
    <2>1. CASE server' = server
      BY <1>1, <2>1 DEF Grows
    <2>2. CASE server' = [server EXCEPT ![call.id].busy = TRUE]
      <3>1. server' = [server EXCEPT ![call.id] = [server[call.id] EXCEPT !.busy = TRUE]]
        BY <2>2
      <3>2. [server[call.id] EXCEPT !.busy = TRUE] \in Records
            /\ [server[call.id] EXCEPT !.busy = TRUE].made = server[call.id].made
        BY <1>1 DEF Records
      <3>3. QED
        BY <1>1, <3>1, <3>2, Made DEF PageInv
    <2>3. QED
      BY <2>1, <2>2 DEF ServerTakes, CallLoads, CallReads
  <1>4. UNCHANGED <<page, saved, opening, stream, wire>>
    BY DEF ServerTakes, CallLoads, CallReads
  <1>5. QED
    BY <1>1, <1>2, <1>3, <1>4, Quiet

\* What an input in the making says of the page is that it is sending.
LEMMA Marked ==
    ASSUME TypeOK, NEW b \in BOOLEAN, NEW a \in BOOLEAN
    PROVE  LET p == [page EXCEPT !.sending = b, !.asking = a] IN
           /\ p \in Pages /\ p.session = page.session /\ p.events = page.events /\ p.cursor = page.cursor
  BY DEF TypeOK, Pages

LEMMA SendActs ==
    ASSUME PageInv, Send
    PROVE  PageInv'
  <1> USE DEF PageInv
  <1>1. PICK kind \in {"input", "upload"}, asking \in BOOLEAN :
           /\ call' = [id |-> page.session.id, kind |-> kind, phase |-> "sent", ver |-> 0, busy |-> FALSE]
           /\ page' = [page EXCEPT !.sending = TRUE, !.asking = asking]
    BY DEF Send
  <1>2. page.session # None /\ UNCHANGED <<server, saved, opening, stream, wire>>
    BY DEF Send
  <1>3. page.session.id \in Sessions
    BY <1>2 DEF TypeOK, Pages, Views
  <1>4. page' \in Pages /\ page'.session = page.session /\ page'.events = page.events /\ page'.cursor = page.cursor
    BY <1>1, Marked
  <1>5. call' \in Calls /\ call'.id = page.session.id /\ call' # None
    <2>1. call' \in Calls /\ call'.id = page.session.id
      BY <1>1, <1>3 DEF Calls
    <2>2. QED
      BY <2>1, PageAssumption
  <1>6. TypeOK'
    BY <1>2, <1>4, <1>5 DEF TypeOK
  <1>7. Known' /\ Follows' /\ Wired' /\ TranscriptIsTrue'
    BY <1>2, <1>4, <1>5 DEF Known, Follows, Wired, TranscriptIsTrue
  <1>8. Apart'
    <2>1. OpeningApart => OpeningApart'
      BY <1>2, <1>4, <1>5 DEF OpeningApart, Shows
    <2>2. QED
      BY <1>2, <1>4, <1>5, <2>1 DEF Apart, Shows
  <1>9. QED
    BY <1>6, <1>7, <1>8

\* An answer brings its session back: it is the one shown, or one that is not kept any more, and no
\* opening is about it.
LEMMA RespondsActs ==
    ASSUME PageInv, Responds
    PROVE  PageInv'
  <1> USE DEF PageInv
  <1> DEFINE keep == call.phase = "refused" \/ (page.session = None /\ call.kind = "input")
             p == [page EXCEPT !.sending = FALSE, !.asking = FALSE,
                               !.session = IF keep THEN @ ELSE Shown(call)]
  <1>1. /\ call # None /\ call' = None /\ UNCHANGED <<server, saved, opening>> /\ Turn(p)
    BY DEF Responds
  <1>2. call \in Calls /\ call.id \in Sessions /\ Shown(call) \in Views /\ Shown(call).id = call.id
        /\ Shown(call) # None
    BY <1>1, PageAssumption DEF TypeOK, Calls, Views, Shown
  <1>3. /\ p \in Pages /\ p.events = page.events /\ p.cursor = page.cursor
        /\ p.session = page.session \/ p.session = Shown(call)
    BY <1>2 DEF TypeOK, Pages
  <1> HIDE DEF p
  <1>4. /\ page' = p /\ stream' \in {None} \cup Streams /\ wire' \in Seq(Frames) /\ Follows' /\ Wired'
    BY <1>1, <1>3, Turns
  <1>5. TypeOK'
    BY <1>1, <1>3, <1>4 DEF TypeOK
  <1>6. Known'
    BY <1>1, <1>2, <1>3, <1>4 DEF Known
  <1>7. Apart'
    <2>1. opening # None /\ opening.id # None => opening.id # call.id
      <3>1. ASSUME opening # None, opening.id # None, opening.id = call.id
            PROVE  FALSE
        <4>1. OpeningApart /\ ~Shows(call.id) /\ call.id # saved
          BY <1>1, <3>1 DEF Apart, OpeningApart
        <4>2. opening.kind \in {"create", "get"}
          BY <3>1 DEF TypeOK, Openings
        <4>3. QED
          BY <1>1, <3>1, <4>1, <4>2 DEF OpeningApart
      <3>2. QED
        BY <3>1
    <2>2. opening # None /\ opening.id # None => ~Shows(opening.id)'
      BY <1>1, <1>2, <1>3, <1>4, <2>1 DEF Apart, OpeningApart, Shows
    <2>3. opening # None => OpeningApart'
      BY <1>1, <2>2 DEF Apart, OpeningApart
    <2>4. QED
      BY <1>1, <2>3 DEF Apart
  <1>8. TranscriptIsTrue'
    <2>1. CASE p.session = page.session
      BY <1>1, <1>3, <1>4, <2>1 DEF TranscriptIsTrue
    <2>2. CASE p.session = Shown(call)
      <3>1. p.session.id = saved => page.session # None /\ page.session.id = saved
        BY <1>1, <1>2, <2>2 DEF Apart, Shows
      <3>2. QED
        BY <1>1, <1>3, <1>4, <3>1 DEF TranscriptIsTrue
    <2>3. QED
      BY <1>3, <2>1, <2>2
  <1>9. QED
    BY <1>4, <1>5, <1>6, <1>7, <1>8

LEMMA CallFailsActs ==
    ASSUME PageInv, CallFails
    PROVE  PageInv'
  <1> USE DEF PageInv
  <1>1. /\ call' = None /\ page' = [page EXCEPT !.sending = FALSE, !.asking = FALSE]
        /\ UNCHANGED <<server, saved, opening, stream, wire>>
    BY DEF CallFails
  <1>2. page' \in Pages /\ page'.session = page.session /\ page'.events = page.events /\ page'.cursor = page.cursor
    BY <1>1, Marked
  <1>3. TypeOK'
    BY <1>1, <1>2 DEF TypeOK
  <1>4. Known' /\ Follows' /\ Wired' /\ TranscriptIsTrue'
    BY <1>1, <1>2 DEF Known, Follows, Wired, TranscriptIsTrue
  <1>5. OpeningApart => OpeningApart'
    BY <1>1, <1>2 DEF OpeningApart, Shows
  <1>6. QED
    BY <1>1, <1>3, <1>4, <1>5 DEF Apart
-----------------------------------------------------------------------------
(* Opening a session.                                                      *)

LEMMA LoadTyped ==
    ASSUME NEW id \in Sessions \cup {None}
    PROVE  /\ Load(id) \in Openings /\ Load(id) # None /\ Load(id).id = id /\ Load(id).phase = "sent"
           /\ Load(id).kind = IF id = None THEN "create" ELSE "get"
           /\ Load(id).shared => Load(id).kind = "create"
  <1>1. CASE id = None
    <2>1. Load(id) = Loading("create", None, TRUE)
      BY <1>1 DEF Load
    <2>2. /\ Loading("create", None, TRUE) \in Openings /\ Loading("create", None, TRUE).id = None
          /\ Loading("create", None, TRUE).phase = "sent" /\ Loading("create", None, TRUE).kind = "create"
      BY DEF Loading, Openings
    <2>3. QED
      BY <1>1, <2>1, <2>2, PageAssumption
  <1>2. CASE id # None
    <2>1. Load(id) = Loading("get", id, FALSE)
      BY <1>2 DEF Load
    <2>2. /\ Loading("get", id, FALSE) \in Openings /\ Loading("get", id, FALSE).id = id
          /\ Loading("get", id, FALSE).phase = "sent" /\ Loading("get", id, FALSE).kind = "get"
          /\ ~Loading("get", id, FALSE).shared
      BY DEF Loading, Openings
    <2>3. QED
      BY <1>2, <2>1, <2>2, PageAssumption
  <1>3. QED
    BY <1>1, <1>2

\* A new session has a number that nobody names yet.
LEMMA ServerOpensActs ==
    ASSUME PageInv, ServerOpens
    PROVE  PageInv'
  <1> USE DEF PageInv
  <1>1. /\ opening # None /\ opening.phase = "sent" /\ UNCHANGED <<page, saved, call, stream, wire>>
    BY DEF ServerOpens
  <1>2. opening \in Openings /\ OpeningApart /\ server \in [Sessions -> Records]
    BY <1>1 DEF TypeOK, Apart
  <1>3. CASE opening.kind = "get"
    <2>1. opening.id \in Sessions /\ server[opening.id] \in Records /\ server[opening.id].ver \in Nat
      BY <1>2, <1>3 DEF OpeningApart, Openings, Records
    <2>2. server' = server /\ opening' = [opening EXCEPT !.phase = "read", !.ver = server[opening.id].ver]
      BY <1>3 DEF ServerOpens
    <2>3. /\ opening' \in Openings /\ opening' # None /\ opening'.id = opening.id /\ opening'.kind = opening.kind
          /\ opening'.shared = opening.shared /\ opening'.phase = "read"
      BY <1>2, <2>1, <2>2, PageAssumption DEF Openings
    <2>4. TypeOK'
      BY <1>1, <2>2, <2>3 DEF TypeOK
    <2>5. Known' /\ Follows' /\ Wired' /\ TranscriptIsTrue'
      BY <1>1, <2>2, <2>3 DEF Known, Follows, Wired, TranscriptIsTrue
    <2>6. OpeningApart'
      BY <1>1, <1>2, <1>3, <2>1, <2>3, PageAssumption DEF OpeningApart, Shows
    <2>7. QED
      BY <1>1, <2>4, <2>5, <2>6 DEF Apart, Shows
  <1>4. CASE opening.kind # "get"
    <2>1. PICK s \in Fresh :
             /\ server' = [server EXCEPT ![s] = [made |-> TRUE, ver |-> 1, said |-> 0, busy |-> TRUE]]
             /\ opening' = [opening EXCEPT !.phase = "read", !.id = s, !.ver = 1]
      BY <1>4 DEF ServerOpens
    <2>2. s \in Sessions /\ ~server[s].made
      BY <2>1 DEF Fresh
    <2>3. [made |-> TRUE, ver |-> 1, said |-> 0, busy |-> TRUE] \in Records
          /\ [made |-> TRUE, ver |-> 1, said |-> 0, busy |-> TRUE].made
      BY DEF Records
    <2>4. Grows /\ server'[s].made
      BY <1>2, <2>1, <2>2, <2>3, Made
    <2>5. /\ opening' \in Openings /\ opening' # None /\ opening'.id = s /\ opening'.kind = "create"
          /\ opening'.phase = "read"
      <3>1. opening.kind = "create"
        BY <1>2, <1>4 DEF Openings
      <3>2. /\ opening' \in Openings /\ opening'.id = s /\ opening'.kind = "create" /\ opening'.phase = "read"
        BY <1>2, <2>1, <2>2, <3>1 DEF Openings
      <3>3. QED
        BY <3>2, PageAssumption
    <2>6. TypeOK'
      BY <1>1, <2>4, <2>5 DEF TypeOK, Grows
    <2>7. /\ page.session # None => page.session.id \in Sessions
          /\ call # None => call.id \in Sessions
          /\ saved # None => saved \in Sessions
      BY DEF TypeOK, Pages, Views, Calls
    <2>8. Known'
      BY <1>1, <2>4, <2>5, <2>7 DEF Known, Grows
    <2>9. Follows' /\ Wired' /\ TranscriptIsTrue'
      BY <1>1 DEF Follows, Wired, TranscriptIsTrue
    <2>10. ~Shows(s) /\ s # saved /\ (call # None => call.id # s)
      BY <2>2, PageAssumption DEF Known, Shows
    <2>11. OpeningApart'
      <3>1. s # None /\ ~Shows(s)' /\ s # saved' /\ (call' # None => call'.id # s)
        BY <1>1, <2>2, <2>10, PageAssumption DEF Shows
      <3>2. QED
        BY <2>5, <3>1 DEF OpeningApart
    <2>12. QED
      BY <1>1, <2>6, <2>8, <2>9, <2>11 DEF Apart, Shows
  <1>5. QED
    BY <1>3, <1>4

LEMMA OpeningReadsActs ==
    ASSUME PageInv, OpeningReads
    PROVE  PageInv'
  <1> USE DEF PageInv
  <1>1. /\ opening # None /\ opening.phase = "read" /\ UNCHANGED <<server, page, saved, call, stream, wire>>
    BY DEF OpeningReads
  <1>2. opening \in Openings /\ OpeningApart /\ server \in [Sessions -> Records]
    BY <1>1 DEF TypeOK, Apart
  <1>3. opening.id \in Sessions
    BY <1>1, <1>2 DEF OpeningApart, Openings
  <1>4. server[opening.id].said \in Nat /\ server[opening.id].busy \in BOOLEAN
    BY <1>2, <1>3 DEF Records
  <1>5. opening' = [opening EXCEPT !.phase = "answered", !.said = server[opening.id].said,
                                   !.busy = server[opening.id].busy]
    BY DEF OpeningReads
  <1>6. /\ opening' \in Openings /\ opening' # None /\ opening'.id = opening.id /\ opening'.kind = opening.kind
        /\ opening'.shared = opening.shared /\ opening'.phase = "answered"
    <2>1. opening' \in Openings
      BY <1>2, <1>4, <1>5 DEF Openings
    <2>2. /\ opening'.id = opening.id /\ opening'.kind = opening.kind
          /\ opening'.shared = opening.shared /\ opening'.phase = "answered"
      BY <1>2, <1>5 DEF Openings
    <2>3. QED
      BY <2>1, <2>2, PageAssumption
  <1>7. TypeOK'
    BY <1>1, <1>6 DEF TypeOK
  <1>8. Known' /\ Follows' /\ Wired' /\ TranscriptIsTrue'
    BY <1>1, <1>6 DEF Known, Follows, Wired, TranscriptIsTrue
  <1>9. OpeningApart'
    BY <1>1, <1>2, <1>3, <1>6, PageAssumption DEF OpeningApart, Shows
  <1>10. QED
    BY <1>1, <1>7, <1>8, <1>9 DEF Apart, Shows

\* What the page takes from an opened session: its last events, up to the cursor.
LEMMA OpensTrue ==
    ASSUME TypeOK, opening \in Openings, opening.id \in Sessions
    PROVE  LET p == Opens(opening) IN
           /\ p \in Pages /\ p.session \in Views /\ p.session.id = opening.id
           /\ \A i \in 1 .. Len(p.events) : p.events[i] = <<opening.id, p.cursor - Len(p.events) + i>>
  <1> DEFINE first == IF opening.said > Recent THEN opening.said - Recent ELSE 0
             n == opening.said - first
             events == [i \in 1 .. n |-> <<opening.id, first + i>>]
             p == Opens(opening)
  <1>1. opening.said \in Nat /\ first \in Nat /\ n \in Nat
    BY PageAssumption DEF Openings
  <1>2. Shown(opening) \in Views /\ Shown(opening).id = opening.id
    BY DEF Shown, Views, Openings
  <1>3. p = [page EXCEPT !.session = Shown(opening), !.cursor = opening.said, !.events = events]
    BY DEF Opens
  <1> HIDE DEF p, first
  <1>4. \A i \in 1 .. n : <<opening.id, first + i>> \in Sessions \X Nat
    BY <1>1
  <1>5. events \in Seq(Sessions \X Nat) /\ Len(events) = n
    <2>1. events \in [1 .. n -> Sessions \X Nat]
      BY <1>4
    <2>2. QED
      BY <1>1, <2>1
  <1>6. \A i \in 1 .. n : events[i] = <<opening.id, opening.said - n + i>>
    BY <1>1
  <1> HIDE DEF events, n
  <1>7. p \in Pages /\ p.session = Shown(opening) /\ p.cursor = opening.said /\ p.events = events
    BY <1>1, <1>2, <1>3, <1>5 DEF TypeOK, Pages
  <1>8. QED
    BY <1>2, <1>5, <1>6, <1>7 DEF p

LEMMA OpenedActs ==
    ASSUME PageInv, Opened
    PROVE  PageInv'
  <1> USE DEF PageInv
  <1> DEFINE p == Opens(opening)
  <1>1. /\ opening # None /\ opening.phase = "answered" /\ UNCHANGED <<server, call>>
        /\ Turn(p) /\ saved' = opening.id /\ opening' = None
    BY DEF Opened
  <1>2. opening \in Openings /\ OpeningApart /\ opening.id # None /\ opening.id \in Sessions
    BY <1>1 DEF TypeOK, Apart, OpeningApart, Openings
  <1>3. /\ p \in Pages /\ p.session \in Views /\ p.session.id = opening.id
        /\ \A i \in 1 .. Len(p.events) : p.events[i] = <<opening.id, p.cursor - Len(p.events) + i>>
    BY <1>2, OpensTrue
  <1> HIDE DEF p
  <1>4. p.session # None /\ Id(p) # Id(page)
    BY <1>2, <1>3, PageAssumption DEF OpeningApart, Shows, Id
  <1>5. /\ page' = p /\ stream' \in {None} \cup Streams /\ wire' \in Seq(Frames) /\ Follows' /\ Wired'
    BY <1>1, <1>3, <1>4, Turns
  <1>6. TypeOK'
    BY <1>1, <1>2, <1>3, <1>5 DEF TypeOK
  <1>7. Known'
    BY <1>1, <1>2, <1>3, <1>5 DEF Known
  <1>8. Apart'
    BY <1>1, <1>3, <1>4, <1>5 DEF Apart, Shows
  <1>9. TranscriptIsTrue'
    BY <1>1, <1>3, <1>5 DEF TranscriptIsTrue
  <1>10. QED
    BY <1>5, <1>6, <1>7, <1>8, <1>9

\* An opening that fails leaves none, or that of a new session.
LEMMA GivesUpApart ==
    ASSUME TypeOK
    PROVE  LET o == GivesUp(opening) IN
           o = None \/ (o \in Openings /\ o.id = None /\ o.kind = "create" /\ o.phase = "sent")
  BY DEF GivesUp, Loading, Openings

LEMMA OpeningFailsActs ==
    ASSUME PageInv, OpeningFails
    PROVE  PageInv'
  <1> USE DEF PageInv
  <1>1. /\ opening' = GivesUp(opening) /\ saved' \in {None, saved} /\ UNCHANGED <<server, page, call, stream, wire>>
    BY DEF OpeningFails
  <1>2. \/ opening' = None
        \/ opening' \in Openings /\ opening'.id = None /\ opening'.kind = "create" /\ opening'.phase = "sent"
    BY <1>1, GivesUpApart
  <1>3. TypeOK'
    BY <1>1, <1>2 DEF TypeOK
  <1>4. Known' /\ Follows' /\ Wired'
    BY <1>1, <1>2 DEF Known, Follows, Wired
  <1>5. /\ call # None => call.id \in Sessions
        /\ page.session # None => page.session.id \in Sessions
    BY DEF TypeOK, Calls, Pages, Views
  <1>6. Apart'
    BY <1>1, <1>2, <1>5, PageAssumption DEF Apart, OpeningApart, Shows
  <1>7. TranscriptIsTrue'
    BY <1>1, <1>5, PageAssumption DEF TranscriptIsTrue
  <1>8. QED
    BY <1>3, <1>4, <1>6, <1>7

LEMMA ReconnectActs ==
    ASSUME PageInv, Reconnect
    PROVE  PageInv'
  <1> USE DEF PageInv
  <1>1. page.session = None /\ opening' = Load(saved) /\ UNCHANGED <<server, page, saved, call, stream, wire>>
    BY DEF Reconnect
  <1>2. /\ opening' \in Openings /\ opening' # None /\ opening'.id = saved /\ opening'.phase = "sent"
        /\ opening'.kind = (IF saved = None THEN "create" ELSE "get")
        /\ opening'.shared => opening'.kind = "create"
    BY <1>1, LoadTyped DEF TypeOK
  <1>3. TypeOK'
    BY <1>1, <1>2 DEF TypeOK
  <1>4. Known' /\ Follows' /\ Wired' /\ TranscriptIsTrue'
    BY <1>1, <1>2 DEF Known, Follows, Wired, TranscriptIsTrue
  <1>5. OpeningApart'
    BY <1>1, <1>2 DEF OpeningApart, Shows
  <1>6. QED
    BY <1>1, <1>3, <1>4, <1>5 DEF Apart, Shows

LEMMA BlankTyped == Blank \in Pages /\ Blank.session = None
  <1>1. <<>> \in Seq(Sessions \X Nat)
    OBVIOUS
  <1>2. QED
    BY <1>1 DEF Blank, Pages

LEMMA StartOverActs ==
    ASSUME PageInv, StartOver
    PROVE  PageInv'
  <1> USE DEF PageInv
  <1> DEFINE p == [Blank EXCEPT !.sending = page.sending]
  <1>1. /\ saved' = None /\ Turn(p) /\ UNCHANGED <<server, call>>
        /\ opening' = (IF opening # None /\ opening.shared THEN opening ELSE Load(None))
    BY DEF StartOver
  <1>2. p \in Pages /\ p.session = None
    <2>1. page.sending \in BOOLEAN
      BY DEF TypeOK, Pages
    <2>2. QED
      BY <2>1, BlankTyped DEF Pages
  <1> HIDE DEF p
  <1>3. Id(p) = None
    BY <1>2 DEF Id
  <1>4. /\ page' = p /\ stream' \in {None} \cup Streams /\ wire' \in Seq(Frames) /\ Follows' /\ Wired'
    BY <1>1, <1>2, <1>3, Turns
  <1>5. /\ Load(None) \in Openings /\ Load(None) # None /\ Load(None).id = None /\ Load(None).phase = "sent"
        /\ Load(None).kind = "create"
    BY LoadTyped
  <1>6. TypeOK'
    BY <1>1, <1>2, <1>4, <1>5 DEF TypeOK
  <1>7. Known'
    BY <1>1, <1>2, <1>4, <1>5 DEF Known
  <1>8. Apart'
    <2>1. opening' # None => OpeningApart'
      BY <1>1, <1>2, <1>4, <1>5 DEF Apart, OpeningApart, Shows
    <2>2. call # None => call.id # None
      BY PageAssumption DEF TypeOK, Calls
    <2>3. QED
      BY <1>1, <2>1, <2>2 DEF Apart
  <1>9. TranscriptIsTrue'
    BY <1>2, <1>4 DEF TranscriptIsTrue
  <1>10. QED
    BY <1>4, <1>6, <1>7, <1>8, <1>9

LEMMA ReloadActs ==
    ASSUME PageInv, Reload
    PROVE  PageInv'
  <1> USE DEF PageInv
  <1>1. /\ page' = Blank /\ stream' = None /\ wire' = <<>> /\ call' = None /\ opening' = Load(saved)
        /\ UNCHANGED <<server, saved>>
    BY DEF Reload
  <1>2. /\ opening' \in Openings /\ opening' # None /\ opening'.id = saved /\ opening'.phase = "sent"
        /\ opening'.kind = (IF saved = None THEN "create" ELSE "get")
        /\ opening'.shared => opening'.kind = "create"
    BY <1>1, LoadTyped DEF TypeOK
  <1>3. page' \in Pages /\ page'.session = None /\ wire' \in Seq(Frames)
    BY <1>1, BlankTyped
  <1>4. TypeOK'
    BY <1>1, <1>2, <1>3 DEF TypeOK
  <1>5. Known' /\ Follows' /\ Wired' /\ TranscriptIsTrue'
    BY <1>1, <1>2, <1>3 DEF Known, Follows, Wired, TranscriptIsTrue
  <1>6. OpeningApart'
    BY <1>1, <1>2, <1>3 DEF OpeningApart, Shows
  <1>7. QED
    BY <1>1, <1>4, <1>5, <1>6 DEF Apart
-----------------------------------------------------------------------------
(* The stream.                                                             *)

\* The stream and the wire move while the page shows what it showed.
LEMMA StreamMoves ==
    ASSUME PageInv, UNCHANGED <<server, page, saved, opening, call>>, stream # None,
           stream' \in Streams, stream'.id = stream.id, stream'.from <= page.cursor, stream'.last <= page.cursor,
           wire' \in Seq(Frames), Complete(wire', stream'.after, page.cursor)
    PROVE  PageInv'
  <1> USE DEF PageInv
  <1>1. stream' # None
    BY PageAssumption
  <1>2. TypeOK'
    BY DEF TypeOK
  <1>3. Known' /\ TranscriptIsTrue'
    BY DEF Known, TranscriptIsTrue
  <1>4. Follows' /\ Wired'
    BY <1>1 DEF Follows, Wired
  <1>5. OpeningApart => OpeningApart'
    BY DEF OpeningApart, Shows
  <1>6. QED
    BY <1>2, <1>3, <1>4, <1>5 DEF Apart, Shows

LEMMA StreamReadsActs ==
    ASSUME PageInv, StreamReads
    PROVE  PageInv'
  <1> USE DEF PageInv
  <1> DEFINE s == server[stream.id]
             new == IF s.said > stream.after THEN s.said - stream.after ELSE 0
             x == [i \in 1 .. new |-> [kind |-> "event", seq |-> stream.after + i]]
  <1>1. /\ stream # None /\ stream \in Streams /\ stream.id \in Sessions /\ s \in Records /\ wire \in Seq(Frames)
        /\ stream.after \in Nat /\ page.cursor \in Nat
    BY DEF StreamReads, TypeOK, Streams, Pages
  <1>2. /\ wire' = wire \o x /\ UNCHANGED <<server, page, saved, opening, call>>
        /\ \E ph \in {"loop", "send"} :
              stream' = [stream EXCEPT !.after = @ + new, !.was = s.busy, !.phase = ph]
    BY DEF StreamReads
  <1>3. s.said \in Nat /\ s.busy \in BOOLEAN /\ new \in Nat
    BY <1>1 DEF Records
  <1> HIDE DEF s, new
  <1>4. /\ stream' \in Streams /\ stream'.id = stream.id /\ stream'.from = stream.from /\ stream'.last = stream.last
        /\ stream'.after = stream.after + new
    <2>1. PICK ph \in {"loop", "send"} :
             stream' = [stream EXCEPT !.after = stream.after + new, !.was = s.busy, !.phase = ph]
      BY <1>2
    <2>2. stream.after + new \in Nat
      BY <1>1, <1>3
    <2>3. QED
      BY <1>1, <1>3, <2>1, <2>2 DEF Streams
  <1>5. x \in Seq(Frames) /\ Len(x) = new
        /\ \A i \in 1 .. new : x[i].kind = "event" /\ x[i].seq = stream.after + i
    <2>1. \A i \in 1 .. new : [kind |-> "event", seq |-> stream.after + i] \in Frames
      BY <1>1, <1>3 DEF Frames
    <2>2. x \in [1 .. new -> Frames]
      BY <2>1
    <2>3. QED
      BY <1>3, <2>2
  <1> HIDE DEF x
  <1>6. Complete(wire, stream.after, page.cursor)
    BY <1>1 DEF Wired
  <1>7. Complete(wire \o x, stream.after + new, page.cursor)
    <2>1. \A i \in 1 .. Len(x) : x[i].kind = "event" => i <= new /\ x[i].seq = stream.after + i
      BY <1>3, <1>5
    <2>2. \A i \in 1 .. new : i <= Len(x) /\ x[i].kind = "event"
      BY <1>3, <1>5
    <2>3. QED
      BY <1>1, <1>3, <1>5, <1>6, <2>1, <2>2, MoreFrames
  <1>8. wire' \in Seq(Frames)
    BY <1>1, <1>2, <1>5, ConcatProperties
  <1>9. QED
    BY <1>1, <1>2, <1>4, <1>7, <1>8, StreamMoves DEF Follows

\* A frame that is no event goes behind the others.
LEMMA OneMore ==
    ASSUME NEW w \in Seq(Frames), NEW f \in Frames, f.kind # "event", NEW after \in Nat, NEW cursor \in Nat,
           Complete(w, after, cursor)
    PROVE  Append(w, f) \in Seq(Frames) /\ Complete(Append(w, f), after, cursor)
  <1>1. Append(w, f) = w \o <<f>> /\ <<f>> \in Seq(Frames) /\ Len(<<f>>) = 1 /\ <<f>>[1] = f
    OBVIOUS
  <1> DEFINE x == <<f>>
  <1>2. x \in Seq(Frames) /\ \A i \in 1 .. Len(x) : x[i].kind # "event"
    BY <1>1
  <1> HIDE DEF x
  <1>3. Complete(w \o x, after + 0, cursor)
    <2>1. \A i \in 1 .. Len(x) : x[i].kind = "event" => i <= 0 /\ x[i].seq = after + i
      BY <1>2
    <2>2. \A i \in 1 .. 0 : i <= Len(x) /\ x[i].kind = "event"
      OBVIOUS
    <2>3. QED
      BY <1>2, <2>1, <2>2, MoreFrames
  <1>4. after + 0 = after
    OBVIOUS
  <1>5. QED
    BY <1>1, <1>3, <1>4 DEF x

LEMMA StreamSendsActs ==
    ASSUME PageInv, StreamSends \/ StreamEnds
    PROVE  PageInv'
  <1> USE DEF PageInv
  <1>1. /\ stream # None /\ stream \in Streams /\ stream.id \in Sessions /\ server[stream.id] \in Records
        /\ wire \in Seq(Frames) /\ stream.after \in Nat /\ page.cursor \in Nat
    BY DEF StreamSends, StreamEnds, TypeOK, Streams, Pages
  <1>2. UNCHANGED <<server, page, saved, opening, call>>
    BY DEF StreamSends, StreamEnds
  <1>3. PICK ph \in {"loop", "ended"} : stream' = [stream EXCEPT !.phase = ph]
    BY DEF StreamSends, StreamEnds
  <1>4. /\ stream' \in Streams /\ stream'.id = stream.id /\ stream'.from = stream.from /\ stream'.last = stream.last
        /\ stream'.after = stream.after
    BY <1>1, <1>3 DEF Streams
  <1>5. PICK f \in Frames : f.kind # "event" /\ wire' = Append(wire, f)
    <2>1. CASE StreamSends
      <3>1. server[stream.id].ver \in Nat /\ server[stream.id].busy \in BOOLEAN
        BY <1>1 DEF Records
      <3>2. [kind |-> "state", ver |-> server[stream.id].ver, busy |-> server[stream.id].busy] \in Frames
        BY <3>1 DEF Frames
      <3>3. wire' = Append(wire, [kind |-> "state", ver |-> server[stream.id].ver, busy |-> server[stream.id].busy])
        BY <2>1 DEF StreamSends
      <3>4. QED
        BY <3>2, <3>3
    <2>2. CASE StreamEnds
      <3>1. [kind |-> "end"] \in Frames
        BY DEF Frames
      <3>2. QED
        BY <2>2, <3>1 DEF StreamEnds
    <2>3. QED
      BY <2>1, <2>2
  <1>6. Complete(wire, stream.after, page.cursor)
    BY <1>1 DEF Wired
  <1>7. wire' \in Seq(Frames) /\ Complete(wire', stream.after, page.cursor)
    BY <1>1, <1>5, <1>6, OneMore
  <1>8. QED
    BY <1>1, <1>2, <1>4, <1>7, StreamMoves DEF Follows

\* A stream that begins again asks for what comes after the last event the browser saw.
LEMMA AgainFollows ==
    ASSUME PageInv, stream # None
    PROVE  /\ Again(stream) \in Streams /\ Again(stream).id = stream.id
           /\ Again(stream).from <= page.cursor /\ Again(stream).last <= page.cursor
           /\ <<>> \in Seq(Frames) /\ Complete(<<>>, Again(stream).after, page.cursor)
  <1> USE DEF PageInv
  <1>1. stream \in Streams /\ page.cursor \in Nat
    BY DEF TypeOK, Pages
  <1>2. /\ Again(stream) \in Streams /\ Again(stream).id = stream.id /\ Again(stream).last = stream.last
        /\ Again(stream).from = stream.from /\ Again(stream).after \in {stream.from, stream.last}
        /\ Again(stream).after \in Nat
    BY <1>1, AgainTyped
  <1>3. /\ Again(stream).from <= page.cursor /\ Again(stream).last <= page.cursor
        /\ Again(stream).after <= page.cursor
    BY <1>2 DEF Follows
  <1>4. QED
    BY <1>1, <1>2, <1>3, NothingLacks

LEMMA StreamBreaksActs ==
    ASSUME PageInv, StreamBreaks
    PROVE  PageInv'
  <1>1. /\ stream # None /\ wire' = <<>> /\ stream' = Again(stream)
        /\ UNCHANGED <<server, page, saved, opening, call>>
    BY DEF StreamBreaks
  <1>2. QED
    BY <1>1, AgainFollows, StreamMoves

LEMMA OneFurther ==
    ASSUME NEW c \in Nat, NEW n \in Nat, NEW d, NEW m, NEW i, d = c + 1, m = n + 1, i \in 1 .. m
    PROVE  d - m + i = c - n + i /\ i \in Nat
  OBVIOUS

\* The page stays with its session; it takes an event only if it is the next one.
LEMMA Takes ==
    ASSUME PageInv, UNCHANGED <<server, saved, opening, call>>, stream # None,
           stream' \in Streams, stream'.id = stream.id, stream'.from <= page'.cursor, stream'.last <= page'.cursor,
           wire' \in Seq(Frames), Complete(wire', stream'.after, page'.cursor),
           page' \in Pages, page'.session # None, page'.session.id = page.session.id,
           \/ page'.events = page.events /\ page'.cursor = page.cursor
           \/ page'.cursor = page.cursor + 1 /\ page'.events = Append(page.events, <<stream.id, page.cursor + 1>>)
    PROVE  PageInv'
  <1> USE DEF PageInv
  <1>1. stream' # None /\ page.session # None /\ stream.id = page.session.id
    BY PageAssumption DEF Follows
  <1>2. TypeOK'
    BY DEF TypeOK
  <1>3. Known'
    BY <1>1 DEF Known
  <1>4. Follows' /\ Wired'
    BY <1>1 DEF Follows, Wired
  <1>5. OpeningApart => OpeningApart'
    BY <1>1 DEF OpeningApart, Shows
  <1>6. Apart'
    BY <1>1, <1>5 DEF Apart, Shows
  <1>7. TranscriptIsTrue'
    <2>1. CASE page'.events = page.events /\ page'.cursor = page.cursor
      BY <1>1, <2>1 DEF TranscriptIsTrue
    <2>2. CASE page'.cursor = page.cursor + 1 /\ page'.events = Append(page.events, <<stream.id, page.cursor + 1>>)
      <3> SUFFICES ASSUME page.session.id = saved, NEW i \in 1 .. Len(page'.events)
                   PROVE  page'.events[i] = <<saved, page'.cursor - Len(page'.events) + i>>
        BY DEF TranscriptIsTrue
      <3>1. page.events \in Seq(Sessions \X Nat) /\ Len(page.events) \in Nat /\ page.cursor \in Nat
        BY DEF TypeOK, Pages
      <3>2. /\ Len(page'.events) = Len(page.events) + 1
            /\ page'.events[Len(page.events) + 1] = <<saved, page.cursor + 1>>
            /\ \A k \in 1 .. Len(page.events) : page'.events[k] = page.events[k]
        BY <1>1, <2>2, <3>1
      <3>3. \A k \in 1 .. Len(page.events) : page.events[k] = <<saved, page.cursor - Len(page.events) + k>>
        BY <1>1 DEF TranscriptIsTrue
      <3>4. page'.cursor - Len(page'.events) + i = page.cursor - Len(page.events) + i /\ i \in Nat
        <4>1. page'.cursor = page.cursor + 1 /\ Len(page'.events) = Len(page.events) + 1
          BY <2>2, <3>2
        <4>2. QED
          BY <3>1, <4>1, OneFurther
      <3>5. CASE i = Len(page.events) + 1
        <4>1. page.cursor - Len(page.events) + i = page.cursor + 1
          BY <3>1, <3>5
        <4>2. QED
          BY <3>2, <3>4, <3>5, <4>1
      <3>6. CASE i # Len(page.events) + 1
        <4>1. i \in 1 .. Len(page.events)
          BY <3>1, <3>2, <3>6
        <4>2. QED
          BY <3>2, <3>3, <3>4, <4>1
      <3>7. QED
        BY <3>5, <3>6
    <2>3. QED
      BY <2>1, <2>2
  <1>8. QED
    BY <1>2, <1>3, <1>4, <1>6, <1>7

LEMMA DeliverActs ==
    ASSUME PageInv, Deliver
    PROVE  PageInv'
  <1> USE DEF PageInv
  <1> DEFINE f == Head(wire)
  <1>1. /\ wire # <<>> /\ wire \in Seq(Frames) /\ UNCHANGED <<server, saved, opening, call>>
        /\ page \in Pages /\ page.cursor \in Nat
    BY DEF Deliver, TypeOK, Pages
  <1>2. /\ stream # None /\ stream \in Streams /\ stream.id \in Sessions /\ stream.after \in Nat
        /\ page.session # None /\ stream.id = page.session.id
        /\ stream.from <= page.cursor /\ stream.last <= page.cursor
        /\ stream.from \in Nat /\ stream.last \in Nat
    BY <1>1 DEF TypeOK, Follows, Streams
  <1>3. Complete(wire, stream.after, page.cursor)
    BY <1>2 DEF Wired
  <1>4. f \in Frames /\ f = wire[1] /\ Tail(wire) \in Seq(Frames)
    BY <1>1, HeadTailProperties
  <1>5. /\ wire' = IF f.kind = "end" THEN <<>> ELSE Tail(wire)
        /\ stream' = CASE f.kind = "end" -> Again(stream)
                       [] f.kind = "event" -> [stream EXCEPT !.last = f.seq]
                       [] OTHER -> stream
        /\ page' = CASE f.kind = "event" /\ f.seq > page.cursor ->
                             [page EXCEPT !.cursor = f.seq, !.events = Append(@, <<stream.id, f.seq>>)]
                     [] f.kind = "state" -> [page EXCEPT !.session = [id |-> stream.id, ver |-> f.ver, busy |-> f.busy]]
                     [] OTHER -> page
    BY DEF Deliver
  <1> HIDE DEF f
  <1>6. CASE f.kind = "end"
    <2>1. wire' = <<>> /\ stream' = Again(stream) /\ page' = page
      BY <1>5, <1>6
    <2>2. QED
      BY <1>1, <1>2, <2>1, AgainFollows, Takes
  <1>7. CASE f.kind = "state"
    <2>1. /\ wire' = Tail(wire) /\ stream' = stream
          /\ page' = [page EXCEPT !.session = [id |-> stream.id, ver |-> f.ver, busy |-> f.busy]]
      BY <1>5, <1>7
    <2>2. f.ver \in Nat /\ f.busy \in BOOLEAN
      BY <1>4, <1>7 DEF Frames
    <2>3. [id |-> stream.id, ver |-> f.ver, busy |-> f.busy] \in Views
      BY <1>2, <2>2 DEF Views
    <2>4. /\ page' \in Pages /\ page'.session # None /\ page'.session.id = page.session.id
          /\ page'.events = page.events /\ page'.cursor = page.cursor
      BY <1>1, <1>2, <2>1, <2>3, PageAssumption DEF Pages
    <2>5. Complete(wire', stream'.after, page'.cursor)
      BY <1>1, <1>2, <1>3, <1>4, <1>7, <2>1, <2>4, FewerFrames
    <2>6. QED
      BY <1>1, <1>2, <1>4, <2>1, <2>4, <2>5, Takes
  <1>8. CASE f.kind = "event"
    <2>1. wire' = Tail(wire) /\ stream' = [stream EXCEPT !.last = f.seq]
      BY <1>5, <1>8
    <2>2. f.seq \in Nat /\ f.seq <= page.cursor + 1
      BY <1>1, <1>2, <1>3, <1>4, <1>8, NextEvent
    <2>3. /\ stream' \in Streams /\ stream'.id = stream.id /\ stream'.from = stream.from
          /\ stream'.last = f.seq /\ stream'.after = stream.after
      BY <1>2, <2>1, <2>2 DEF Streams
    <2>4. CASE f.seq > page.cursor
      <3>1. f.seq = page.cursor + 1
        BY <1>1, <2>2, <2>4
      <3>2. page' = [page EXCEPT !.cursor = f.seq, !.events = Append(@, <<stream.id, f.seq>>)]
        BY <1>5, <1>8, <2>4
      <3>3. /\ page' \in Pages /\ page'.session = page.session /\ page'.cursor = page.cursor + 1
            /\ page'.events = Append(page.events, <<stream.id, page.cursor + 1>>)
        <4>1. page.events \in Seq(Sessions \X Nat) /\ <<stream.id, f.seq>> \in Sessions \X Nat
          BY <1>1, <1>2, <2>2 DEF Pages
        <4>2. Append(page.events, <<stream.id, f.seq>>) \in Seq(Sessions \X Nat)
          BY <4>1
        <4>3. QED
          BY <1>1, <2>2, <3>1, <3>2, <4>2 DEF Pages
      <3>4. Complete(wire', stream'.after, page'.cursor)
        BY <1>1, <1>2, <1>3, <1>4, <2>1, <2>2, <2>3, <3>1, <3>3, FewerFrames
      <3>5. stream'.from <= page'.cursor /\ stream'.last <= page'.cursor
        BY <1>1, <1>2, <2>3, <3>1, <3>3
      <3>6. QED
        BY <1>1, <1>2, <1>4, <2>1, <2>3, <3>3, <3>4, <3>5, Takes
    <2>5. CASE ~(f.seq > page.cursor)
      <3>1. page' = page /\ f.seq <= page.cursor
        BY <1>1, <1>5, <1>8, <2>2, <2>5
      <3>2. Complete(wire', stream'.after, page'.cursor)
        BY <1>1, <1>2, <1>3, <1>4, <2>1, <2>3, <3>1, FewerFrames
      <3>3. QED
        BY <1>1, <1>2, <1>4, <2>1, <2>3, <3>1, <3>2, Takes
    <2>6. QED
      BY <2>4, <2>5
  <1>9. QED
    BY <1>4, <1>6, <1>7, <1>8 DEF Frames

LEMMA RestartsActs ==
    ASSUME PageInv, Restarts
    PROVE  PageInv'
  <1> USE DEF PageInv
  <1>1. /\ server' = [s \in Sessions |-> [server[s] EXCEPT !.busy = FALSE]]
        /\ call' = None /\ page' = [page EXCEPT !.sending = FALSE, !.asking = FALSE]
        /\ opening' = GivesUp(opening) /\ saved' \in {None, saved}
        /\ wire' = <<>> /\ stream' = IF stream = None THEN None ELSE Again(stream)
    BY DEF Restarts
  <1>2. Grows
    <2>1. \A s \in Sessions : /\ [server[s] EXCEPT !.busy = FALSE] \in Records
                              /\ [server[s] EXCEPT !.busy = FALSE].made = server[s].made
      BY DEF TypeOK, Records
    <2>2. QED
      BY <1>1, <2>1 DEF Grows
  <1>3. page' \in Pages /\ page'.session = page.session /\ page'.events = page.events /\ page'.cursor = page.cursor
    BY <1>1, Marked
  <1>4. \/ opening' = None
        \/ opening' \in Openings /\ opening'.id = None /\ opening'.kind = "create" /\ opening'.phase = "sent"
    BY <1>1, GivesUpApart
  <1>5. /\ page.session # None => page.session.id \in Sessions
        /\ saved # None => saved \in Sessions
    BY DEF TypeOK, Pages, Views
  <1>6. TypeOK' /\ Follows' /\ Wired'
    <2>1. CASE stream = None
      BY <1>1, <1>2, <1>3, <1>4, <2>1 DEF TypeOK, Follows, Wired, Grows
    <2>2. CASE stream # None
      <3>1. /\ stream' = Again(stream) /\ stream' \in Streams /\ stream'.id = stream.id
            /\ stream'.from <= page.cursor /\ stream'.last <= page.cursor
            /\ wire' \in Seq(Frames) /\ Complete(wire', stream'.after, page.cursor)
        BY <1>1, <2>2, AgainFollows
      <3>2. QED
        BY <1>1, <1>2, <1>3, <1>4, <2>2, <3>1, PageAssumption DEF TypeOK, Follows, Wired, Grows
    <2>3. QED
      BY <2>1, <2>2
  <1>7. Known'
    BY <1>1, <1>2, <1>3, <1>4, <1>5 DEF Known, Grows
  <1>8. Apart'
    BY <1>1, <1>3, <1>4 DEF Apart, OpeningApart, Shows
  <1>9. TranscriptIsTrue'
    BY <1>1, <1>3, <1>5, PageAssumption DEF TranscriptIsTrue
  <1>10. QED
    BY <1>6, <1>7, <1>8, <1>9
-----------------------------------------------------------------------------
(* The theorem.                                                            *)

LEMMA PageInit == Init => PageInv
  <1> SUFFICES ASSUME Init PROVE PageInv
    OBVIOUS
  <1>1. server \in [Sessions -> Records]
    BY DEF Init, Records
  <1>2. page \in Pages /\ page.session = None
    BY BlankTyped DEF Init
  <1>3. /\ opening \in Openings /\ opening.id = None /\ opening.kind = "create" /\ opening.phase = "sent"
    BY LoadTyped DEF Init
  <1>4. TypeOK
    BY <1>1, <1>2, <1>3 DEF Init, TypeOK
  <1>5. Follows /\ Known /\ Apart /\ Wired /\ TranscriptIsTrue
    BY <1>2, <1>3 DEF Init, Follows, Known, Apart, OpeningApart, Wired, TranscriptIsTrue
  <1>6. QED
    BY <1>4, <1>5 DEF PageInv

LEMMA PageStep == PageInv /\ [Next]_vars => PageInv'
  <1> SUFFICES ASSUME PageInv, [Next]_vars PROVE PageInv'
    OBVIOUS
  <1>1. CASE Opening
    BY <1>1, ServerOpensActs, OpeningReadsActs, OpenedActs DEF Opening
  <1>2. CASE OpeningFails \/ Reconnect
    BY <1>2, OpeningFailsActs, ReconnectActs
  <1>3. CASE Send \/ Calling \/ CallFails
    BY <1>3, SendActs, CallActs, RespondsActs, CallFailsActs DEF Calling
  <1>4. CASE StartOver \/ Reload
    BY <1>4, StartOverActs, ReloadActs
  <1>5. CASE \E s \in Sessions : TurnSaves(s) \/ TurnSays(s) \/ TurnEnds(s) \/ Checks(s)
    BY <1>5, ServerActs
  <1>6. CASE Streaming \/ StreamEnds \/ StreamBreaks
    BY <1>6, StreamReadsActs, StreamSendsActs, StreamBreaksActs DEF Streaming
  <1>7. CASE Deliver \/ Restarts
    BY <1>7, DeliverActs, RestartsActs
  <1>8. CASE UNCHANGED vars
    <2>1. Grows
      BY <1>8 DEF vars, Grows, PageInv, TypeOK
    <2>2. QED
      BY <1>8, <2>1, Quiet DEF vars
  <1>9. QED
    BY <1>1, <1>2, <1>3, <1>4, <1>5, <1>6, <1>7, <1>8 DEF Next

\* While the page shows the session it keeps, its transcript is an unbroken run of that session's
\* events up to the cursor, for any number of sessions, inputs, reloads, failures and restarts, and
\* any length of the wire (App.tsx, subscribe; agent_routes.py, _stream).
THEOREM TranscriptIsAlwaysTrue == Spec => []TranscriptIsTrue
  <1>1. PageInv => TranscriptIsTrue
    BY DEF PageInv
  <1>2. QED
    BY <1>1, PageInit, PageStep, PTL DEF Spec
=============================================================================
