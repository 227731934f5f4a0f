---------------------------- MODULE UsageLimits ----------------------------
(***************************************************************************)
(* What one person may use of the web chat (openepw/agent/web.py): inputs  *)
(* in a sliding window (WebStore.hit) and money for model calls            *)
(* (SpendGuard), asked for by sessions whose turns run at the same time.   *)
(* A session has one turn, and a turn one call, at a time.                 *)
(***************************************************************************)
EXTENDS Naturals, FiniteSets, FiniteSetsExt

CONSTANTS Sessions, Owner,      \* sessions and whose they are
          Limit, Span, Kept,    \* of hit: limit, window, and how long hits are kept
          SessionCap, PersonCap, TotalCap,  \* of the spend
          Costs,                \* what a model call may cost
          Day, LastTime,        \* seconds of a day; bound on time
          MaxHits, MaxCalls     \* bounds

VARIABLES clock,
          hits,        \* uses that were recorded: [session, at, n]
          stamp,       \* the time each session's request took before its transaction; a set
          spend,       \* [session, day, usd, n]
          call,        \* per session: "idle", "person", "total" (checks to come), "paid"
          calls,
          accepted,    \* history: hits, never deleted
          charged      \* history: what the model's provider charged

vars == <<clock, hits, stamp, spend, call, calls, accepted, charged>>
Times == 0..LastTime
Today == clock \div Day
People == {Owner[s] : s \in Sessions}

Init ==
    /\ clock = 0 /\ hits = {} /\ accepted = {} /\ spend = {} /\ charged = {} /\ calls = 0
    /\ stamp = [s \in Sessions |-> {}]
    /\ call = [s \in Sessions |-> "idle"]
-----------------------------------------------------------------------------
\* hit reads the clock, then waits for the write lock of the database.
Stamp(s) ==
    /\ stamp[s] = {} /\ stamp' = [stamp EXCEPT ![s] = {clock}]
    /\ Cardinality(accepted) < MaxHits
    /\ UNCHANGED <<clock, hits, spend, call, calls, accepted, charged>>

\* The uses of the window up to then, and any later ones.
Used(person, at) == {h \in hits : Owner[h.session] = person /\ h.at + Span >= at}
Hit(s) ==
    \E at \in stamp[s] :
        LET kept == {h \in hits : h.at + Kept >= at}
            new == [session |-> s, at |-> at, n |-> Cardinality(accepted)] IN
        /\ stamp' = [stamp EXCEPT ![s] = {}]
        /\ IF Cardinality(Used(Owner[s], at) \cap kept) >= Limit
           THEN hits' = kept /\ UNCHANGED accepted
           ELSE hits' = kept \cup {new} /\ accepted' = accepted \cup {new}
        /\ UNCHANGED <<clock, spend, charged, call, calls>>
-----------------------------------------------------------------------------
Total(S) == MapThenSumSet(LAMBDA r : r.usd, S)
OfSession(L, s) == {r \in L : r.session = s}
OfPerson(L, p, d) == {r \in L : Owner[r.session] = p /\ r.day = d}
OfDay(L, d) == {r \in L : r.day = d}
Goto(s, from, to) == call[s] = from /\ call' = [call EXCEPT ![s] = to]

\* stopped: three sums, each read in a transaction of its own; a cap that is reached ends the
\* turn with ModelUnavailable.
CheckSession(s) ==
    /\ calls < MaxCalls /\ calls' = calls + 1
    /\ Total(OfSession(spend, s)) < SessionCap /\ Goto(s, "idle", "person")
    /\ UNCHANGED <<clock, hits, stamp, spend, accepted, charged>>
CheckPerson(s) ==
    /\ Goto(s, "person", IF Total(OfPerson(spend, Owner[s], Today)) < PersonCap THEN "total" ELSE "idle")
    /\ UNCHANGED <<clock, hits, stamp, spend, calls, accepted, charged>>
CheckTotal(s) ==
    /\ Goto(s, "total", IF Total(OfDay(spend, Today)) < TotalCap THEN "paid" ELSE "idle")
    /\ UNCHANGED <<clock, hits, stamp, spend, calls, accepted, charged>>

\* The call ended, with a reply or not: its cost counts for the day it ended (faulty: only
\* that of a reply).
Charge(s, usd) == [session |-> s, day |-> Today, usd |-> usd, n |-> Cardinality(charged)]
RecordReplies(s) ==
    /\ Goto(s, "paid", "idle")
    /\ \E usd \in Costs \ {0} : \E reply \in BOOLEAN :
          /\ charged' = charged \cup {Charge(s, usd)}
          /\ spend' = IF reply THEN spend \cup {Charge(s, usd)} ELSE spend
    /\ UNCHANGED <<clock, hits, stamp, calls, accepted>>
Record(s) ==
    /\ Goto(s, "paid", "idle")
    /\ \E usd \in Costs :
          /\ charged' = IF usd = 0 THEN charged ELSE charged \cup {Charge(s, usd)}
          /\ spend' = IF usd = 0 THEN spend ELSE spend \cup {Charge(s, usd)}
    /\ UNCHANGED <<clock, hits, stamp, calls, accepted>>

Tick == clock < LastTime /\ clock' = clock + 1 /\ UNCHANGED <<hits, stamp, spend, call, calls, accepted, charged>>

Next ==
    \/ Tick
    \/ \E s \in Sessions :
          Stamp(s) \/ Hit(s) \/ CheckSession(s) \/ CheckPerson(s) \/ CheckTotal(s) \/ Record(s)

Spec == Init /\ [][Next]_vars
-----------------------------------------------------------------------------
\* Part of UseIsLimited.  "Record one use unless limit uses already fall inside window seconds": no stretch of the
\* window's length holds more than Limit uses of a person, although requests may wait for the
\* database between reading the clock and recording, and old uses are deleted.
UsesAreLimited ==
    \A p \in People : \A t \in Times :
        Cardinality({h \in accepted : Owner[h.session] = p /\ h.at \in t..(t + Span)}) <= Limit

Dearest == Max(Costs)
Overdraft(cap, n) == cap + n * Dearest - 1

\* Part of UseIsLimited.  "A model port that stops at the profile's spend caps": a cap can be passed by the calls that
\* were under way when it was reached, one for each session, and by no more.
SpendStops ==
    /\ \A s \in Sessions : Total(OfSession(charged, s)) <= Overdraft(SessionCap, 1)
    /\ \A d \in 0..(LastTime \div Day) :
          /\ Total(OfDay(charged, d)) <= Overdraft(TotalCap, Cardinality(Sessions))
          /\ \A p \in People : Total(OfPerson(charged, p, d)) <=
                Overdraft(PersonCap, Cardinality({s \in Sessions : Owner[s] = p}))

\* Both limits on the use of the model, of a person's requests and of what they cost.
UseIsLimited == UsesAreLimited /\ SpendStops
=============================================================================
