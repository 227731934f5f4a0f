------------------------------ MODULE SiteGate ------------------------------
(***************************************************************************)
(* The site password (openepw/api/site_gate.py): a signed cookie with an   *)
(* expiry, and a limit on wrong passwords per client and window of time.   *)
(* A request is handled in one step: its checks run without an await.      *)
(***************************************************************************)
EXTENDS Naturals, Sequences, SequencesExt, FiniteSets

CONSTANTS Clients,
          Passwords,    \* what may be the site's password, and be typed
          Attempts, Window, Lifetime,  \* ATTEMPTS, WINDOW, LIFETIME
          EndOfTime     \* bound on time

VARIABLES now,
          password,     \* of the running server
          failures,     \* per client, the times of wrong passwords
          cookie,       \* per client, a set of at most one <<password it is signed with, expires>>
          served,       \* the client whose request was let through last; a set of at most one
          wrong,        \* history: per client, the wrong passwords compared since the last right
                        \* one or restart
          proved        \* history: per client and password, when it was last typed; a set

vars == <<now, password, failures, cookie, served, wrong, proved>>

Times == 0..EndOfTime

Init ==
    /\ now = 0
    /\ password = CHOOSE p \in Passwords : TRUE
    /\ failures = [c \in Clients |-> <<>>] /\ wrong = [c \in Clients |-> <<>>]
    /\ cookie = [c \in Clients |-> {}]
    /\ served = {}
    /\ proved = [c \in Clients |-> {}]
-----------------------------------------------------------------------------
\* Wrong passwords of the window, which alone are kept (faulty: the window of the first one).
RecentFirst(c) ==
    IF failures[c] # <<>> /\ now - Head(failures[c]) < Window THEN failures[c] ELSE <<>>
Recent(c) == SelectSeq(failures[c], LAMBDA t : now - t < Window)
Blocked(c) == Len(Recent(c)) >= Attempts

\* An expiry that is still to come and was signed with this password.
Valid(c) == \E k \in cookie[c] : k[1] = password /\ k[2] > now

\* POST /login: refused without a comparison, compared and wrong, or right.
TooMany(c) ==
    /\ Blocked(c)
    /\ failures' = [failures EXCEPT ![c] = Recent(c)]
    /\ served' = {}
    /\ UNCHANGED <<now, password, cookie, wrong, proved>>
Wrong(c) ==
    /\ ~Blocked(c)
    /\ failures' = [failures EXCEPT ![c] = Append(Recent(c), now)]
    /\ wrong' = [wrong EXCEPT ![c] = Append(@, now)]
    /\ served' = {}
    /\ UNCHANGED <<now, password, cookie, proved>>
Right(c) ==
    /\ ~Blocked(c)
    /\ failures' = [failures EXCEPT ![c] = <<>>] /\ wrong' = [wrong EXCEPT ![c] = <<>>]
    /\ cookie' = [cookie EXCEPT ![c] = {<<password, now + Lifetime>>}]
    /\ proved' = [proved EXCEPT ![c] = {q \in @ : q[1] # password} \cup {<<password, now>>}]
    /\ served' = {}
    /\ UNCHANGED <<now, password>>

\* Any other path: served, or sent to the login page (401 for the API).
Serve(c) == Valid(c) /\ served' = {c} /\ UNCHANGED <<now, password, failures, cookie, wrong, proved>>
Refuse(c) == ~Valid(c) /\ served' = {} /\ UNCHANGED <<now, password, failures, cookie, wrong, proved>>
Logout(c) ==
    /\ cookie' = [cookie EXCEPT ![c] = {}] /\ served' = {}
    /\ UNCHANGED <<now, password, failures, wrong, proved>>

Tick == now < EndOfTime /\ now' = now + 1 /\ served' = {}
        /\ UNCHANGED <<password, failures, cookie, wrong, proved>>
\* A restart, perhaps with another password, forgets the failures and keeps browsers' cookies.
Restart ==
    /\ password' \in Passwords
    /\ failures' = [c \in Clients |-> <<>>] /\ wrong' = [c \in Clients |-> <<>>]
    /\ served' = {}
    /\ UNCHANGED <<now, cookie, proved>>

Next ==
    \/ Tick \/ Restart
    \/ \E c \in Clients :
          TooMany(c) \/ Wrong(c) \/ Right(c) \/ Serve(c) \/ Refuse(c) \/ Logout(c)

Spec == Init /\ [][Next]_vars
-----------------------------------------------------------------------------
\* "Wrong passwords per address and window before refusing": whichever stretch of Window
\* seconds one looks at, no more than Attempts guesses of a client are compared in it; and who
\* is served has typed the password in force within the cookie's lifetime.
GateHolds ==
    /\ \A c \in Clients : \A t \in Times :
          Cardinality({i \in DOMAIN wrong[c] : wrong[c][i] \in t..(t + Window - 1)}) <= Attempts
    /\ \A c \in served : \E q \in proved[c] : q[1] = password /\ now < q[2] + Lifetime
=============================================================================
