----------------------------- MODULE PointCache -----------------------------
(***************************************************************************)
(* The answers for the map's hover card (catalog_point of                  *)
(* openepw/api/app.py): a dictionary shared by the request threads, without *)
(* a lock, that remembers the generation it was filled from.  Every access *)
(* to it is a step of its own.                                             *)
(***************************************************************************)
EXTENDS Naturals, FiniteSets

CONSTANTS Points,        \* keys: place and years
          Callers,       \* request threads
          Capacity,      \* entries, beyond which the cache is emptied (4096 in the code)
          MaxGeneration, MaxCalls

VARIABLES generation,    \* the active generation
          cached,        \* the cache's own "generation"; 0 before the first
          cache,         \* the keys and the generation each answer was computed from
          at, key, seen, \* each request's place, its key, the generation it read
          answer,        \* what it computed, then what it returns; 0 for a KeyError
          straddled,     \* history: generations activated while a request was under way
          met,           \* history: requests that were under way together with another
          calls

vars == <<generation, cached, cache, at, key, seen, answer, straddled, met, calls>>
locals == <<key, seen, answer>>
history == <<straddled, met>>
Generations == 1..MaxGeneration
Entries == [point : Points, of : Generations]

Init ==
    /\ generation = 1 /\ cached = 0 /\ cache = {}
    /\ at = [c \in Callers |-> "idle"]
    /\ key \in [Callers -> Points]
    /\ seen = [c \in Callers |-> 0] /\ answer = [c \in Callers |-> 0]
    /\ straddled = {} /\ met = {}
    /\ calls = 0
-----------------------------------------------------------------------------
Goto(c, from, to) == at[c] = from /\ at' = [at EXCEPT ![c] = to]
Known(p) == \E e \in cache : e.point = p
UnderWay(c) == at[c] \notin {"idle", "answered"}

Begin(c) ==
    /\ Goto(c, "idle", "check")
    /\ calls < MaxCalls /\ calls' = calls + 1
    /\ \E p \in Points : key' = [key EXCEPT ![c] = p]
    /\ seen' = [seen EXCEPT ![c] = generation]
    /\ answer' = [answer EXCEPT ![c] = 0]
    /\ LET others == {d \in Callers : UnderWay(d)}
       IN  met' = IF others = {} THEN met \ {c} ELSE met \cup others \cup {c}
    /\ UNCHANGED <<generation, cached, cache, straddled>>

\* The generation the cache was filled from is compared (faulty: only a first time) and the
\* cache emptied, then marked with the generation that was read.
IsEmpty(c) == cached = 0
IsOld(c) == cached # seen[c]
Keep(c) ==
    /\ Goto(c, "check", "look") /\ ~IsOld(c)
    /\ UNCHANGED <<generation, cached, cache, locals, history, calls>>
Clear(c) ==
    /\ Goto(c, "check", "mark") /\ IsOld(c)
    /\ cache' = {} /\ cached' = 0
    /\ UNCHANGED <<generation, locals, history, calls>>
Mark(c) ==
    /\ Goto(c, "mark", "look")
    /\ cached' = seen[c]
    /\ UNCHANGED <<generation, cache, locals, history, calls>>

Hit(c) ==
    /\ Goto(c, "look", "return") /\ Known(key[c])
    /\ UNCHANGED <<generation, cached, cache, locals, history, calls>>
Miss(c) ==
    /\ at[c] = "look" /\ ~Known(key[c])
    /\ IF Cardinality(cache) + (IF cached = 0 THEN 0 ELSE 1) > Capacity
       THEN cache' = {} /\ cached' = 0 /\ at' = [at EXCEPT ![c] = "remark"]
       ELSE UNCHANGED <<cache, cached>> /\ at' = [at EXCEPT ![c] = "compute"]
    /\ UNCHANGED <<generation, locals, history, calls>>
Remark(c) ==
    /\ Goto(c, "remark", "compute")
    /\ cached' = seen[c]
    /\ UNCHANGED <<generation, cache, locals, history, calls>>

\* point_availability reads the active generation itself.
Compute(c) ==
    /\ Goto(c, "compute", "store")
    /\ answer' = [answer EXCEPT ![c] = generation]
    /\ UNCHANGED <<generation, cached, cache, key, seen, history, calls>>
Store(c) ==
    /\ Goto(c, "store", "return")
    /\ cache' = {e \in cache : e.point # key[c]} \cup {[point |-> key[c], of |-> answer[c]]}
    /\ UNCHANGED <<generation, cached, locals, history, calls>>

\* What the cache holds now, or a KeyError (answered with 404) if it was emptied meanwhile.
Return(c) ==
    /\ Goto(c, "return", "answered")
    /\ answer' = [answer EXCEPT ![c] =
                     IF Known(key[c]) THEN (CHOOSE e \in cache : e.point = key[c]).of ELSE 0]
    /\ UNCHANGED <<generation, cached, cache, key, seen, history, calls>>
Leave(c) ==
    /\ Goto(c, "answered", "idle")
    /\ UNCHANGED <<generation, cached, cache, locals, history, calls>>

\* A refresh or an import activates a generation.
Activate ==
    /\ generation < MaxGeneration /\ generation' = generation + 1
    /\ straddled' = IF \E c \in Callers : UnderWay(c) THEN straddled \cup {generation'} ELSE straddled
    /\ UNCHANGED <<cached, cache, at, locals, met, calls>>

Next ==
    \/ Activate
    \/ \E c \in Callers :
          \/ Begin(c) \/ Keep(c) \/ Clear(c) \/ Mark(c) \/ Hit(c) \/ Miss(c) \/ Remark(c)
          \/ Compute(c) \/ Store(c) \/ Return(c) \/ Leave(c)

Spec == Init /\ [][Next]_vars
-----------------------------------------------------------------------------
\* "A newly activated catalog starts afresh" (api/app.py:175): a request is not answered from a
\* generation that was replaced before it began.  Two requests at once break it (README.md, section 5).
StartsAfresh == \A c \in Callers : at[c] = "answered" /\ answer[c] # 0 => answer[c] >= seen[c]

\* What is left of that when requests run at once (api/app.py:178-187 without a lock): an older
\* answer is one that some request carried over the activation of a later generation, and only a
\* request that met another one fails.  In particular a generation activated between requests
\* starts afresh, whatever ran before it.
AnswersExplained ==
    \A c \in Callers : at[c] = "answered" =>
        IF answer[c] = 0 THEN c \in met
        ELSE answer[c] >= seen[c] \/ \E h \in straddled : answer[c] < h /\ h <= seen[c]
=============================================================================
