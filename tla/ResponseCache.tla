---------------------------- MODULE ResponseCache ----------------------------
(***************************************************************************)
(* Recording and replay of provider answers (_cached_fetch of              *)
(* openepw/service.py), by the worker threads of one data root, for one    *)
(* fetch task.  A provider asks for answers 1..Requests one after the      *)
(* other and parses them; each is replayed from its two files when the     *)
(* body that was read agrees with the checksum; the body is then read a    *)
(* second time.  Files are written after the parse, one atomic replacement *)
(* at a time.                                                              *)
(*                                                                         *)
(* A body is named by the version of the upstream data it was answered     *)
(* from; a checksum by the body it was computed of.                        *)
(***************************************************************************)
EXTENDS Naturals, Sequences

CONSTANTS Fetchers,    \* worker threads
          Requests,    \* how many answers a fetch needs
          Secret,      \* positions whose answer repeats a credential
          Torn, Missing,  \* a damaged body; no file
          MaxUpstream, \* bound on versions
          MaxFetches, MaxTears  \* bounds on fetches, and on crashes and damaged files

VARIABLES upstream,    \* the version providers answer from
          bodies, checksums,    \* <n>.bin and <n>.sha256
          step,        \* "idle", "ask", "check" (a body was hashed), "read" (it agreed), "write"
          hashed,      \* the body each thread hashed
          answers,     \* what the parse of each thread gets
          pending,     \* what each thread has to write: <<position, body>>, body file first
          raced,       \* history: <<thread, position>> whose body was damaged while it was read
          fetches, tears

vars == <<upstream, bodies, checksums, step, hashed, answers, pending, raced, fetches, tears>>
files == <<bodies, checksums>>
Positions == 1..Requests
Versions == 0..MaxUpstream
Stored == Versions \cup {Torn, Missing}

TypeOK ==
    /\ upstream \in Versions
    /\ bodies \in [Positions -> Stored] /\ checksums \in [Positions -> Stored \ {Torn}]
    /\ step \in [Fetchers -> {"idle", "ask", "check", "read", "write"}]
    /\ hashed \in [Fetchers -> Stored] /\ raced \subseteq Fetchers \X Positions
    /\ \A f \in Fetchers : answers[f] \in Seq(Stored) /\ Len(answers[f]) <= Requests

Init ==
    /\ upstream = 0
    /\ bodies = [n \in Positions |-> Missing] /\ checksums = [n \in Positions |-> Missing]
    /\ step = [f \in Fetchers |-> "idle"]
    /\ hashed = [f \in Fetchers |-> Missing] /\ raced = {}
    /\ answers = [f \in Fetchers |-> <<>>] /\ pending = [f \in Fetchers |-> <<>>]
    /\ fetches = 0 /\ tears = 0
-----------------------------------------------------------------------------
At(f) == Len(answers[f]) + 1
Begin(f) ==
    /\ step[f] = "idle" /\ step' = [step EXCEPT ![f] = "ask"]
    /\ fetches < MaxFetches /\ fetches' = fetches + 1
    /\ answers' = [answers EXCEPT ![f] = <<>>]
    /\ pending' = [pending EXCEPT ![f] = <<>>]
    /\ raced' = {r \in raced : r[1] # f}
    /\ UNCHANGED <<upstream, files, hashed, tears>>

\* Replay.get: both files are there, and the body is read and hashed.
Stands(n) == bodies[n] # Missing /\ checksums[n] # Missing
Hash(f) ==
    /\ step[f] = "ask" /\ At(f) <= Requests /\ Stands(At(f))
    /\ step' = [step EXCEPT ![f] = "check"]
    /\ hashed' = [hashed EXCEPT ![f] = bodies[At(f)]]
    /\ UNCHANGED <<upstream, files, answers, pending, raced, fetches, tears>>

\* The checksum is read: does it agree with the body that was? (faulty: any body counts)
HasBody(f) == hashed[f] # Missing
Recorded(f) == hashed[f] = checksums[At(f)]
Check(f) ==
    /\ step[f] = "check" /\ Recorded(f)
    /\ step' = [step EXCEPT ![f] = "read"]
    /\ UNCHANGED <<upstream, files, hashed, answers, pending, raced, fetches, tears>>

\* The body is read once more, and replayed.
Read(f) ==
    /\ step[f] = "read" /\ step' = [step EXCEPT ![f] = "ask"]
    /\ answers' = [answers EXCEPT ![f] = Append(@, bodies[At(f)])]
    /\ hashed' = [hashed EXCEPT ![f] = Missing]
    /\ UNCHANGED <<upstream, files, pending, raced, fetches, tears>>

\* A new answer is asked for, and kept for writing unless it repeats a credential: its body
\* first, then its checksum.
Ask(f) ==
    LET n == At(f) IN
    /\ n <= Requests
    /\ \/ step[f] = "ask" /\ ~Stands(n)
       \/ step[f] = "check" /\ ~Recorded(f)
    /\ step' = [step EXCEPT ![f] = "ask"]
    /\ answers' = [answers EXCEPT ![f] = Append(@, upstream)]
    /\ pending' = IF n \in Secret THEN pending
                  ELSE [pending EXCEPT ![f] = @ \o <<<<n, upstream, "body">>, <<n, upstream, "checksum">>>>]
    /\ hashed' = [hashed EXCEPT ![f] = Missing]
    /\ UNCHANGED <<upstream, files, raced, fetches, tears>>

\* The parse succeeded, or the provider failed at some answer: then nothing is written.
Parse(f) ==
    /\ step[f] = "ask" /\ Len(answers[f]) = Requests
    /\ step' = [step EXCEPT ![f] = "write"]
    /\ UNCHANGED <<upstream, files, hashed, answers, pending, raced, fetches, tears>>
Raise(f) ==
    /\ step[f] = "ask" /\ step' = [step EXCEPT ![f] = "idle"]
    /\ answers' = [answers EXCEPT ![f] = <<>>] /\ pending' = [pending EXCEPT ![f] = <<>>]
    /\ UNCHANGED <<upstream, files, hashed, raced, fetches, tears>>

Write(f) ==
    /\ step[f] = "write" /\ pending[f] # <<>>
    /\ LET w == Head(pending[f]) IN
          IF w[3] = "body" THEN /\ bodies' = [bodies EXCEPT ![w[1]] = w[2]]
                                /\ UNCHANGED checksums
                           ELSE /\ checksums' = [checksums EXCEPT ![w[1]] = w[2]]
                                /\ UNCHANGED bodies
    /\ pending' = [pending EXCEPT ![f] = Tail(@)]
    /\ UNCHANGED <<upstream, step, hashed, answers, raced, fetches, tears>>
Done(f) ==
    /\ step[f] = "write" /\ pending[f] = <<>>
    /\ step' = [step EXCEPT ![f] = "idle"]
    /\ answers' = [answers EXCEPT ![f] = <<>>]
    /\ UNCHANGED <<upstream, files, hashed, pending, raced, fetches, tears>>

\* Upstream data change, a file is damaged, the process dies.
Publish ==
    /\ upstream < MaxUpstream /\ upstream' = upstream + 1
    /\ UNCHANGED <<files, step, hashed, answers, pending, raced, fetches, tears>>
Tear(n) ==
    /\ bodies[n] # Missing /\ bodies' = [bodies EXCEPT ![n] = Torn]
    /\ tears < MaxTears /\ tears' = tears + 1
    /\ raced' = raced \cup {r \in Fetchers \X {n} : step[r[1]] \in {"check", "read"} /\ At(r[1]) = n}
    /\ UNCHANGED <<upstream, checksums, step, hashed, answers, pending, fetches>>
Crash ==
    /\ tears < MaxTears /\ tears' = tears + 1
    /\ step' = [f \in Fetchers |-> "idle"] /\ hashed' = [f \in Fetchers |-> Missing]
    /\ answers' = [f \in Fetchers |-> <<>>] /\ pending' = [f \in Fetchers |-> <<>>]
    /\ UNCHANGED <<upstream, files, raced, fetches>>

Next ==
    \/ Publish \/ Crash \/ \E n \in Positions : Tear(n)
    \/ \E f \in Fetchers : Begin(f) \/ Hash(f) \/ Check(f) \/ Read(f) \/ Ask(f) \/ Parse(f) \/ Raise(f) \/ Write(f) \/ Done(f)

Spec == Init /\ [][Next]_vars
-----------------------------------------------------------------------------
\* "Replay exact HTTP bytes" (service.py:1085): whatever crashes, damaged files and threads that
\* record the same task do to the files, a parse gets answers that the provider once gave in full,
\* unless the file was damaged between the hash of its body and the second look at it; and an
\* answer that repeats a credential is asked for anew, never taken from a file.
RepliesAreExact ==
    \A f \in Fetchers : \A n \in DOMAIN answers[f] :
        /\ answers[f][n] \in Versions \/ (answers[f][n] = Torn /\ <<f, n>> \in raced)
        /\ n \in Secret => bodies[n] = Missing
=============================================================================
