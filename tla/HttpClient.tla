----------------------------- MODULE HttpClient -----------------------------
(***************************************************************************)
(* One request of HttpClient (openepw/providers/http.py): attempts that    *)
(* are repeated on transport errors and busy statuses, one approved        *)
(* redirect that starts the attempts again, a limit on the size of a body. *)
(***************************************************************************)
EXTENDS Integers

CONSTANTS Retries,       \* max_retries of the caller
          MaxChunks,     \* the limit, in chunks
          Waits          \* seconds that Retry-After headers name

VARIABLES method, host, conditional, \* of the request that is being sent
          attempt, chunks,
          phase,       \* "send", "body", "wait", "done"
          outcome,     \* what the caller gets, once done
          sent, slept, \* history: requests sent, seconds slept
          statuses     \* history: how the requests were answered; 0 for not at all

vars == <<method, host, conditional, attempt, chunks, phase, outcome, sent, slept, statuses>>
-----------------------------------------------------------------------------
Busy == {429, 500, 502, 503, 504}
Redirects == {301, 302, 303, 307, 308}
Refusals == {304, 401, 403, 404, 501} \cup Busy   \* not 2xx, not followed
Hosts == {"nlr", "s3", "other"}                   \* the approved redirect is from nlr to s3
Power(n) == 2^n
Least(a, b) == IF a < b THEN a ELSE b
Pending == [kind |-> "none"]
Answer(status) == [kind |-> "answer", status |-> status]
Failure(code, retryable) == [kind |-> "error", code |-> code, retryable |-> retryable]

TypeOK ==
    /\ host \in Hosts /\ attempt \in 0..Retries /\ chunks \in 0..MaxChunks
    /\ phase \in {"send", "body", "wait", "done"}
    /\ outcome.kind = "none" <=> phase # "done"

Init ==
    /\ method \in {"GET", "POST"} /\ host \in Hosts /\ conditional \in BOOLEAN
    /\ attempt = 0 /\ chunks = 0 /\ phase = "send" /\ outcome = Pending
    /\ sent = 0 /\ slept = 0 /\ statuses = {}
-----------------------------------------------------------------------------
request == <<method, host, conditional>>
Finish(result) == phase' = "done" /\ outcome' = result
Send(status) == phase = "send" /\ sent' = sent + 1 /\ statuses' = statuses \cup {status}

\* The next attempt after `seconds`.
Again(seconds) ==
    /\ attempt < Retries
    /\ slept' = slept + seconds /\ phase' = "wait"
    /\ UNCHANGED outcome
Wake ==
    /\ phase = "wait" /\ phase' = "send"
    /\ attempt' = attempt + 1 /\ chunks' = 0
    /\ UNCHANGED <<request, outcome, sent, slept, statuses>>

NotModified ==
    /\ Send(304) /\ conditional /\ Finish(Answer(304))
    /\ UNCHANGED <<request, attempt, chunks, slept>>

\* A GET is redirected; only the archive's own storage is followed, with new attempts and
\* without the caller's condition (faulty: from any host).
FollowsAny(old, new) == new = "s3"
Follows(old, new) == old = "nlr" /\ new = "s3"
Redirect(target) ==
    /\ Send(302) /\ method = "GET" /\ Follows(host, target)
    /\ host' = target /\ conditional' = FALSE /\ attempt' = 0
    /\ UNCHANGED <<method, chunks, phase, outcome, slept>>
RedirectRefused(target) ==
    /\ Send(302) /\ method = "GET" /\ ~Follows(host, target)
    /\ Finish(Failure("PROVIDER_UNAVAILABLE", FALSE))
    /\ UNCHANGED <<request, attempt, chunks, slept>>

\* Busy: wait as long as Retry-After asks, 30 seconds at most, or exponentially.
Retry(status) ==
    /\ Send(status) /\ status \in Busy
    /\ \/ \E seconds \in Waits : Again(Least(seconds, 30))
       \/ Again(Least(Power(attempt), 30))
    /\ UNCHANGED <<request, attempt, chunks>>

Code(status) ==
    CASE status = 401 -> "AUTH_REQUIRED" [] status = 403 -> "TERMS_REQUIRED"
      [] status = 429 -> "RATE_LIMITED" [] OTHER -> "PROVIDER_UNAVAILABLE"
Refuse(status) ==
    /\ Send(status)
    /\ status \in Busy => attempt = Retries
    /\ status = 304 => ~conditional
    /\ status \in Redirects => method # "GET"
    /\ Finish(Failure(Code(status), status >= 500 \/ status = 429))
    /\ UNCHANGED <<request, attempt, chunks, slept>>

\* 2xx: the body is read chunk by chunk.
Accept == Send(200) /\ phase' = "body" /\ chunks' = 0 /\ UNCHANGED <<request, attempt, outcome, slept>>
Read ==
    /\ phase = "body" /\ chunks < MaxChunks /\ chunks' = chunks + 1
    /\ UNCHANGED <<request, attempt, phase, outcome, sent, slept, statuses>>
TooLarge ==
    /\ phase = "body" /\ chunks = MaxChunks
    /\ Finish(Failure("RESOURCE_LIMIT", FALSE))
    /\ UNCHANGED <<request, attempt, chunks, sent, slept, statuses>>
Complete ==
    /\ phase = "body" /\ Finish(Answer(200))
    /\ UNCHANGED <<request, attempt, chunks, sent, slept, statuses>>

\* The transport fails before or within the answer.
TransportFails ==
    /\ \/ Send(0)
       \/ phase = "body" /\ UNCHANGED <<sent, statuses>>
    /\ IF attempt = Retries
       THEN Finish(Failure("PROVIDER_UNAVAILABLE", TRUE)) /\ UNCHANGED slept
       ELSE Again(Power(attempt))
    /\ UNCHANGED <<request, attempt, chunks>>

Next ==
    \/ Wake \/ NotModified \/ Accept \/ Read \/ TooLarge \/ Complete \/ TransportFails
    \/ \E target \in Hosts : Redirect(target) \/ RedirectRefused(target)
    \/ \E status \in Refusals \cup Redirects : Refuse(status)
    \/ \E status \in Busy : Retry(status)

Spec == Init /\ [][Next]_vars
FairSpec == Spec /\ WF_vars(Next)
-----------------------------------------------------------------------------
\* However a provider mixes busy answers, redirects and broken transports, a request is sent at
\* most twice the configured attempts, waits at most 30 seconds for each, and what the caller
\* gets fits what happened: "not modified" only if it asked, a retryable failure of a busy
\* provider only after the last attempt.
RequestsAreBounded ==
    /\ sent <= 2 * (Retries + 1)
    /\ slept <= 30 * sent
    /\ outcome = Answer(304) => conditional
    /\ outcome.kind = "error" => (outcome.retryable => attempt = Retries \/ 501 \in statuses)
=============================================================================
