------------------------------- MODULE MCChat -------------------------------
(***************************************************************************)
(* The chat in front of the jobs, for TLC: who is let in (Gate), what a    *)
(* person may use (Usage), a conversation with the model (AgentTurn), the  *)
(* files of a session after a download (Files) and the evaluation of the   *)
(* agent (Evals).  They share no state; `subject` is the one a behaviour   *)
(* is about.                                                               *)
(***************************************************************************)
EXTENDS AgentTurn, FiniteSets, TLC

CONSTANTS k1, k2

VARIABLES subject,
          now, password, failures, cookie, served, wrong, proved,
          clock, hits, stamp, spend, call, calls, accepted, charged,
          done, facts, form, said, gone, budget,
          runs, trial, paid, exit, case

gateVars == <<now, password, failures, cookie, served, wrong, proved>>
useVars == <<clock, hits, stamp, spend, call, calls, accepted, charged>>
filesVars == <<done, facts, form, said, gone, budget>>
evalVars == <<runs, trial, paid, exit, case>>
chatVars == <<gateVars, useVars, vars>>
all == <<subject, chatVars, filesVars, evalVars>>

Gate == INSTANCE SiteGate WITH
    Clients <- {k1}, Passwords <- {"a", "b"}, Attempts <- 2, Window <- 2, Lifetime <- 2, EndOfTime <- 5
Usage == INSTANCE UsageLimits WITH
    Sessions <- {k1, k2}, Owner <- k1 :> "ann" @@ k2 :> "ann", Limit <- 1, Span <- 1, Kept <- 2,
    SessionCap <- 2, PersonCap <- 3, TotalCap <- 3, Costs <- {0, 2}, Day <- 2, LastTime <- 3,
    MaxHits <- 2, MaxCalls <- 4

\* Security profiles and how far a behaviour goes under each: many inputs with one call of the
\* model, fewer inputs with several calls.
Under(action, counting, reopen, inputs, modelCalls, crashes) ==
    [action |-> action, counting |-> counting, reopen |-> reopen,
     inputs |-> inputs, calls |-> modelCalls, crashes |-> crashes]
Some ==
    {Under("end_session", "session", TRUE, 3, 2, 1), Under("end_session", "session", FALSE, 2, 3, 1),
     Under("guided", "consecutive", FALSE, 3, 2, 1), Under("warn", "session", TRUE, 4, 1, 0)}

Budget(n, asks, uploads, cancels, losses, deaths) ==
    [jobs |-> n, asks |-> asks, uploads |-> uploads, cancels |-> cancels, damages |-> losses, crashes |-> deaths]
Files == INSTANCE SessionOutputs WITH
    Outputs <- {1, 2}, Year <- <<2018, 2019>>,
    Plans <- {[outs |-> {1, 2}, extra |-> FALSE], [outs |-> {1}, extra |-> TRUE]},
    Window <- 2, RetryLimit <- 1,
    Cases <- {Budget(2, 1, 1, 0, 0, 0), Budget(2, 1, 0, 1, 1, 0), Budget(3, 0, 0, 0, 0, 0), Budget(2, 0, 0, 0, 1, 1)},
    jobs <- done, left <- budget

Bound(n, faults, m, costs) == [runs |-> n, faults |-> faults, calls |-> m, costs |-> costs]
Evals == INSTANCE EvalRun WITH
    Trials <- <<2, 1>>, Scripted <- {1}, Selections <- {{1, 2}, {2}}, Limits <- {5}, Margin <- 1, Projection <- 1,
    Cases <- {Bound(1, 3, 2, {0, 2}), Bound(2, 0, 1, {0, 2}), Bound(2, 1, 1, {0}), Bound(3, 0, 0, {0})},
    now <- trial, spent <- paid

ChatInit ==
    /\ subject \in {"gate", "usage", "turn", "files", "eval"}
    /\ Gate!Init /\ Usage!Init
    /\ Init /\ (subject # "turn" => profile = CHOOSE p \in Profiles : TRUE)
    /\ Files!Init /\ (subject # "files" => budget = Budget(2, 1, 1, 0, 0, 0))
    /\ Evals!Init /\ (subject # "eval" => case = Bound(1, 3, 2, {0, 2}))
ChatNext ==
    \/ subject = "gate" /\ Gate!Next /\ UNCHANGED <<subject, useVars, vars, filesVars, evalVars>>
    \/ subject = "usage" /\ Usage!Next /\ UNCHANGED <<subject, gateVars, vars, filesVars, evalVars>>
    \/ subject = "turn" /\ Next /\ UNCHANGED <<subject, gateVars, useVars, filesVars, evalVars>>
    \/ subject = "files" /\ Files!Next /\ UNCHANGED <<subject, chatVars, evalVars>>
    \/ subject = "eval" /\ Evals!Next /\ UNCHANGED <<subject, chatVars, filesVars>>
ChatSpec == ChatInit /\ [][ChatNext]_all
-----------------------------------------------------------------------------
\* Only who typed the password of the running server lately is served, and it cannot be guessed
\* faster than the limit on attempts allows; no window holds more uses of a person than the limit,
\* and a spend cap is passed by the calls under way and no more.
LimitsHold == Gate!GateHolds /\ Usage!UseIsLimited

\* "The 2017 file" is one that exists (session_outputs); what a person picks by number is what they
\* read; a retry is offered for what failed, and made once though the process dies in it.
OutputsHold == subject = "files" => Files!OutputsHold

\* The records of a run are the trials that were planned, a provider's failure is not the agent's,
\* the cap on cost holds, and comparison and exit code follow from the records.
EvalHolds == subject = "eval" => Evals!EvalHolds
=============================================================================
