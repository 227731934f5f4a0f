------------------------------ MODULE MCChatPage ------------------------------
(* An instance of ChatPage for TLC. *)
EXTENDS ChatPage

Budget(steps, inputs, reloads, checks, faults) ==
    [steps |-> steps, inputs |-> inputs, reloads |-> reloads, checks |-> checks, faults |-> faults]

\* What may meet in one behaviour: a turn of two steps; an input answered late by a faulty network,
\* before or after a reload, or refused because a finished job is looked at; a failing recovery.
Chances ==
    {Budget(2, 1, 0, 0, 0), Budget(1, 1, 0, 0, 1), Budget(1, 1, 1, 0, 0),
     Budget(1, 0, 1, 1, 0), Budget(0, 1, 0, 1, 0), Budget(0, 0, 1, 0, 1)}
===============================================================================
