--------------------------- MODULE MCAgentHost ---------------------------
(* Instances of AgentHost for TLC: the sessions of one person and of several, *)
(* whose requests lead to the same plans.                                     *)
EXTENDS AgentHost

CONSTANTS s1, s2, o1, o2, p1, p2

Mine == [s \in Sessions |-> o1]
Each == [s \in Sessions |-> IF s = s1 THEN o1 ELSE o2]
Distinct == [p \in Plans |-> p]
Lists == [s \in Sessions |-> {<<p1>>, <<p2>>, <<p1, p2>>}]
Alike == [s \in Sessions |-> {<<p1>>}]
==========================================================================
