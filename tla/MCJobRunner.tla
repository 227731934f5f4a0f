---------------------------- MODULE MCJobRunner ----------------------------
(* Small instances of JobRunner for TLC. *)
EXTENDS JobRunner, TLC

CONSTANTS j1, j2, c1, c2, w1, w2

\* One request for both outputs, and one whose plan also has an unplanned row.
BothOutputs == {[outputs |-> {1, 2}, flawed |-> FALSE]}
BothOrFlawed == {[outputs |-> {1, 2}, flawed |-> f] : f \in BOOLEAN}
TwoOutputs == {1, 2}
OneOutput == {1}
FirstOutput == {[outputs |-> {1}, flawed |-> FALSE]}

\* Jobs, threads and workers are interchangeable (no CHOOSE over them; safety runs only).
Symmetric == Permutations({j1, j2}) \cup Permutations({c1, c2}) \cup Permutations({w1, w2})
=============================================================================
