------------------------------ MODULE MCProxy ------------------------------
(* Small instances of Proxy for the model checker.                         *)
EXTENDS Proxy, TLC

\* Calls and cohort ids are interchangeable: every action and property treats
\* them alike.  Used by the runs that check no liveness.
Symmetry == Permutations(Calls) \cup Permutations(Cohorts)

=============================================================================
