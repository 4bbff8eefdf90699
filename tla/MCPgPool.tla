------------------------------ MODULE MCPgPool ------------------------------
(* Instances of PgPool for TLC. Requests and connections are recycled, so   *)
(* the state space is finite without a bound on the number of steps.        *)
EXTENDS PgPool, TLC

(* Requests and connections are interchangeable in the safety runs.         *)
Symmetry == Permutations(Requests) \cup Permutations(Connections)
=============================================================================
