--------------------------- MODULE MCTransaction ----------------------------
(* Instances of Transaction for TLC: callers, queries and connections are   *)
(* interchangeable among themselves.                                        *)
EXTENDS Transaction, TLC

Symmetry ==
  Permutations(Callers) \cup Permutations(Requests \ Callers)
    \cup Permutations(Connections)
=============================================================================
