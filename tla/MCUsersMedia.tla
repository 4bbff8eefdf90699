---------------------------- MODULE MCUsersMedia ----------------------------
(* Instances of UsersMedia for TLC. Names and requests are interchangeable. *)
EXTENDS UsersMedia, TLC

Symmetry == Permutations(Requests) \cup Permutations(Names)
=============================================================================
