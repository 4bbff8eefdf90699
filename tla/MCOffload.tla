----------------------------- MODULE MCOffload ------------------------------
(* An instance of Offload for TLC.                                          *)
EXTENDS Offload
=============================================================================
