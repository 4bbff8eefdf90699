------------------------------- MODULE DbCall -------------------------------
(* What the pool counts on from one database connection: a call is asked    *)
(* once and ends once, and a call that does not end in a result leaves the  *)
(* connection unhealthy, so that release() drops it.                        *)
VARIABLES
  busy,     \* a call is under way
  healthy,  \* healthy() between two calls
  outcome   \* how the last call ended

state == <<busy, healthy, outcome>>

Init == ~busy /\ ~healthy /\ outcome = "none"

Ask ==
  /\ ~busy
  /\ busy' = TRUE
  /\ healthy' = FALSE
  /\ outcome' = "none"

Answer ==
  /\ busy
  /\ busy' = FALSE
  /\ \/ outcome' = "result" /\ healthy' \in BOOLEAN
     \/ outcome' \in {"dberror", "error"} /\ healthy' = FALSE

(* A call that cannot even begin to connect.                                *)
Refuse ==
  /\ ~busy /\ ~healthy
  /\ outcome' = "error"
  /\ UNCHANGED <<busy, healthy>>

Discard ==
  /\ ~busy
  /\ healthy' = FALSE
  /\ UNCHANGED <<busy, outcome>>

Next == Ask \/ Answer \/ Refuse \/ Discard

Spec == Init /\ [][Next]_state
=============================================================================
