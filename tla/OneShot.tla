------------------------------ MODULE OneShot -------------------------------
(* What an offloaded call promises its coroutine: asked once, it is         *)
(* answered at most once, with a value, an error or an abort, and the       *)
(* answer does not change.                                                  *)
CONSTANT Calls
VARIABLE status

Answers == {"value", "error", "aborted"}

Init == status = [c \in Calls |-> "idle"]

Ask(c) ==
  /\ status[c] = "idle"
  /\ status' = [status EXCEPT ![c] = "pending"]

Answer(c) ==
  /\ status[c] = "pending"
  /\ \E a \in Answers : status' = [status EXCEPT ![c] = a]

Next == \E c \in Calls : Ask(c) \/ Answer(c)

Spec == Init /\ [][Next]_status
=============================================================================
