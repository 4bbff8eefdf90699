---------------------------- MODULE MCAlgorithms ----------------------------
(* An instance of Algorithms for TLC: a table of two users; of the names to *)
(* ask for one is plain, one is read as another's and one breaks the array. *)
EXTENDS Algorithms

Table ==
  <<[id |-> "1", username |-> "u1", email |-> "e1", password |-> "p1", picture |-> "f1"],
    [id |-> "2", username |-> "u2", email |-> "e2", password |-> "p2", picture |-> "f2"]>>
Quoted == "\"u2\""
Asked == {"u1", Quoted, "{u1"}
Unquoted == {"u1", "u2", "1", "2"}
ReadArray(s) ==
  IF "{u1" \in Range(s) THEN {Malformed} ELSE {IF t = Quoted THEN "u2" ELSE t : t \in Range(s)}
Contents == {row[c] : row \in {Table[1], Table[2]}, c \in Columns}
=============================================================================
