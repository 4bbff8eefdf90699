--------------------------- MODULE ConnectionPool ---------------------------
(* What a pool of connections promises its clients, with no breaker, channel*)
(* or counters: a connection is opened for one client, is never in two      *)
(* hands, moves only out of the hand that held it, is gone for good once    *)
(* discarded, and no more than Limit are open at a time.                    *)
(* An identity may stand again for a new connection after it is discarded.  *)
EXTENDS FiniteSets, Naturals

CONSTANTS Clients, Connections, Nobody, Limit

VARIABLES
  open,   \* the connections that are open
  holder  \* who holds each connection, Nobody when it is parked or not open

poolState == <<open, holder>>

Free == {c \in open : holder[c] = Nobody}
EmptyHanded(r) == \A c \in Connections : holder[c] # r

Init ==
  /\ open = {}
  /\ holder = [c \in Connections |-> Nobody]

Open(r, c) ==
  /\ EmptyHanded(r)
  /\ c \notin open
  /\ Cardinality(open) < Limit
  /\ open' = open \cup {c}
  /\ holder' = [holder EXCEPT ![c] = r]

Lend(r, c) ==
  /\ EmptyHanded(r)
  /\ c \in Free
  /\ holder' = [holder EXCEPT ![c] = r]
  /\ UNCHANGED open

GiveBack(c) ==
  /\ c \in open \ Free
  /\ holder' = [holder EXCEPT ![c] = Nobody]
  /\ UNCHANGED open

HandOn(c, r) ==
  /\ c \in open \ Free
  /\ EmptyHanded(r)
  /\ holder' = [holder EXCEPT ![c] = r]
  /\ UNCHANGED open

Discard(c) ==
  /\ c \in open \ Free
  /\ open' = open \ {c}
  /\ holder' = [holder EXCEPT ![c] = Nobody]

CloseParked ==
  /\ \E closed \in SUBSET Free : open' = open \ closed
  /\ UNCHANGED holder

Next ==
  \/ \E r \in Clients, c \in Connections :
       Open(r, c) \/ Lend(r, c) \/ HandOn(c, r)
  \/ \E c \in Connections : GiveBack(c) \/ Discard(c)
  \/ CloseParked

Spec == Init /\ [][Next]_poolState
=============================================================================
