\* Two transactions and two queries on a pool of two: leases are lost while
\* others wait, overshoot and hand over. When every slot is lost and every
\* request waits, the system stops.
CHECK_DEADLOCK FALSE
CONSTANTS
  Requests = {t1, t2, q1, q2}
  Callers = {t1, t2}
  Connections = {c1, c2, c3, c4, c5}
  NoConnection = none
  Size = 2
  FailureThreshold = 2
  OpenDuration = 1
SPECIFICATION TxSpec
SYMMETRY Symmetry
INVARIANTS
  CapacityAccounted
  TransactionsIsolated
