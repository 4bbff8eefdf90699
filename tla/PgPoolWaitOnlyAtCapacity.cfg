\* The pool may stop for good: a refused call is a stutter.
CHECK_DEADLOCK FALSE
CONSTANTS
  Requests = {r1, r2, r3, r4}
  Connections = {c1, c2, c3, c4, c5}
  NoConnection = none
  Size = 2
  FailureThreshold = 2
  OpenDuration = 1
SPECIFICATION ServingSpec
SYMMETRY Symmetry
INVARIANT
  WaitOnlyAtCapacity
