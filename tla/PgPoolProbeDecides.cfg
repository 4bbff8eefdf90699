\* The pool may stop for good: a refused call is a stutter.
CHECK_DEADLOCK FALSE
CONSTANTS
  Requests = {r1, r2, r3}
  Connections = {c1, c2, c3}
  NoConnection = none
  Size = 1
  FailureThreshold = 2
  OpenDuration = 1
SPECIFICATION ServingSpec
PROPERTIES
  ProbeDecides
