\* Four coroutines on a pool of two: enough to overshoot, park in the channel
\* and in idle_, queue, and have stragglers of before beside a probe.
CONSTANTS
  Requests = {r1, r2, r3, r4}
  Connections = {c1, c2, c3, c4, c5}
  NoConnection = none
  Size = 2
  FailureThreshold = 2
  OpenDuration = 1
SPECIFICATION Spec
SYMMETRY Symmetry
INVARIANTS
  TypeOK
  ExclusiveLease
  QueueConsistent
  CountExact
  NoWaitBesideParked
  BoundedOvercreation
  IdleOnlyOnOvershoot
  BreakerConsistent
  FailuresBounded
PROPERTIES
  LoadShedding
  ImplementsConnectionPool
