\* Three coroutines on one connection: two can wait behind the third.
CONSTANTS
  Requests = {r1, r2, r3}
  Connections = {c1, c2, c3}
  NoConnection = none
  Size = 1
  FailureThreshold = 2
  OpenDuration = 1
SPECIFICATION FairSpec
PROPERTIES
  WaitersServed
