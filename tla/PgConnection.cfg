\* Two statement names, two readiness events for each statement.
CONSTANTS
  Names = {n1, n2}
  Pieces = 2
SPECIFICATION Spec
INVARIANTS
  TypeOK
  WireClean
  CacheTrue
  ResultIsOwn
  RetryIsFutile
PROPERTIES
  ImplementsDbCall
  CallsEnd
