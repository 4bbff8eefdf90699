\* One statement name is enough for two waits in a row.
CONSTANTS
  Names = {n}
  Pieces = 1
SPECIFICATION Spec
INVARIANTS
  DisarmedTimerIsSilent
