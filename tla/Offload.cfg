\* Two calls on one worker thread: one runs and the other queues behind it;
\* two signals for each, so that one can come after the completion.
\* A program whose calls are all answered has nothing left to do.
CHECK_DEADLOCK FALSE
CONSTANTS
  Ops = {a, b}
  Workers = 1
  MaxCancels = 2
SPECIFICATION FairSpec
INVARIANTS
  TypeOK
  ResumedOnce
  OutcomeTrue
  NeverForgotten
PROPERTIES
  ImplementsOneShot
  EveryCallAnswered
