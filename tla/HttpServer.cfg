\* Two connections at a time, two users that may want the same email. A
\* stopped process takes no step.
CHECK_DEADLOCK FALSE
CONSTANTS
  Sessions = {s1, s2}
  Users = {u1, u2}
  Emails = {e1}
  Nobody = nobody
SPECIFICATION Spec
INVARIANTS
  TypeOK
  OnlyAuthorised
  AnswerTellsEffect
PROPERTIES
  RequestsAnswered
  BacklogServed
