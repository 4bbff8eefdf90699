\* Words of 4 bits with an int of 3 and a port of 2, times of 3 binary digits:
\* every width is different, as in the code. Up to three parts in a form.
CONSTANTS
  LongBits = 4
  IntBits = 3
  PortBits = 2
  Precision = 3
  Base = 2
  MaxLimit = 5
  DefaultLimit = 3
  MaxParts = 3
  Rows <- Table
  Values <- Contents
  Names <- Asked
  Plain <- Unquoted
  ArrayIn <- ReadArray
  Malformed = Malformed
  MaxListed = 2
SPECIFICATION Spec
INVARIANTS
  StatementsMeanRequests
  FormsAgree
  ValuesSurvive
