\* Two requests at a time on one user, and as many names as rows, files,
\* requests and late statements can refer to.
CONSTANTS
  Requests = {r1, r2}
  Users = {u1}
  Names = {n1, n2, n3, n4}
  NoPicture = noPicture
  ClientName = clientName
  Nobody = nobody
SPECIFICATION Spec
SYMMETRY Symmetry
INVARIANTS
  TypeOK
  FinalFilesWhole
  TempsOwned
  LoneChangeOutcome
  NamedAfterStored
