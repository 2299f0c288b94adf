SPECIFICATION Spec
CONSTANTS
  Files = {f1, f2, f3}
  NoFile = NoFile
  Bills = {b1}
  Requests = {r1, r2}
  Operations = {"upload", "delete", "forget", "link"}
  DailyLimit = 1
  MaxIds = 4
  MaxFaults = 1
SYMMETRY Symmetry
INVARIANTS
  TypeOK
  RowKeepsItsObject
  LimitOvershoot
  QuietIsConsistent
  ForgetIsComplete
PROPERTY LinkSurvives
\* Once the place is deleted there is nothing left to do to it.
CHECK_DEADLOCK FALSE
