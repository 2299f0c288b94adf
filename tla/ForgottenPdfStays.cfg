SPECIFICATION Spec
CONSTANTS
  Files = {f1}
  NoFile = NoFile
  Bills = {}
  Requests = {r1, r2}
  Operations = {"upload", "forget"}
  DailyLimit = 2
  MaxIds = 2
  MaxFaults = 0
INVARIANT ForgottenLeavesNothing
\* Once the place is deleted there is nothing left to do to it.
CHECK_DEADLOCK FALSE
