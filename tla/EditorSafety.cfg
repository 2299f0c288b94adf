SPECIFICATION Spec
CONSTANTS
  Periods = {"may", "june"}
  Recorded <- MCRecorded
  NoData = NoData
  MaxBills = 3
  MaxRequests = 2
  MaxSaves = 2
  MaxFaults = 1
INVARIANTS
  TypeOK
  QuietListIsServer
  SaveIsOfItsBill
PROPERTY DuplicateOnlyByRace
