SPECIFICATION Spec
CONSTANTS
  Docs = {d1}
  NoDoc = NoDoc
  MaxJobs = 2
  Clients = {c1, c2}
  Workers = {w1, w2}
  Sweeps = {}
  MaxAttempts = 2
  StaleAfter = 1
  ReapInterval = 1
  BeatWithin = 1
  Punctual = FALSE
  MaxFaults = 1
SYMMETRY Symmetry
INVARIANTS
  TypeOK
  OneActivePerDocument
  QueuedHasAttemptLeft
  ClaimTokensDistinct
  VerdictIsOfLastClaim
PROPERTIES
  TerminalIsFinal
  OnlyClaimantKeepsAlive
  ImplementsContract
