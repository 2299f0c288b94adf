SPECIFICATION FairSpec
CONSTANTS
  Docs = {d1}
  NoDoc = NoDoc
  MaxJobs = 1
  Clients = {c1}
  Workers = {w1, w2}
  Sweeps = {s1}
  MaxAttempts = 3
  StaleAfter = 2
  ReapInterval = 1
  BeatWithin = 1
  Punctual = FALSE
  MaxFaults = 1
PROPERTY EveryJobSettles
