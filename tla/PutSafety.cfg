SPECIFICATION Spec
CONSTANTS
  Keys = {k1}
  NoKey = NoKey
  Writers = {w1, w2, w3}
  Chunks = 2
  MaxFaults = 1
SYMMETRY Symmetry
INVARIANTS
  TypeOK
  UnsharedIsComplete
  TornIsBeingWritten
  TmpIsMine
