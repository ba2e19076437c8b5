CONSTANTS
  Threads = {w1, w2}
  Clients = {c1, c2}
  NoClient = NoClient
  Max = 1
  Window = 2
  SweepEvery = 2
  MaxStall = 1
  MaxTime = 7
SYMMETRY Symmetry
SPECIFICATION RLSpec
INVARIANTS
  AtMostTwoWindows
PROPERTY
  RefusedOnlyAtTheLimit
