CONSTANTS
  Workers = {w1, w2}
  Accounts = {a1}
  Tables = {atm, pos}
  Unchecked = {pos}
  Nodes = {n1, n2, n3}
  NoNode = NoNode
  MaxCacheSize = 1
  VelocityLimit = 2
  VelocityWindow = 3
  SameSecond = 1
  MaxTime = 4
  MaxRequests = 4
  MaxFailures = 1
SYMMETRY Symmetry
SPECIFICATION Spec
INVARIANTS
  MapPointsIntoList
  VelocityExcessBounded
PROPERTY
  DuplicatesFollowARow
