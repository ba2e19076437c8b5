CONSTANTS
  Workers = {w1, w2, w3}
  Challenges = {c1}
  PoolSize = 3
  MaxRequests = 2
SPECIFICATION TdsSpec
INVARIANT
  PaidOnce
