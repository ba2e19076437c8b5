CONSTANTS
  Threads = {t1, t2, t3}
  PoolSize = 2
  Retries = 2
  Addrs = {a1, a2, a3}
  NoSession = NoSession
  MaxUses = 3
  MaxFaults = 2
SPECIFICATION FairSpec
INVARIANTS
  ExclusiveUse
  SlotsOwnSessions
PROPERTIES
  WaitersServed
