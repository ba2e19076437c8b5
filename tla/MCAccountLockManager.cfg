CONSTANTS
  Threads = {t1, t2, t3}
  Accounts <- MCAccounts
  NoAccount <- MCNoAccount
  MaxTxns = 2
SPECIFICATION FairSpec
INVARIANTS
  MutualExclusion
  BookkeepingExact
  WaitsAscending
PROPERTIES
  EveryTransactionEnds
  ImplementsPriorityMutex
