CONSTANTS
  Requests = {r1, r2}
  a1 = a1
  a2 = a2
  Accounts <- MCAccounts
  Offers <- MCOffers
  PoolSize = 2
  Nobody = Nobody
SPECIFICATION FairSpec
INVARIANTS
  TypeOK
  ReleasedInFull
  NoHandlerAfterDestroy
PROPERTIES
  NoCommitAfterAnswer
  EveryRequestEnds
