CONSTANTS
  Workers = {w1, w2}
  Customers = {c1, c2}
  m1 = m1
  Merchants = {m1}
  NoMerchant = NoMerchant
  FeeRevenue = FeeRevenue
  FxRevenue = FxRevenue
  Requests <- MCRequests
  MaxTransactions = 4
  MaxRefusals = 1
SYMMETRY Symmetry
SPECIFICATION LedgerSpec
INVARIANTS
  Reconciled
  BooksBalance
  LossIsOnce
