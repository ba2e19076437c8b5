CONSTANTS
  Workers = {w1, w2, w3}
  Accounts <- MCAccounts
  Offers <- MCOffers
  Opening <- MCOpening
  Limit <- MCLimit
SYMMETRY Symmetry
SPECIFICATION Spec
INVARIANTS
  NoOverdraft
  LimitsKept
  RefundsBounded
  
PROPERTIES
  ReversedIsCredited
  ImplementsBank
