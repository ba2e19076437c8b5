CONSTANTS
  Requests = {r1, r2, r3}
  Keys = {k1}
  Routes = {"initiate", "direct"}
  NoRequest = NoRequest
  MaxFaults = 2
SPECIFICATION FairSpec
INVARIANTS
  AtMostOnePerKey
  SuccessIsReal
PROPERTIES
  CompletedRewrittenOnlyByRejected
  KeyReleased
