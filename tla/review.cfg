SPECIFICATION Spec
CONSTANTS
  c1 = c1
  c2 = c2
  k1 = k1
  k2 = k2
  kx = kx
  w1 = w1
  w2 = w2
  w3 = w3
  b1 = b1
  b2 = b2
  b3 = b3
  b4 = b4
  doc = doc
  rec = rec
  Checks = {c1, c2}
  Native = {rec}
  Records = {rec}
  Upstream <- MCUpstream
  Contract <- MCContract
  Observed <- MCObserved
  Claim <- MCClaim
  Witness <- MCWitness
  Candidate <- MCCandidate
  Assessment <- MCAssessment
  MaxNew = 3
  MaxRevision = 3
INVARIANTS
  SavedReplays
  OwnersStandBehind
  EveryCalculationCounts
PROPERTIES
  ImplementsLedger
CHECK_DEADLOCK FALSE
