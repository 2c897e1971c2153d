SPECIFICATION FairSpec
CONSTANTS
  m1 = m1
  m2 = m2
  b1 = b1
  b2 = b2
  None = None
  Backends = {b1, b2}
  Models = {m1, m2}
  Catalogues <- MCCatalogues
  Requests = {r1, r2}
  Attempts = 3
  FailThreshold = 3
  MaxReloads = 2
INVARIANTS NoPermitLeak ExactUntilRemoved
PROPERTIES SelectionEnds PermitReturned
