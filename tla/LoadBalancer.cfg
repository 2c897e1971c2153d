SPECIFICATION Spec
CONSTANTS
  m1 = m1
  m2 = m2
  b1 = b1
  b2 = b2
  None = None
  Backends = {b1, b2}
  Models = {m1, m2}
  Catalogues <- MCCatalogues
  Requests = {r1, r2, r3}
  Attempts = 3
  FailThreshold = 2
  MaxReloads = 1
SYMMETRY Symmetry
INVARIANTS TypeOK PoolTracked ReadersSeeOnePool
PROPERTIES RefusedOnlyIfLimited ImplementsAdmissionControl
