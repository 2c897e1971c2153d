SPECIFICATION FairSpec
CONSTANTS
  m1 = m1
  b1 = b1
  b2 = b2
  None = None
  Admins = {a1, a2}
  Models = {m1}
  Backends = {b1, b2}
  Initial <- MCInitial
  Lists <- MCLists
  Capacity = 10
  MaxEdits = 2
  MaxCrashes = 1
INVARIANTS UniqueIds SavedFirst LoadedOrTold
PROPERTIES HotReload RequestsEnd
CHECK_DEADLOCK FALSE
