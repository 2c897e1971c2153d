SPECIFICATION Spec
CONSTANTS
  a = a
  b = b
  c = c
  None = None
  Requests = {r1, r2}
  Models = {a, b, c}
  Policies <- MCPolicies
  Default <- MCDefault
  Bound <- MCBoundSeq
  CleanupAge = 2
  DayLength = 4
  MaxTime = 5
  MaxArrivals = 3
  MaxRestarts = 1
SYMMETRY Symmetry
INVARIANTS RateExact RateOvershoot OnlyGrantedModels
PROPERTIES CacheFollows
CHECK_DEADLOCK FALSE
