SPECIFICATION Spec
CONSTANTS
  root = root
  ann = ann
  k1 = k1
  k2 = k2
  p1 = p1
  p2 = p2
  x = x
  None = None
  Users = {root, ann}
  Keys = {k1, k2}
  Prefixes = {x}
  PrefixOf <- MCPrefixOf
  Roles = {"admin", "user"}
  Passwords = {p1}
  Admin = root
  MaxAge = 1
  Sessions = {s1}
  Orders <- KeyOrders
  TokenLife = 1
  Requests = {r1}
INVARIANTS OwnersKept
PROPERTIES KeysRevoked
CHECK_DEADLOCK FALSE
