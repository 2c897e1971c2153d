SPECIFICATION Spec
CONSTANTS
  root = root
  ann = ann
  k1 = k1
  k2 = k2
  p1 = p1
  p2 = p2
  x = x
  None = None
  Users = {root, ann}
  Keys = {}
  Prefixes = {}
  PrefixOf <- MCPrefixOf
  Roles = {"admin", "user"}
  Passwords = {p1, p2}
  Admin = root
  MaxAge = 0
  Sessions = {s1, s2}
  Orders <- SessionOrders
  TokenLife = 4
  Requests = {}
INVARIANTS RowsAsAsked
PROPERTIES AdminsDemoted
CHECK_DEADLOCK FALSE
