SPECIFICATION Spec
CONSTANTS
  r1 = r1
  r2 = r2
  None = None
  Requests = {r1, r2}
  Contexts = {c1}
  ProtoOf <- MCProtoOf
  MaxEvents = 2
INVARIANT WriterProtected
CHECK_DEADLOCK FALSE
