SPECIFICATION Spec
CONSTANTS
  c1 = c1
  c2 = c2
  None = None
  Client = {c1, c2}
  DefaultAllow = TRUE
INVARIANT
  EndedIsRemoved
CHECK_DEADLOCK FALSE
