SPECIFICATION LiveSpec
CONSTANTS
  c1 = c1
  c2 = c2
  None = None
  Client = {c1, c2}
  DefaultAllow = TRUE
INVARIANTS
  TypeOK
  ToldWhenOnline
PROPERTIES
  ClosedIsRemoved
  JoinIsServed
CHECK_DEADLOCK FALSE
