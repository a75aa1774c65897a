SPECIFICATION Spec
CONSTANTS
  c1 = c1
  c2 = c2
  a1 = a1
  a2 = a2
  g1 = g1
  e1 = e1
  e2 = e2
  o1 = o1
  None = None
  Blank = Blank
  Client = {c1, c2}
  Api = {a1, a2}
  Group = {g1}
  Echo = {e1, e2, Blank}
  Order = {o1}
  GroupOf <- MCGroupOf
  EchoOf <- OwnEcho
INVARIANTS
  TypeOK
  WireIsBound
  ClearedBeforeForwarding
PROPERTIES
  RoutingSpec
