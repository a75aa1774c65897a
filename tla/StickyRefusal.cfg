SPECIFICATION LiveSpec
CONSTANTS
  c1 = c1
  c2 = c2
  a1 = a1
  a2 = a2
  g1 = g1
  e1 = e1
  e2 = e2
  o1 = o1
  None = None
  Blank = Blank
  Client = {c1}
  Api = {a1}
  Group = {g1}
  Echo = {e1, Blank}
  Order = {o1}
  GroupOf <- MCGroupOf
  EchoOf <- OneEcho
PROPERTY
  RefusalIsShortLived
