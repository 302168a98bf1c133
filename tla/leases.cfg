SPECIFICATION Spec
CONSTANTS
  c1 = c1
  c2 = c2
  r1 = r1
  r2 = r2
  Clients = {c1, c2}
  Servers = {r1, r2}
  None = None
  OwnAddress <- MCOwnAddress
  LastAddress = 4
  AtFirst = {r1}
  MaxEvents = 2
INVARIANTS
  UniqueAddresses
  RaisesOnlyWhenDisturbed
PROPERTIES
  Served
CHECK_DEADLOCK FALSE
