SPECIFICATION MCSpec
CONSTANTS
  c1 = c1
  w1 = w1
  Devices = {c1, c2, w1}
  Switches = {w1}
  Names = {1, 2, 3}
  None = None
  MaxInterfaces = 2
  MaxCables = 2
  MaxWindows = 1
  MaxEvents = 4
INVARIANTS
  ListedAndWired
  NoFrozenPacket
  WindowsAgree
PROPERTIES
  RaisesOnlyWhenDangling
  LoadRestores
CHECK_DEADLOCK FALSE
