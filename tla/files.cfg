SPECIFICATION MCSpec
CONSTANTS
  n0 = n0
  n1 = n1
  n2 = n2
  n3 = n3
  n4 = n4
  n5 = n5
  n6 = n6
  sh1 = sh1
  sh2 = sh2
  Node = {n0, n1, n2, n3, n4, n5, n6}
  Root = n0
  None = None
  NoSuchDirectory = NoSuchDirectory
  NoSuchFile = NoSuchFile
  NotADirectory = NotADirectory
  BadPath = BadPath
  Shells = {sh1, sh2}
  Closed = Closed
  Paths <- MCPaths
  Sources <- MCSources
  Trees <- MCTrees
  ConfDirectory <- MCConfDirectory
  ConfName = "conf"
  MaxCommands = 3
SYMMETRY Symmetry
INVARIANTS
  FilesAreATree
  FoundWhereItWasPut
PROPERTIES
  NoDirectoryLost
  TemporaryIsWiped
CHECK_DEADLOCK FALSE
