SPECIFICATION RefreshSpec
CONSTANTS
  None = None
  NoFile = NoFile
  Broken = Broken
  Editions <- MCEditions
  First <- PlainEdition
  Catalog <- MCCatalog
  HostKeys <- MCHostKeys
  NoFamily <- MCNoFamily
  SizeNames <- MCSizeNames
  PageSize = 2
  ThrottleRetries = 1
  MaxEditions = 1
INVARIANT
  FallbackIsMarked
