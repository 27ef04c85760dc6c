SPECIFICATION Spec
CONSTANTS
  Builtin <- Shipped
  Installed <- LoadInstalled
  Body <- LoadBody
  Home <- LoadHome
  OtherApi = {"old"}
  Names <- MCNames
  Keys <- MCKeys
  DisableOptions <- LoadOptions
  MaxRounds = 3
INVARIANTS
  TypeOK
  DiscoveryIsRepeatable
  GoodPacksLoad
  DisabledPacksAreSilent
CHECK_DEADLOCK FALSE
