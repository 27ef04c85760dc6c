SPECIFICATION FairSpec
CONSTANTS
  ann = ann
  bob = bob
  Accounts = {ann, bob}
  NameOf <- MCNameOf
  Subscriptions = {"s1", "s2"}
  Enabled <- MCEnabled
  Default <- MCDefault
  Checks = {"disk", "zone", "subnet"}
  Cleanable = {"disk", "subnet"}
  Waste <- MCWaste
  Ids = {"q1", "q2"}
  None = None
  Cent = 10
  RegionOf <- MCRegionOf
  NoFile = NoFile
  Half = Half
  Scopes <- MCScopes
INVARIANTS
  PageIsNoFalseAllClear
