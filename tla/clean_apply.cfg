SPECIFICATION FairSpec
CONSTANTS
  disk = disk
  group = group
  reservation = reservation
  vnet = vnet
  Findings <- MCFindings
  None = None
  Cleaner <- MCCleaner
  Cascades = {group}
  Capacity <- MCCapacity
  MAX_ATTEMPTS = 4
  MaxTouches = 1
INVARIANTS
  TypeOK
  OnlyAgreedStepsInOrder
  OnlyNewContentIsLost
  PartialWorkIsTold
PROPERTIES
  BackupPrecedesDelete
  CleanEnds
CHECK_DEADLOCK FALSE
