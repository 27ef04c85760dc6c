SPECIFICATION FairSpec
CONSTANTS
  s1 = s1
  s2 = s2
  disks = disks
  tests = tests
  Workers = {w1, w2}
  Subs <- MCSubs
  Checks <- MCChecks
  Jobs <- MCJobs
  Needs <- MCNeeds
  Pages <- MCPages
  Waste = {1, 2}
  Failures <- MCFailures
  MaxChanges = 1
INVARIANTS
  TypeOK
  VerdictsAreJustified
  FailureIsTold
PROPERTIES
  ImplementsScanReport
  ScanEnds
CHECK_DEADLOCK FALSE
