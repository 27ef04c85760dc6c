SPECIFICATION Spec
CONSTANTS
  plans = plans
  env = env
  small = small
  large = large
  shared = shared
  app = app
  pinned = pinned
  test = test
  logs = logs
  ptu = ptu
  registry = registry
  cluster = cluster
  instance = instance
  store = store
  key = key
  secret = secret
  account = account
  zone = zone
  sql = sql
  aks = aks
  group = group
  nodes = nodes
  slots = slots
  host1 = host1
  host2 = host2
  Services <- MCServiceSet
  CheckOf <- MCCheckOf
  EnvironmentOf <- MCEnvironmentOf
  Clusters = {cluster}
  Managed <- MCManaged
  Bound <- MCBound
  Holding <- MCHolding
  MaxChanges = 2
INVARIANTS
  StillScanIsExact
PROPERTIES
  NothingInUseIsLost
CHECK_DEADLOCK FALSE
