SPECIFICATION FairSpec
CONSTANTS
  tA = tA
  tB = tB
  a1 = a1
  a2 = a2
  b1 = b1
  x = x
  Workers = {w1}
  Main = Main
  Tenants <- MCTenants
  Subs <- MCSubs
  Home <- MCHome
  Known <- MCKnown
  Representative <- MCRepresentative
  NamedSub = a1
  Prepared = {}
  Scope = {a1, b1}
  DEFAULT_TENANT = DEFAULT_TENANT
  None = None
  Unset = Unset
  NoToken = NoToken
  Lifetimes = {2, 3}
  SKEW = 1
  RequestTimeout = 1
  MaxNow = 3
  MaxCalls = 2
INVARIANT TokenOfTheRightTenant
CHECK_DEADLOCK FALSE
