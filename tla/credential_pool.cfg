SPECIFICATION FairSpec
CONSTANTS
  tA = tA
  tB = tB
  a1 = a1
  a2 = a2
  b1 = b1
  x = x
  Workers = {w1, w2}
  Main = Main
  Tenants <- MCTenants
  Subs <- MCSubs
  Home <- MCHome
  Known <- MCKnown
  Representative <- MCRepresentative
  NamedSub = None
  Prepared = {a1, a2, x}
  Scope = {a2, x}
  DEFAULT_TENANT = DEFAULT_TENANT
  None = None
  Unset = Unset
  NoToken = NoToken
  Lifetimes = {3}
  SKEW = 1
  RequestTimeout = 1
  MaxNow = 4
  MaxCalls = 2
INVARIANTS
  TypeOK
  OneAzAtATime
  TokenOfTheRightTenant
  NoRequestOutlivesItsToken
PROPERTIES
  ImplementsTokenStore
  NobodyIsStuck
CHECK_DEADLOCK FALSE
