CONSTANTS
  a1 = a1
  a2 = a2
  m1 = m1
  m2 = m2
  p1 = p1
  r1 = r1
  r2 = r2
  r3 = r3
  NoProv = NoProv
  f1 = f1
  f2 = f2
  u1 = u1
  h1 = h1
  Clients = {a1}
  Models = {m1}
  Providers = {p1}
  NoProvider = NoProv
  Reasons = {"quota", "unauthorized", "payment_required", "not_found"}
  Lists <- MCLists
  MaxCopies = 1
  QuotaWindow = 0
  Requests = {r1}
  Streams = {}
  WantModel <- SameModel
  WantProviders <- MCWantProviders
  ProviderOf <- MCProviderOf
  Priority <- MCPriority
  RetryLimit <- NeverRetry
  MaxWait = 1
  NoCooling = {}
  Loaded <- Clients
  OfferedLists <- MCOffered
  OutcomeKinds = {"other"}
  TransientCooldown = 1
  AccessCooldown = 2
  NotFoundCooldown = 3
  QuotaBackoffBase = 1
  QuotaBackoffMax = 2
  RetryAfters = {}
  Refreshers = {f1}
  Consumers = {u1}
  Handlers = {h1}
  RefreshPending = 1
  RefreshFailure = 1
  UpdateLimit <- MCUpdateLimit
SPECIFICATION FairLifecycleSpec
CHECK_DEADLOCK FALSE
INVARIANTS
  LifecycleTypeOK
PROPERTIES
  WithdrawnNotPicked
  RefreshGoesOn
