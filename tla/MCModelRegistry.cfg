CONSTANTS
  c1 = c1
  c2 = c2
  m1 = m1
  m2 = m2
  p1 = p1
  p2 = p2
  NoProv = NoProv
  Clients = {c1, c2}
  Models = {m1, m2}
  Providers = {p1, p2}
  NoProvider = NoProv
  Reasons = {"quota", "unauthorized"}
  Lists <- ShortLists
  MaxCopies = 2
  QuotaWindow = 1
SYMMETRY MCSymmetry
SPECIFICATION RegistrySpec
CHECK_DEADLOCK FALSE
INVARIANTS
  CountExact
  ProvidersExact
  QuotaNeverHides
  ListedWhenMarksExact
PROPERTIES
  MarksLeaveWithClient
  CleanupInvisible
