SPECIFICATION HandOverSpec
CONSTANTS
  FileAuths = {f1}
  RuntimeAuths = {w1}
  AuthContents = {c1}
  Gone = gone
  Refreshers = {t1, t2}
  QueueSize = 1
  RefreshLimit <- OneRefresh
  RelayLimit = 2
  s1 = s1
  Sessions = {s1}
  RelayRequests = {q1}
  SessionOf <- OneSession
  ChannelSize = 2
  ChunkLimit = 2
  Publishers = {p1, p2}
  RecordLimit = 2
  PluginLimit = 2
INVARIANTS
  HandOverTypeOK
  ConsumerFollows
  StreamsEndHonestly AuthGoesWithSession
  HandledInOrder
PROPERTIES
  SessionEndsRequests StopDrains ImplementsMail StopEndsLoop
CHECK_DEADLOCK FALSE
