SPECIFICATION RelaySpec
CONSTANTS
  s1 = s1
  Sessions = {s1}
  RelayRequests = {q1}
  SessionOf <- OneSession
  ChannelSize = 2
  ChunkLimit = 2
INVARIANTS NoSendOnClosed
CHECK_DEADLOCK FALSE
