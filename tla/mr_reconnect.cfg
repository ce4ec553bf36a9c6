\* alice reconnects while a message sent to her from her own server is on its
\* way, through the queue or, while she is away, through Redis.
SPECIFICATION FairRoutingSpec
CONSTANTS
  s1 = s1
  s2 = s2
  alice = alice
  a1 = a1
  a2 = a2
  a3 = a3
  Servers = {s1, s2}
  Users = {alice}
  Conns = {a1, a3}
  NoServer = NoServer
  NoUser = NoUser
  ConnUser <- MCConnUser
  ConnServer <- MCConnServer
  ConnType <- MCConnType
  RedisEnabled = TRUE
  RedisMayFail = FALSE
  PatientUsers = {}
  Addressees = {alice}
  Befriended = {}
  StopServers = {}
  CrashServers = {}
  MaxLives = 1
  Msgs = {1}
  MsgFrom <- MCMsgFrom
  MsgTo <- MCMsgTo
  NoMsg = 0
  QueueCap = 1
  BuffersFill = FALSE
CHECK_DEADLOCK FALSE
INVARIANT
  NoLossWhileReachable
PROPERTIES
  EveryMessageSettles
  ImplementsManager
