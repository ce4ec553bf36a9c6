\* alice connects and leaves while messages from her own and from another server
\* are on their way; her server may stop, Redis may refuse any command, and her
\* queue and her buffer may be full.
SPECIFICATION RoutingSpec
CONSTANTS
  s1 = s1
  s2 = s2
  alice = alice
  a1 = a1
  a2 = a2
  a3 = a3
  Servers = {s1, s2}
  Users = {alice}
  Conns = {a1}
  NoServer = NoServer
  NoUser = NoUser
  ConnUser <- MCConnUser
  ConnServer <- MCConnServer
  ConnType <- MCConnType
  RedisEnabled = TRUE
  RedisMayFail = TRUE
  PatientUsers = {}
  Addressees = {alice}
  Befriended = {}
  StopServers = {s1}
  CrashServers = {}
  MaxLives = 1
  Msgs = {1, 2, 3}
  MsgFrom <- MCMsgFrom
  MsgTo <- MCMsgTo
  NoMsg = 0
  QueueCap = 1
  BuffersFill = TRUE
CHECK_DEADLOCK FALSE
INVARIANTS
  OnePlace
  SameWayInOrder
