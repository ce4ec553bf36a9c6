\* One server that neither stops nor crashes; alice reconnects and switches to
\* her app without waiting, and somebody keeps sending messages to her.
SPECIFICATION Spec
CONSTANTS
  s1 = s1
  s2 = s2
  alice = alice
  bob = bob
  a1 = a1
  a2 = a2
  a3 = a3
  b1 = b1
  b2 = b2
  b3 = b3
  Servers = {s1}
  Users = {alice}
  Conns = {a1, a2, a3}
  NoServer = NoServer
  NoUser = NoUser
  ConnUser <- MCConnUser
  ConnServer <- MCOneServer
  ConnType <- MCConnType
  RedisEnabled = TRUE
  RedisMayFail = FALSE
  PatientUsers = {}
  Addressees = {alice}
  Befriended = {}
  StopServers = {}
  CrashServers = {}
  MaxLives = 1
CHECK_DEADLOCK FALSE
INVARIANTS
  NoLeakedEntry
  NoUnreachableConnection
  NoGhostLocalUser
  NoGhostOnline
  NoGhostRoute
