\* Two servers, of which s1 may crash and come back and s2 may be told to stop
\* and come back; bob moves from one to the other and back, and waits each time
\* until his last connection is finished.
SPECIFICATION FairSpec
CONSTANTS
  s1 = s1
  s2 = s2
  alice = alice
  bob = bob
  a1 = a1
  a2 = a2
  a3 = a3
  b1 = b1
  b2 = b2
  b3 = b3
  Servers = {s1, s2}
  Users = {bob}
  Conns = {b1, b2, b3}
  NoServer = NoServer
  NoUser = NoUser
  ConnUser <- MCConnUser
  ConnServer <- MCTwoServers
  ConnType <- MCConnType
  RedisEnabled = TRUE
  RedisMayFail = FALSE
  PatientUsers = {bob}
  Addressees = {}
  Befriended = {bob}
  StopServers = {s2}
  CrashServers = {s1}
  MaxLives = 2
CHECK_DEADLOCK FALSE
INVARIANTS
  PatientUserReachable
  FriendsKnow
PROPERTIES
  ClosedIsUnregistered
  SweepSparesMoved
