\* Alice's app and browser at one server, two browsers there, or a connection there and
\* her app at another server come and go in any order, and both servers may stop; and her
\* app and then a browser come and go while a message for her, or an answer to her app, is
\* on its way.
SPECIFICATION StoreSpec
CONSTANTS
  s1 = s1
  s2 = s2
  alice = alice
  a1 = a1
  a2 = a2
  a3 = a3
  a4 = a4
  hello = hello
  Servers = {s1, s2}
  Users = {alice}
  Conns = {a1, a2, a3, a4}
  NoConn = NoConn
  NoUser = NoUser
  ConnUser <- MCConnUser
  ConnServer <- MCConnServer
  ConnType <- MCConnType
  RedisEnabled = TRUE
  RedisMayFail = FALSE
  StopServers = {s1, s2}
  Before <- MCBefore
  Groups = {{a1, a2}, {a2, a3}, {a1, a4}, {a2, a4}}
  Audience = {a1, a2}
  Msgs = {hello}
  MsgTo <- MCMsgTo
  MsgServer <- MCMsgServer
  NoCopy = NoCopy
  NoId = NoId
  FreshIds = {1}
  QueueCap = 1
  SlowConns = {a2}
  DbMayFail = TRUE
CHECK_DEADLOCK FALSE
INVARIANTS
  NewestIsHeld
  NoGhostEntry
  KeptOrDelivered
  MarkedWasSent
