\* alice's browser and her app connect to one server and a browser of hers to
\* another, while an HTTP heartbeat of hers is on its way.
SPECIFICATION Spec
CONSTANTS
  s1 = s1
  s2 = s2
  alice = alice
  a1 = a1
  a2 = a2
  a3 = a3
  h1 = h1
  Servers = {s1, s2}
  Users = {alice}
  Conns = {a1, a2, a3}
  ConnUser <- MCConnUser
  ConnServer <- MCConnServer
  ConnType <- MCConnType
  Staying = {a1, a2, a3}
  Beats = {h1}
  BeatUser <- MCBeatUser
  MayFail = {a3, h1}
  NoServer = NoServer
CHECK_DEADLOCK FALSE
INVARIANTS
  RecordCatchesUp
  OnlineSetCatchesUp
