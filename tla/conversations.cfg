\* alice and bob open a conversation with each other and alice a group of the two,
\* while bob writes a message and alice marks messages as read on two devices.
SPECIFICATION Spec
CONSTANTS
  alice = alice
  bob = bob
  r1 = r1
  r2 = r2
  r3 = r3
  c1 = c1
  c2 = c2
  m1 = m1
  k1 = k1
  k2 = k2
  Users = {alice, bob}
  Convs = {c1, c2}
  NoConv = NoConv
  Requests = {r1, r2, r3}
  Caller <- MCCaller
  Peer <- MCPeer
  ForGroup = {r3}
  Msgs = {m1}
  Sender <- MCSender
  Marks = {k1, k2}
  Reader <- MCReader
  DbMayFail = TRUE
  MaxTime = 1
SYMMETRY MCSymmetry
CHECK_DEADLOCK FALSE
INVARIANTS
  OneConversation
  AnswerIsOurs
  ReadStaysRead
