\* A message is sent while the connection is being closed.
SPECIFICATION Spec
CONSTANTS
  m1 = m1
  m2 = m2
  pong = pong
  Kinds = {"ws", "tcp"}
  RunMsgs = {m1}
  Answers = {pong}
  Nothing = Nothing
  Capacity = 1
CHECK_DEADLOCK FALSE
PROPERTY
  SendIsSafe
