\* A WebSocket or TCP connection with everybody who sends through it or closes it.
SPECIFICATION FairSpec
CONSTANTS
  m1 = m1
  m2 = m2
  pong = pong
  Kinds = {"ws", "tcp"}
  RunMsgs = {m1, m2}
  Answers = {pong}
  Nothing = Nothing
  Capacity = 2
CHECK_DEADLOCK FALSE
INVARIANTS
  PanicNeedsRace
PROPERTIES
  DeadEndNoticed
  EverybodyEnds
  ImplementsMailbox
