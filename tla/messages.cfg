\* alice sends a message twice and one to the group while a query may fail, and
\* her status is broadcast twice while she and bob become friends.
SPECIFICATION FairSpec
CONSTANTS
  alice = alice
  bob = bob
  m1 = m1
  m2 = m2
  m3 = m3
  x = x
  y = y
  b1 = b1
  b2 = b2
  r1 = r1
  r2 = r2
  Users = {alice, bob}
  Group = Group
  Sends = {m1, m2, m3}
  IdOf <- MCIdOf
  SenderOf <- MCSenderOf
  RecipientOf <- MCRecipientOf
  DbMayFail = TRUE
  Broadcasts = {b1, b2}
  UserOf <- MCUserOf
  Requests = {r1, r2}
  Asker <- MCAsker
  Friend <- MCFriend
  NotifyCap = 2
CHECK_DEADLOCK FALSE
INVARIANTS
  ForwardedIsSaved
  ForwardedOnce
  FriendshipMutual
  StatusInOrder
PROPERTY
  FriendIsTold
