\* Two requests at a time on one group with three users, of whom one may be
\* invited twice; any query may fail.
SPECIFICATION Spec
CONSTANTS
  p1 = p1
  p2 = p2
  alice = alice
  bob = bob
  g1 = g1
  i1 = i1
  i2 = i2
  i3 = i3
  carol = carol
  Callers = {p1, p2}
  Users = {alice, bob, carol}
  Groups = {g1}
  RowIds = {i1, i2, i3}
  None = None
  DbMayFail = TRUE
SYMMETRY Symmetric
CHECK_DEADLOCK FALSE
INVARIANTS
  GroupTypeOK
  OwnerStaysAdmin
  DoubleExplained
  OrphanOnlyByRace
PROPERTY
  OnlyOwnerActs
