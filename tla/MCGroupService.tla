--------------------------- MODULE MCGroupService ---------------------------
(* A small instance of GroupService for TLC: two requests at a time.       *)
EXTENDS GroupService, TLC

CONSTANTS p1, p2, alice, bob, carol, g1, i1, i2, i3

\* Requests are interchangeable, and so are generated ids.
Symmetric == Permutations({p1, p2}) \cup Permutations({i1, i2, i3})
=============================================================================
