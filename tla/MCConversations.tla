-------------------------- MODULE MCConversations --------------------------
(* A small instance of Conversations for TLC.                              *)
EXTENDS Conversations, TLC

CONSTANTS alice, bob, r1, r2, r3, c1, c2, m1, k1, k2

\* alice and bob open a conversation with each other, and a group.
MCCaller == [r \in Requests |-> IF r = r2 THEN bob ELSE alice]
MCPeer == [r \in Requests |-> IF r = r2 THEN alice ELSE bob]

\* bob writes, and alice reads on two devices.
MCSender == [m \in Msgs |-> bob]
MCReader == [k \in Marks |-> alice]

\* The ids are interchangeable, and so are alice's two devices.
MCSymmetry == Permutations(Convs) \cup Permutations(Marks)
=============================================================================
