-------------------------- MODULE MCMessageService --------------------------
(* Small instances of MessageService for TLC.                              *)
EXTENDS MessageService

CONSTANTS alice, bob, m1, m2, m3, x, y, b1, b2, r1, r2

\* alice sends one message to bob and sends it again, and one to the group.
MCIdOf == [m \in Sends |-> IF m = m3 THEN y ELSE x]
MCSenderOf == [m \in Sends |-> alice]
MCRecipientOf == [m \in Sends |-> IF m = m3 THEN Group ELSE bob]

\* Her two handlers broadcast her status, while she and bob ask each other.
MCUserOf == [b \in Broadcasts |-> alice]
MCAsker == [r \in Requests |-> IF r = r1 THEN alice ELSE bob]
MCFriend == [r \in Requests |-> IF r = r1 THEN bob ELSE alice]
=============================================================================
