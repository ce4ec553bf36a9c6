------------------------ MODULE MCConnectionManager ------------------------
(* Small instances of ConnectionManager for TLC.                           *)
EXTENDS ConnectionManager

CONSTANTS s1, s2, alice, bob, a1, a2, a3, b1, b2, b3

\* The connections of the instances: alice's browser (a1), her app (a2) and
\* her browser again (a3); bob's browser (b1), his app (b2) and his
\* browser again (b3).
MCConnUser == [c \in Conns |-> IF c \in {a1, a2, a3} THEN alice ELSE bob]
MCConnType == [c \in Conns |-> CASE c = a2 -> "tcp"
                                 [] c = b2 -> "tcp_ws"
                                 [] OTHER -> "websocket"]

\* All of them at one server, or the apps at a second one.
MCOneServer == [c \in Conns |-> s1]
MCTwoServers == [c \in Conns |-> IF c \in {a2, b2} THEN s2 ELSE s1]
=============================================================================
