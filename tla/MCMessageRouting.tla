-------------------------- MODULE MCMessageRouting --------------------------
(* Small instances of MessageRouting for TLC.                              *)
EXTENDS MessageRouting

CONSTANTS s1, s2, alice, a1, a2, a3

\* alice's browser (a1), her app (a2) and her browser again (a3).
MCConnUser == [c \in Conns |-> alice]
MCConnType == [c \in Conns |-> IF c = a2 THEN "tcp" ELSE "websocket"]
MCConnServer == [c \in Conns |-> s1]
MCMsgTo == [m \in Msgs |-> alice]

\* The first message comes from alice's server, the others from another.
MCMsgFrom == [m \in Msgs |-> IF m = 1 THEN s1 ELSE s2]
=============================================================================
