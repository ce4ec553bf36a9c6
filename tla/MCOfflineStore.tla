--------------------------- MODULE MCOfflineStore ---------------------------
(* Small instances of OfflineStore for TLC.                                *)
EXTENDS OfflineStore

CONSTANTS s1, s2, alice, a1, a2, a3, a4, hello

\* alice's app (a1) and two of her browsers (a2, a3) at one server, her app at
\* another (a4); hello is a message for her, or an answer to her app.
MCConnUser == [c \in Conns |-> alice]
MCConnType == [c \in Conns |-> IF c \in {a1, a4} THEN "tcp" ELSE "websocket"]
MCConnServer == [c \in Conns |-> IF c = a4 THEN s2 ELSE s1]
MCBefore == [c \in Conns |-> IF c = a2 THEN {a1} ELSE {}]
MCMsgTo == [m \in Msgs |-> alice]
MCMsgServer == [m \in Msgs |-> s1]
=============================================================================
