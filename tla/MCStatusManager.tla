-------------------------- MODULE MCStatusManager --------------------------
(* A small instance of StatusManager for TLC.                              *)
EXTENDS StatusManager

CONSTANTS s1, s2, alice, a1, a2, a3, h1

\* alice's browser (a1) and her app (a2) at one server, a browser (a3) at another.
MCConnUser == [c \in Conns |-> alice]
MCConnServer == [c \in Conns |-> IF c = a3 THEN s2 ELSE s1]
MCConnType == [c \in Conns |-> IF c = a2 THEN "tcp" ELSE "websocket"]
MCBeatUser == [b \in Beats |-> alice]
=============================================================================
