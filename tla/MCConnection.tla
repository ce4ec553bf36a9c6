---------------------------- MODULE MCConnection ----------------------------
(* A small instance of Connection for TLC: two messages from the manager and   *)
(* one answer of the reader meet a send channel for two.                       *)
EXTENDS Connection

CONSTANTS m1, m2, pong
=============================================================================
