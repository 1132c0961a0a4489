------------------------------ MODULE MCWsServer ------------------------------
(* Instances of WsServer for TLC. *)
EXTENDS WsServer

CONSTANTS a, b, c1, c2, c3

\* Client a connects twice, client b once.
TwiceAndOnce == [c \in Conns |-> IF c = c3 THEN b ELSE a]
==============================================================================
