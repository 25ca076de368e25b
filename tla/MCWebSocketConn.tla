-------------------------- MODULE MCWebSocketConn --------------------------
(* One connection and two workers. *)
EXTENDS WebSocketConn, TLC

CONSTANTS w1, w2

MCWorkers == {w1, w2}
MCSymmetry == Permutations(MCWorkers)
=============================================================================
