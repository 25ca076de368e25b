------------------------- MODULE MCWebSocketServer -------------------------
(* Two descriptors and two connections, which may follow one another on   *)
(* one of them; two workers, two users, one room.                         *)
EXTENDS WebSocketServer, TLC

CONSTANTS w1, w2, room, alice, bob

MCFds == 1 .. 2
MCWorkers == {w1, w2}
MCOneRoom == {room}
MCUsers == {alice, bob}
MCSymmetry == Permutations(MCWorkers) \cup Permutations(MCUsers)
=============================================================================
