------------------------------ MODULE MCServer ------------------------------
(* Two workers with one database connection, two SubReactors. *)
EXTENDS Server, TLC

CONSTANTS w1, w2, s1, alice

MCWorkers == {w1, w2}
MCSqlConns == {s1}
MCUsers == {alice}
=============================================================================
