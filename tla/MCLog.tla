------------------------------- MODULE MCLog -------------------------------
(* Two threads that log into a ring of two slots, and one that exits. *)
EXTENDS Log, TLC

CONSTANTS t1, t2

Two == {t1, t2}
=============================================================================
